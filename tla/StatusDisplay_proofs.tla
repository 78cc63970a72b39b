------------------------ MODULE StatusDisplay_proofs -------------------------
(***************************************************************************)
(* Proofs about StatusDisplay, for every set of messages and every bound:  *)
(* the display is of one message, its holds and its quiet are those of the *)
(* message shown last, no label goes back, and the frame outlives the      *)
(* updates that captured it.                                               *)
(***************************************************************************)
EXTENDS StatusDisplay, SequenceTheorems, TLAPS

StatusType == [screen : Screens, playing : BOOLEAN, has : SUBSET Fields]
EventType  == [status : StatusType, from : Nat]
Texts      == Fields \cup {"", "---"}
LabelType  == [text : Texts, from : Nat]

(* The labels that every known screen writes.                              *)
MessageLabels == MidLabels \cup {"left0", "right0", "right2", "right3", "right4"}

-----------------------------------------------------------------------------
(* No field has the name of the dashes that stand for no signal.           *)
LEMMA DashesNoField == "---" \notin Fields
  <1> SUFFICES ASSUME NEW e \in Elements PROVE "---" \notin FieldsOf[e]
    BY DEF Fields
  <1> QED
    BY DEF Elements, FieldsOf

(* A conventional_scan message writes all of them.                         *)
LEMMA ConventionalWrites ==
  ASSUME NEW playing \in BOOLEAN
  PROVE  MessageLabels \subseteq DOMAIN Conventional(playing)
  <1>1. CASE playing
    BY <1>1 DEF Conventional, MessageLabels, MidLabels
  <1>2. CASE ~playing
    BY <1>2 DEF Conventional, MessageLabels, MidLabels
  <1> QED
    BY <1>1, <1>2

(* So does a trunk_scan message.                                           *)
LEMMA TrunkWrites ==
  ASSUME NEW playing \in BOOLEAN
  PROVE  MessageLabels \subseteq DOMAIN Trunk(playing)
  <1>1. CASE playing
    BY <1>1 DEF Trunk, MessageLabels, MidLabels
  <1>2. CASE ~playing
    BY <1>2 DEF Trunk, MessageLabels, MidLabels
  <1> QED
    BY <1>1, <1>2

(* A message writes all of them, or no label at all.                       *)
LEMMA LayoutWritesAll ==
  ASSUME NEW status \in StatusType
  PROVE  \/ MessageLabels \subseteq DOMAIN Layout(status)
         \/ status.screen = "other" /\ DOMAIN Layout(status) = {}
  <1>1. CASE status.screen = "conventional_scan"
    <2>1. Layout(status) = Conventional(status.playing)
      BY <1>1 DEF Layout
    <2> QED
      BY <2>1, ConventionalWrites DEF StatusType
  <1>2. CASE status.screen = "trunk_scan"
    <2>1. Layout(status) = Trunk(status.playing)
      BY <1>2 DEF Layout
    <2> QED
      BY <2>1, TrunkWrites DEF StatusType
  <1>3. CASE status.screen = "wx_alert"
    <2>1. Layout(status) = Weather
      BY <1>3 DEF Layout
    <2> QED
      BY <2>1 DEF Weather, MessageLabels, Labels, MidLabels
  <1>4. CASE status.screen = "other"
    BY <1>4 DEF Layout
  <1> QED
    BY <1>1, <1>2, <1>3, <1>4 DEF StatusType, Screens

(* The names used in the layouts are those of fields.                      *)
LEMMA FieldNames ==
  /\ {"System_Name", "MonitorList_Name", "Dept_Name"} \subseteq Fields
  /\ {"ConvFreq_Name", "ConvFreq_Freq", "ConvFreq_SvcType"} \subseteq Fields
  /\ {"ConvFreq_SAS", "Prop_SQL", "Prop_Sig", "Prop_Rssi"} \subseteq Fields
  /\ {"Prop_P25Status"} \subseteq Fields
  /\ {"Site_Name", "SiteFreq_Freq"} \subseteq Fields
  /\ {"TGID_Name", "TGID_TGID", "TGID_SvcType"} \subseteq Fields
  /\ {"UnitID_Name", "wx_Mode", "wx_CH_No", "OverWriteText"} \subseteq Fields
  <1> DEFINE S == {"System", "Department", "MonitorList", "ConvFrequency", "Site",
                   "SiteFrequency", "TGID", "UnitID", "WxMode", "WxChannel", "Property",
                   "OverWrite"}
  <1>1. S \subseteq Elements
    BY DEF Elements, FieldsOf
  <1>2. Fields = UNION {FieldsOf[e] : e \in Elements}
    BY DEF Fields
  <1>3. \A e \in S : FieldsOf[e] \subseteq Fields
    BY <1>1, <1>2
  <1>4. /\ {"System_Name"} \subseteq FieldsOf["System"]
        /\ {"Dept_Name"} \subseteq FieldsOf["Department"]
        /\ {"MonitorList_Name"} \subseteq FieldsOf["MonitorList"]
    BY DEF FieldsOf
  <1>5. /\ {"ConvFreq_Name", "ConvFreq_Freq", "ConvFreq_SvcType", "ConvFreq_SAS"}
               \subseteq FieldsOf["ConvFrequency"]
        /\ {"Prop_SQL", "Prop_Sig", "Prop_Rssi", "Prop_P25Status"}
               \subseteq FieldsOf["Property"]
    BY DEF FieldsOf
  <1>6. /\ {"Site_Name"} \subseteq FieldsOf["Site"]
        /\ {"SiteFreq_Freq"} \subseteq FieldsOf["SiteFrequency"]
        /\ {"TGID_Name", "TGID_TGID", "TGID_SvcType"} \subseteq FieldsOf["TGID"]
    BY DEF FieldsOf
  <1>7. /\ {"UnitID_Name"} \subseteq FieldsOf["UnitID"]
        /\ {"wx_Mode"} \subseteq FieldsOf["WxMode"]
        /\ {"wx_CH_No"} \subseteq FieldsOf["WxChannel"]
        /\ {"OverWriteText"} \subseteq FieldsOf["OverWrite"]
    BY DEF FieldsOf
  <1> QED
    BY <1>3, <1>4, <1>5, <1>6, <1>7

(* What a conventional_scan message writes is a field or a literal.        *)
LEMMA ConventionalTexts ==
  ASSUME NEW playing \in BOOLEAN, NEW l \in DOMAIN Conventional(playing)
  PROVE  Conventional(playing)[l] \in Texts
  <1>1. CASE playing
    <2>1. Conventional(playing) = Conventional(TRUE)
      BY <1>1
    <2>2. DOMAIN Conventional(TRUE) =
            {"mid0", "mid1", "mid2", "mid3", "mid4", "mid5",
             "left0", "right0", "right2", "right3", "right4"}
      BY DEF Conventional
    <2>3. /\ Conventional(TRUE)["mid0"] \in Texts
          /\ Conventional(TRUE)["mid1"] \in Texts
          /\ Conventional(TRUE)["mid2"] \in Texts
          /\ Conventional(TRUE)["mid3"] \in Texts
          /\ Conventional(TRUE)["mid4"] \in Texts
      BY FieldNames DEF Conventional, Texts
    <2>4. /\ Conventional(TRUE)["mid5"] \in Texts
          /\ Conventional(TRUE)["left0"] \in Texts
          /\ Conventional(TRUE)["right0"] \in Texts
          /\ Conventional(TRUE)["right2"] \in Texts
          /\ Conventional(TRUE)["right3"] \in Texts
          /\ Conventional(TRUE)["right4"] \in Texts
      BY FieldNames DEF Conventional, Texts
    <2> QED
      BY <2>1, <2>2, <2>3, <2>4
  <1>2. CASE ~playing
    <2>1. Conventional(playing) = Conventional(FALSE)
      BY <1>2
    <2>2. DOMAIN Conventional(FALSE) =
            {"mid0", "mid1", "mid2", "mid3", "mid4", "mid5",
             "left0", "right0", "right2", "right3", "right4"}
      BY DEF Conventional
    <2>3. /\ Conventional(FALSE)["mid0"] \in Texts
          /\ Conventional(FALSE)["mid1"] \in Texts
          /\ Conventional(FALSE)["mid2"] \in Texts
          /\ Conventional(FALSE)["mid3"] \in Texts
          /\ Conventional(FALSE)["mid4"] \in Texts
      BY FieldNames DEF Conventional, Texts
    <2>4. /\ Conventional(FALSE)["mid5"] \in Texts
          /\ Conventional(FALSE)["left0"] \in Texts
          /\ Conventional(FALSE)["right0"] \in Texts
          /\ Conventional(FALSE)["right2"] \in Texts
          /\ Conventional(FALSE)["right3"] \in Texts
          /\ Conventional(FALSE)["right4"] \in Texts
      BY FieldNames DEF Conventional, Texts
    <2> QED
      BY <2>1, <2>2, <2>3, <2>4
  <1> QED
    BY <1>1, <1>2

(* So is what a trunk_scan message writes.                                 *)
LEMMA TrunkTexts ==
  ASSUME NEW playing \in BOOLEAN, NEW l \in DOMAIN Trunk(playing)
  PROVE  Trunk(playing)[l] \in Texts
  <1>1. CASE playing
    <2>1. Trunk(playing) = Trunk(TRUE)
      BY <1>1
    <2>2. DOMAIN Trunk(TRUE) =
            {"mid0", "mid1", "mid2", "mid3", "mid4", "mid5",
             "left0", "left4", "right0", "right1", "right2", "right3", "right4"}
      BY DEF Trunk
    <2>3. /\ Trunk(TRUE)["mid0"] \in Texts
          /\ Trunk(TRUE)["mid1"] \in Texts
          /\ Trunk(TRUE)["mid2"] \in Texts
          /\ Trunk(TRUE)["mid3"] \in Texts
          /\ Trunk(TRUE)["mid4"] \in Texts
          /\ Trunk(TRUE)["mid5"] \in Texts
      BY FieldNames DEF Trunk, Texts
    <2>4. /\ Trunk(TRUE)["left0"] \in Texts
          /\ Trunk(TRUE)["left4"] \in Texts
          /\ Trunk(TRUE)["right0"] \in Texts
          /\ Trunk(TRUE)["right1"] \in Texts
          /\ Trunk(TRUE)["right2"] \in Texts
          /\ Trunk(TRUE)["right3"] \in Texts
          /\ Trunk(TRUE)["right4"] \in Texts
      BY FieldNames DEF Trunk, Texts
    <2> QED
      BY <2>1, <2>2, <2>3, <2>4
  <1>2. CASE ~playing
    <2>1. Trunk(playing) = Trunk(FALSE)
      BY <1>2
    <2>2. DOMAIN Trunk(FALSE) =
            {"mid0", "mid1", "mid2", "mid3", "mid4", "mid5",
             "left0", "right0", "right1", "right2", "right3", "right4"}
      BY DEF Trunk
    <2>3. /\ Trunk(FALSE)["mid0"] \in Texts
          /\ Trunk(FALSE)["mid1"] \in Texts
          /\ Trunk(FALSE)["mid2"] \in Texts
          /\ Trunk(FALSE)["mid3"] \in Texts
          /\ Trunk(FALSE)["mid4"] \in Texts
          /\ Trunk(FALSE)["mid5"] \in Texts
      BY FieldNames DEF Trunk, Texts
    <2>4. /\ Trunk(FALSE)["left0"] \in Texts
          /\ Trunk(FALSE)["right0"] \in Texts
          /\ Trunk(FALSE)["right1"] \in Texts
          /\ Trunk(FALSE)["right2"] \in Texts
          /\ Trunk(FALSE)["right3"] \in Texts
          /\ Trunk(FALSE)["right4"] \in Texts
      BY FieldNames DEF Trunk, Texts
    <2> QED
      BY <2>1, <2>2, <2>3, <2>4
  <1> QED
    BY <1>1, <1>2

(* So is what any message writes.                                          *)
LEMMA LayoutTexts ==
  ASSUME NEW status \in StatusType,
         NEW l \in DOMAIN Layout(status)
  PROVE  Layout(status)[l] \in Texts
  <1>1. CASE status.screen = "conventional_scan"
    <2>1. Layout(status) = Conventional(status.playing)
      BY <1>1 DEF Layout
    <2> QED
      BY <2>1, ConventionalTexts DEF StatusType
  <1>2. CASE status.screen = "trunk_scan"
    <2>1. Layout(status) = Trunk(status.playing)
      BY <1>2 DEF Layout
    <2> QED
      BY <2>1, TrunkTexts DEF StatusType
  <1>3. CASE status.screen = "wx_alert"
    <2>1. Layout(status) = Weather
      BY <1>3 DEF Layout
    <2> QED
      BY <2>1, FieldNames DEF Weather, Texts
  <1>4. CASE status.screen = "other"
    BY <1>4 DEF Layout
  <1> QED
    BY <1>1, <1>2, <1>3, <1>4 DEF StatusType, Screens

(* A scan message of a quiet scanner overwrites every label but those that *)
(* stay, and with nothing of a signal.                                     *)
LEMMA QuietLayout ==
  ASSUME NEW status \in StatusType,
         status.screen \in ScanScreens, ~status.playing,
         NEW l \in Labels \ StaysWhenQuiet(status.screen)
  PROVE  l \in DOMAIN Layout(status) /\ Layout(status)[l] \notin SignalFields
  <1>1. CASE status.screen = "conventional_scan"
    <2>1. Layout(status) = Conventional(FALSE)
      BY <1>1 DEF Layout, StatusType
    <2>2. DOMAIN Conventional(FALSE) =
            {"mid0", "mid1", "mid2", "mid3", "mid4", "mid5",
             "left0", "right0", "right2", "right3", "right4"}
      BY DEF Conventional
    <2>3. l \in DOMAIN Conventional(FALSE)
      BY <1>1, <2>2 DEF StaysWhenQuiet, Labels, MidLabels
    <2>4. /\ Conventional(FALSE)["mid0"] \notin SignalFields
          /\ Conventional(FALSE)["mid1"] \notin SignalFields
          /\ Conventional(FALSE)["mid2"] \notin SignalFields
          /\ Conventional(FALSE)["mid3"] \notin SignalFields
          /\ Conventional(FALSE)["mid4"] \notin SignalFields
          /\ Conventional(FALSE)["mid5"] \notin SignalFields
      BY DEF Conventional, SignalFields
    <2>5. /\ Conventional(FALSE)["left0"] \notin SignalFields
          /\ Conventional(FALSE)["right0"] \notin SignalFields
          /\ Conventional(FALSE)["right2"] \notin SignalFields
          /\ Conventional(FALSE)["right3"] \notin SignalFields
          /\ Conventional(FALSE)["right4"] \notin SignalFields
      BY DEF Conventional, SignalFields
    <2> QED
      BY <2>1, <2>2, <2>3, <2>4, <2>5
  <1>2. CASE status.screen = "trunk_scan"
    <2>1. Layout(status) = Trunk(FALSE)
      BY <1>2 DEF Layout, StatusType
    <2>2. DOMAIN Trunk(FALSE) =
            {"mid0", "mid1", "mid2", "mid3", "mid4", "mid5",
             "left0", "right0", "right1", "right2", "right3", "right4"}
      BY DEF Trunk
    <2>3. l \in DOMAIN Trunk(FALSE)
      BY <2>2 DEF StaysWhenQuiet, Labels, MidLabels
    <2>4. /\ Trunk(FALSE)["mid0"] \notin SignalFields
          /\ Trunk(FALSE)["mid1"] \notin SignalFields
          /\ Trunk(FALSE)["mid2"] \notin SignalFields
          /\ Trunk(FALSE)["mid3"] \notin SignalFields
          /\ Trunk(FALSE)["mid4"] \notin SignalFields
          /\ Trunk(FALSE)["mid5"] \notin SignalFields
      BY DEF Trunk, SignalFields
    <2>5. /\ Trunk(FALSE)["left0"] \notin SignalFields
          /\ Trunk(FALSE)["right0"] \notin SignalFields
          /\ Trunk(FALSE)["right1"] \notin SignalFields
          /\ Trunk(FALSE)["right2"] \notin SignalFields
          /\ Trunk(FALSE)["right3"] \notin SignalFields
          /\ Trunk(FALSE)["right4"] \notin SignalFields
      BY DEF Trunk, SignalFields
    <2> QED
      BY <2>1, <2>2, <2>3, <2>4, <2>5
  <1> QED
    BY <1>1, <1>2 DEF ScanScreens

(* The types of the variables; the numbers of messages are bounded by      *)
(* InOrder.                                                                *)
QueueTyped ==
    /\ receiving \in BOOLEAN /\ started \in BOOLEAN
    /\ guiPc \in {"ready", "join"} /\ frame \in {"open", "closing", "deleted"}
    /\ posted \in 0..MaxMessages
    /\ Len(queue) <= MaxQueue
    /\ queue \in Seq(EventType)
    /\ shown \in EventType
    /\ labels \in [Labels -> LabelType]
    /\ background \in [LargeLabels -> {"plain", "hold"}]

(* The messages that wait are those after the one that is shown, without a *)
(* gap, up to the last one posted; no label is newer than what is shown.   *)
InOrder ==
    /\ \A i \in 1..Len(queue) : queue[i].from = shown.from + i
    /\ posted = shown.from + Len(queue)
    /\ \A l \in Labels : labels[l].from <= shown.from

-----------------------------------------------------------------------------
(* The inductive invariant: that no label goes back depends on the order   *)
(* of the queue, and that a hold is current on the labels being of one     *)
(* message.                                                                *)
DisplayInv ==
    /\ QueueTyped
    /\ InOrder
    /\ OneMessageShown
    /\ HoldIsCurrent
    /\ QuietShowsNoSignal

(* CallAfter appends an event: the ones before it stay where they are.     *)
LEMMA AppendEntries ==
  ASSUME NEW S, NEW s \in Seq(S), NEW e \in S
  PROVE  /\ Append(s, e) \in Seq(S)
         /\ Len(Append(s, e)) = Len(s) + 1
         /\ Append(s, e)[Len(s) + 1] = e
         /\ \A i \in 1..Len(s) : Append(s, e)[i] = s[i]
  BY AppendProperties

(* The event loop takes the oldest event: the others move up by one.       *)
LEMMA TailEntries ==
  ASSUME NEW S, NEW s \in Seq(S), s # <<>>
  PROVE  /\ Head(s) \in S /\ Head(s) = s[1] /\ Len(s) \in Nat \ {0}
         /\ Tail(s) \in Seq(S)
         /\ Len(Tail(s)) = Len(s) - 1
         /\ \A i \in 1..Len(s) - 1 : Tail(s)[i] = s[i + 1]
  BY HeadTailProperties, EmptySeq

(* How the sets of labels are related.                                     *)
LEMMA LabelSets ==
  /\ LargeLabels \subseteq MessageLabels
  /\ MessageLabels \subseteq Labels
  /\ Labels \ {"left4", "right1"} \subseteq MessageLabels
  BY DEF LargeLabels, MessageLabels, Labels, MidLabels

(* produceStatus fills in a status of the type of SC_STATUS.               *)
LEMMA ProducedType ==
  ASSUME NEW screen \in Screens, NEW elements, NEW holds
  PROVE  ProduceStatus(screen, elements, holds) \in StatusType
  <1> DEFINE read == UNION {FieldsOf[e] : e \in elements \cap ElementsRead(screen)}
  <1>1. ElementsRead(screen) \subseteq Elements
    BY DEF ElementsRead, Elements, FieldsOf, Screens
  <1>2. read \subseteq Fields
    BY <1>1 DEF Fields
  <1> QED
    BY <1>2 DEF ProduceStatus, StatusType

(* The first state satisfies the invariant.                                *)
LEMMA InitDisplay == Init => DisplayInv
  <1> SUFFICES ASSUME Init PROVE DisplayInv
    OBVIOUS
  <1>1. QueueTyped
    <2>1. Nothing \in StatusType
      BY DEF Nothing, StatusType, Screens
    <2>2. shown \in EventType
      BY <2>1 DEF Init, EventType
    <2>3. queue \in Seq(EventType)
      BY EmptySeq DEF Init
    <2>4. /\ labels \in [Labels -> LabelType]
          /\ background \in [LargeLabels -> {"plain", "hold"}]
      BY DEF Init, LabelType, Texts
    <2>5. posted \in 0..MaxMessages /\ Len(queue) <= MaxQueue
      <3>1. posted = 0 /\ Len(queue) = 0
        BY EmptySeq DEF Init
      <3> QED
        BY <3>1, BoundsAssumption
    <2>6. /\ receiving \in BOOLEAN /\ started \in BOOLEAN
          /\ guiPc \in {"ready", "join"} /\ frame \in {"open", "closing", "deleted"}
      BY DEF Init
    <2> QED
      BY <2>2, <2>3, <2>4, <2>5, <2>6 DEF QueueTyped
  <1>2. InOrder
    <2>1. Len(queue) = 0
      BY EmptySeq DEF Init
    <2>2. \A l \in Labels : labels[l].from = 0
      BY DEF Init
    <2>3. shown.from = 0 /\ posted = 0
      BY DEF Init
    <2> QED
      BY <2>1, <2>2, <2>3 DEF InOrder
  <1>3. OneMessageShown
    BY DEF Init, OneMessageShown, Labels, MidLabels
  <1>4. HoldIsCurrent
    BY DEF Init, HoldIsCurrent
  <1>5. QuietShowsNoSignal
    BY DEF Init, QuietShowsNoSignal, Nothing, ScanScreens
  <1> QED
    BY <1>1, <1>2, <1>3, <1>4, <1>5 DEF DisplayInv

(* A message that is posted is newer than those waiting, and changes       *)
(* nothing of what is shown.                                               *)
LEMMA PostKeeps == DisplayInv /\ Post => DisplayInv'
  <1> SUFFICES ASSUME DisplayInv, Post PROVE DisplayInv'
    OBVIOUS
  <1> USE DEF DisplayInv
  <1>1. PICK status \in StatusType :
            queue' = Append(queue, [status |-> status, from |-> posted'])
    BY ProducedType DEF Post
  <1> DEFINE event == [status |-> status, from |-> posted']
  <1>2. event \in EventType /\ event.from = posted + 1
    BY DEF Post, EventType, QueueTyped
  <1>3. queue' = Append(queue, event) /\ queue \in Seq(EventType)
    BY <1>1 DEF QueueTyped
  <1> HIDE DEF event
  <1>4. /\ queue' \in Seq(EventType)
        /\ Len(queue') = Len(queue) + 1
        /\ queue'[Len(queue) + 1] = event
        /\ \A i \in 1..Len(queue) : queue'[i] = queue[i]
    BY <1>2, <1>3, AppendEntries
  <1>5. QueueTyped'
    BY <1>3, <1>4, BoundsAssumption, LenProperties
      DEF Post, guiVars, displayVars, QueueTyped
  <1>6. InOrder'
    <2>1. /\ Len(queue) \in Nat /\ posted \in Nat
          /\ shown.from \in Nat /\ posted' = posted + 1
      BY <1>3, LenProperties DEF Post, QueueTyped, EventType
    <2>2. posted = shown.from + Len(queue) /\ UNCHANGED <<shown, labels>>
      BY DEF Post, displayVars, InOrder
    <2>a. Len(queue') = Len(queue) + 1 /\ queue'[Len(queue) + 1] = event
      BY <1>4
    <2>3. \A i \in 1..Len(queue') : queue'[i].from = shown.from + i
      <3> SUFFICES ASSUME NEW i \in 1..Len(queue') PROVE queue'[i].from = shown.from + i
        OBVIOUS
      <3>0. i = Len(queue) + 1 \/ i \in 1..Len(queue)
        BY <2>1, <2>a
      <3>1. CASE i = Len(queue) + 1
        BY <1>2, <2>1, <2>2, <2>a, <3>1
      <3>2. CASE i \in 1..Len(queue)
        BY <1>4, <3>2 DEF InOrder
      <3> QED
        BY <3>0, <3>1, <3>2
    <2>4. posted' = shown.from + Len(queue')
      BY <2>1, <2>2, <2>a
    <2> QED
      BY <2>2, <2>3, <2>4 DEF InOrder
  <1>7. OneMessageShown' /\ HoldIsCurrent' /\ QuietShowsNoSignal'
    BY DEF Post, displayVars, OneMessageShown, HoldIsCurrent, QuietShowsNoSignal
  <1> QED
    BY <1>5, <1>6, <1>7

(* What the lambda of updateStatus does to one label.                      *)
LEMMA ShowWrites ==
  ASSUME QueueTyped, NEW event \in EventType, Show(event), NEW l \in Labels
  PROVE  /\ l \in DOMAIN Layout(event.status) =>
               /\ labels'[l].text = Text(event.status, Layout(event.status)[l])
               /\ labels'[l].from = event.from
         /\ l \notin DOMAIN Layout(event.status) => labels'[l] = labels[l]
         /\ labels'[l] \in LabelType
  <1> DEFINE layout == Layout(event.status)
             text   == Text(event.status, layout[l])
  <1>1. event.status \in StatusType /\ event.from \in Nat
    BY DEF EventType
  <1>2. ASSUME l \in DOMAIN layout PROVE text \in Texts
    <2>1. layout[l] \in Texts
      BY <1>1, <1>2, LayoutTexts DEF StatusType
    <2> QED
      BY <2>1 DEF Text, Texts
  <1>3. labels'[l] = IF l \in DOMAIN layout THEN [text |-> text, from |-> event.from]
                                            ELSE labels[l]
    BY DEF Show
  <1>4. labels[l] \in LabelType
    BY DEF QueueTyped
  <1> HIDE DEF layout, text
  <1>5. /\ l \in DOMAIN layout => labels'[l].text = text /\ labels'[l].from = event.from
        /\ l \notin DOMAIN layout => labels'[l] = labels[l]
        /\ labels'[l] \in LabelType
    BY <1>1, <1>2, <1>3, <1>4 DEF LabelType
  <1> QED
    BY <1>5 DEF layout, text

(* What the display is like after the lambda, whatever it was like before: *)
(* of one message, with the holds and the quiet of the one just handled.   *)
LEMMA ShowKeeps ==
  ASSUME QueueTyped, OneMessageShown, NEW event \in EventType, Show(event)
  PROVE  /\ labels' \in [Labels -> LabelType]
         /\ background' \in [LargeLabels -> {"plain", "hold"}]
         /\ \A l \in Labels : labels'[l].from = event.from \/ labels'[l] = labels[l]
         /\ OneMessageShown'
         /\ HoldIsCurrent'
         /\ QuietShowsNoSignal'
  <1> DEFINE status == event.status
             layout == Layout(status)
  <1>1. status \in StatusType /\ event.from \in Nat
    BY DEF EventType
  <1>2. \/ MessageLabels \subseteq DOMAIN layout
        \/ status.screen = "other" /\ DOMAIN layout = {}
    BY <1>1, LayoutWritesAll DEF StatusType
  <1>3. labels' \in [Labels -> LabelType]
    <2>1. labels' = [l \in Labels |-> labels'[l]]
      BY DEF Show
    <2> QED
      BY <2>1, ShowWrites
  <1>4. background' \in [LargeLabels -> {"plain", "hold"}]
    BY DEF Show, Backgrounds
  <1>5. \A l \in Labels : labels'[l].from = event.from \/ labels'[l] = labels[l]
    BY ShowWrites
  <1>6. ASSUME MessageLabels \subseteq DOMAIN layout
        PROVE  \A l \in MessageLabels : labels'[l].from = event.from
    BY <1>6, ShowWrites, LabelSets
  <1>7. ASSUME DOMAIN layout = {} PROVE \A l \in Labels : labels'[l] = labels[l]
    BY <1>7, ShowWrites
  <1>8. "mid0" \in MessageLabels
    BY DEF MessageLabels, MidLabels
  <1>9. OneMessageShown'
    BY <1>2, <1>6, <1>7, <1>8, LabelSets DEF OneMessageShown
  <1>10. HoldIsCurrent'
    <2> DEFINE named(l) == CASE l = "mid0" -> {"System_Hold"}
                             [] l = "mid2" -> {"Dept_Hold"}
                             [] l = "mid4" -> {"ConvFreq_Hold", "TGID_Hold"}
    <2> SUFFICES ASSUME NEW l \in LargeLabels, background'[l] = "hold"
                 PROVE  /\ status.screen \in ScanScreens
                        /\ labels'[l].from = event.from
                        /\ status.has \cap named(l) # {}
      BY DEF HoldIsCurrent, Show
    <2>1. HoldsOf(status.screen)[l] \cap status.has # {}
      BY DEF Show, Backgrounds
    <2>2. status.screen \in ScanScreens
      BY <2>1 DEF HoldsOf, LargeLabels, ScanScreens
    <2>3. labels'[l].from = event.from
      BY <1>2, <1>6, <2>2, LabelSets DEF ScanScreens
    <2>4. HoldsOf(status.screen)[l] \subseteq named(l)
      BY DEF HoldsOf, LargeLabels
    <2> QED
      BY <2>1, <2>2, <2>3, <2>4
  <1>11. QuietShowsNoSignal'
    <2> SUFFICES ASSUME status.screen \in ScanScreens, ~status.playing,
                        NEW l \in Labels \ StaysWhenQuiet(status.screen)
                 PROVE  labels'[l].text \notin SignalFields
      BY DEF QuietShowsNoSignal, Show
    <2>1. l \in DOMAIN layout /\ layout[l] \notin SignalFields
      BY <1>1, QuietLayout
    <2>2. labels'[l].text = Text(status, layout[l])
      BY <2>1, ShowWrites
    <2>3. Text(status, layout[l]) \in {"", layout[l]}
      BY DEF Text
    <2>4. "" \notin SignalFields
      BY DEF SignalFields
    <2> QED
      BY <2>1, <2>2, <2>3, <2>4
  <1> QED
    BY <1>3, <1>4, <1>5, <1>9, <1>10, <1>11

(* The event handled is older than those still waiting and newer than all  *)
(* that is shown.                                                          *)
LEMMA HandleKeeps == DisplayInv /\ HandleUpdate => DisplayInv'
  <1> SUFFICES ASSUME DisplayInv, HandleUpdate PROVE DisplayInv'
    OBVIOUS
  <1> USE DEF DisplayInv
  <1> DEFINE event == Head(queue)
  <1>1. /\ event \in EventType /\ event = queue[1] /\ Len(queue) \in Nat \ {0}
        /\ queue' \in Seq(EventType)
        /\ Len(queue') = Len(queue) - 1
        /\ \A i \in 1..Len(queue) - 1 : queue'[i] = queue[i + 1]
    BY TailEntries DEF HandleUpdate, QueueTyped
  <1>2. Show(event) /\ shown' = event
    BY DEF HandleUpdate, Show
  <1> HIDE DEF event
  <1>3. /\ labels' \in [Labels -> LabelType]
        /\ background' \in [LargeLabels -> {"plain", "hold"}]
        /\ \A l \in Labels : labels'[l].from = event.from \/ labels'[l] = labels[l]
        /\ OneMessageShown' /\ HoldIsCurrent' /\ QuietShowsNoSignal'
    BY <1>1, <1>2, ShowKeeps
  <1>4. QueueTyped'
    BY <1>1, <1>2, <1>3, BoundsAssumption
      DEF HandleUpdate, threadVars, guiVars, QueueTyped
  <1>5. InOrder'
    <2>1. /\ shown.from \in Nat /\ posted \in Nat /\ event.from \in Nat
          /\ \A l \in Labels : labels[l].from \in Nat
      BY <1>1 DEF QueueTyped, EventType, LabelType
    <2>2. \A i \in 1..Len(queue) : queue[i].from \in Nat
      <3> SUFFICES ASSUME NEW i \in 1..Len(queue) PROVE queue[i].from \in Nat
        OBVIOUS
      <3>1. queue[i] \in EventType
        BY ElementOfSeq DEF QueueTyped
      <3> QED
        BY <3>1 DEF EventType
    <2>3. event.from = shown.from + 1 /\ shown'.from = shown.from + 1
      BY <1>1, <1>2 DEF InOrder
    <2>4. \A i \in 1..Len(queue') : queue'[i].from = shown'.from + i
      <3> SUFFICES ASSUME NEW i \in 1..Len(queue') PROVE queue'[i].from = shown'.from + i
        OBVIOUS
      <3>1. i + 1 \in 1..Len(queue) /\ queue'[i] = queue[i + 1]
        BY <1>1
      <3>2. queue[i + 1].from = shown.from + (i + 1)
        BY <3>1 DEF InOrder
      <3>3. i \in Nat
        BY <1>1
      <3>4. shown.from + (i + 1) = (shown.from + 1) + i
        BY <2>1, <3>3
      <3> QED
        BY <2>3, <3>1, <3>2, <3>4
    <2>5. posted = shown'.from + Len(queue')
      BY <1>1, <2>1, <2>3 DEF InOrder
    <2>6. \A l \in Labels : labels'[l].from <= shown'.from
      BY <1>2, <1>3, <2>1, <2>3 DEF InOrder
    <2> QED
      BY <2>4, <2>5, <2>6 DEF HandleUpdate, threadVars, InOrder
  <1> QED
    BY <1>3, <1>4, <1>5

(* Every step preserves the invariant: only Post and HandleUpdate touch    *)
(* what it is about.                                                       *)
LEMMA NextDisplay == DisplayInv /\ [Next]_vars => DisplayInv'
  <1> SUFFICES ASSUME DisplayInv, [Next]_vars PROVE DisplayInv'
    OBVIOUS
  <1>1. ASSUME UNCHANGED <<posted, queue, displayVars>>, QueueTyped' PROVE DisplayInv'
    <2>1. UNCHANGED <<posted, queue, labels, background, shown>>
      BY <1>1 DEF displayVars
    <2>2. InOrder'
      BY <2>1 DEF DisplayInv, InOrder
    <2>3. OneMessageShown'
      BY <2>1 DEF DisplayInv, OneMessageShown
    <2>4. HoldIsCurrent'
      BY <2>1 DEF DisplayInv, HoldIsCurrent
    <2>5. QuietShowsNoSignal'
      BY <2>1 DEF DisplayInv, QuietShowsNoSignal
    <2> QED
      BY <1>1, <2>2, <2>3, <2>4, <2>5 DEF DisplayInv
  <1>2. QueueTyped
    BY DEF DisplayInv
  <1> USE DEF QueueTyped, threadVars, guiVars, displayVars
  <1>3. CASE Post
    BY <1>3, PostKeeps
  <1>4. CASE HandleUpdate
    BY <1>4, HandleKeeps
  <1>5. CASE ThreadEnds
    BY <1>1, <1>2, <1>5 DEF ThreadEnds
  <1>6. CASE Start
    BY <1>1, <1>2, <1>6 DEF Start
  <1>7. CASE Stop
    BY <1>1, <1>2, <1>7 DEF Stop
  <1>8. CASE Join
    BY <1>1, <1>2, <1>8 DEF Join
  <1>9. CASE DeleteFrame
    BY <1>1, <1>2, <1>9 DEF DeleteFrame
  <1>10. CASE UNCHANGED vars
    BY <1>1, <1>2, <1>10 DEF vars
  <1> QED
    BY <1>3, <1>4, <1>5, <1>6, <1>7, <1>8, <1>9, <1>10 DEF Next, Terminated

(* The events wait in the order of their messages, all newer than the      *)
(* labels; the display is of one message.                                  *)
THEOREM Invariance == Spec => []DisplayInv
  BY InitDisplay, NextDisplay, PTL DEF Spec

(* The bounds of the types follow from the order.                          *)
LEMMA InvImplies == DisplayInv => TypeOK
  <1> SUFFICES ASSUME DisplayInv PROVE TypeOK
    OBVIOUS
  <1> USE DEF DisplayInv
  <1>1. \A e \in EventType : e.from <= posted => e \in Events
    <2> SUFFICES ASSUME NEW e \in EventType, e.from <= posted PROVE e \in Events
      OBVIOUS
    <2>1. e.from \in 0..MaxMessages
      BY BoundsAssumption DEF EventType, QueueTyped
    <2> QED
      BY <2>1 DEF EventType, StatusType, Events
  <1>a. shown.from \in Nat /\ Len(queue) \in Nat /\ posted = shown.from + Len(queue)
    BY LenProperties DEF QueueTyped, EventType, InOrder
  <1>2. shown \in Events
    BY <1>1, <1>a DEF QueueTyped
  <1>3. \A i \in 1..Len(queue) : queue[i] \in Events
    <2> SUFFICES ASSUME NEW i \in 1..Len(queue) PROVE queue[i] \in Events
      OBVIOUS
    <2>1. queue[i].from = shown.from + i
      BY DEF InOrder
    <2> QED
      BY <1>1, <1>a, <2>1, ElementOfSeq DEF QueueTyped
  <1>4. labels \in [Labels -> [text : Fields \cup {"", "---"}, from : 0..MaxMessages]]
    <2> SUFFICES ASSUME NEW l \in Labels
                 PROVE  labels[l] \in [text : Fields \cup {"", "---"},
                                      from : 0..MaxMessages]
      BY DEF QueueTyped
    <2>1. labels[l] \in LabelType /\ labels[l].from <= shown.from /\ shown.from <= posted
      BY <1>a DEF QueueTyped, InOrder
    <2>2. shown.from \in Nat /\ posted \in 0..MaxMessages
      BY DEF QueueTyped, EventType
    <2>3. labels[l].from \in 0..MaxMessages
      BY <2>1, <2>2, BoundsAssumption DEF LabelType
    <2> QED
      BY <2>1, <2>3 DEF LabelType, Texts
  <1> QED
    BY <1>2, <1>3, <1>4 DEF QueueTyped, TypeOK

(* Every variable of the display keeps its type.                           *)
THEOREM TypeCorrect == Spec => []TypeOK
  BY Invariance, InvImplies, PTL

(* updateStatus never leaves labels of two messages side by side, save the *)
(* unit and the site frequency.                                            *)
THEOREM OneMessage == Spec => []OneMessageShown
  <1>1. DisplayInv => OneMessageShown
    BY DEF DisplayInv
  <1> QED
    BY <1>1, Invariance, PTL

(* updateStatus never leaves the colours of a hold that the message shown  *)
(* last does not report, nor on the text of another message.               *)
THEOREM HoldCurrent == Spec => []HoldIsCurrent
  <1>1. DisplayInv => HoldIsCurrent
    BY DEF DisplayInv
  <1> QED
    BY <1>1, Invariance, PTL

(* When nobody transmits, updateStatus leaves nothing of a transmission    *)
(* that is over but the unit and, on a conventional screen, the site       *)
(* frequency.                                                              *)
THEOREM QuietNoSignal == Spec => []QuietShowsNoSignal
  <1>1. DisplayInv => QuietShowsNoSignal
    BY DEF DisplayInv
  <1> QED
    BY <1>1, Invariance, PTL

(* A step shows the message after the last one, newer than all labels, or  *)
(* leaves them alone.                                                      *)
LEMMA StepForward ==
  ASSUME DisplayInv, [Next]_vars
  PROVE  /\ \A l \in Labels : labels'[l].from >= labels[l].from
         /\ shown'.from \in {shown.from, shown.from + 1}
  <1>1. \A l \in Labels : labels[l].from \in Nat
    BY DEF DisplayInv, QueueTyped, LabelType
  <1>2. CASE UNCHANGED <<labels, shown>>
    BY <1>1, <1>2
  <1>3. CASE HandleUpdate
    <2> DEFINE event == Head(queue)
    <2>1. event \in EventType /\ event = queue[1] /\ Len(queue) \in Nat \ {0}
      BY <1>3, TailEntries DEF HandleUpdate, DisplayInv, QueueTyped
    <2>2. Show(event) /\ shown' = event
      BY <1>3 DEF HandleUpdate, Show
    <2> HIDE DEF event
    <2>3. \A l \in Labels : labels'[l].from = event.from \/ labels'[l] = labels[l]
      BY <2>1, <2>2, ShowKeeps DEF DisplayInv
    <2>4. event.from = shown.from + 1 /\ shown.from \in Nat
      BY <2>1 DEF DisplayInv, InOrder, QueueTyped, EventType
    <2>5. \A l \in Labels : labels[l].from <= shown.from
      BY DEF DisplayInv, InOrder
    <2> QED
      BY <1>1, <2>2, <2>3, <2>4, <2>5
  <1> QED
    BY <1>2, <1>3
      DEF Next, Post, ThreadEnds, Start, Stop, Join, DeleteFrame, Terminated, vars,
          displayVars

(* No label ever goes back to an older message and no message is skipped,  *)
(* across stops and starts of the status thread.                           *)
THEOREM Forward == Spec => ShownInOrder
  BY Invariance, StepForward, PTL DEF Spec, ShownInOrder

-----------------------------------------------------------------------------
(* A stopped session has no status thread, nor has a frame that is closed  *)
(* and whose join is done; a frame is deleted only then, with no event     *)
(* left to handle.                                                         *)
FrameInv ==
    /\ frame \in {"open", "closing", "deleted"} /\ guiPc \in {"ready", "join"}
    /\ frame = "closing" /\ guiPc = "ready" => ~receiving
    /\ guiPc = "ready" /\ ~started => ~receiving
    /\ frame = "deleted" => guiPc = "ready" /\ queue = <<>> /\ ~receiving

-----------------------------------------------------------------------------
(* The first state satisfies it.                                           *)
LEMMA InitFrameInv == Init => FrameInv
  BY DEF Init, FrameInv

(* Every step preserves it.                                                *)
LEMMA NextFrameInv == FrameInv /\ [Next]_vars => FrameInv'
  <1> SUFFICES ASSUME FrameInv, [Next]_vars PROVE FrameInv'
    OBVIOUS
  <1> USE DEF FrameInv, threadVars, guiVars
  <1>1. CASE Post
    BY <1>1 DEF Post
  <1>2. CASE ThreadEnds
    BY <1>2 DEF ThreadEnds
  <1>3. CASE HandleUpdate
    BY <1>3 DEF HandleUpdate
  <1>4. CASE Start
    BY <1>4 DEF Start
  <1>5. CASE Stop
    BY <1>5 DEF Stop
  <1>6. CASE Join
    BY <1>6 DEF Join
  <1>7. CASE DeleteFrame
    BY <1>7 DEF DeleteFrame
  <1>8. CASE UNCHANGED vars
    BY <1>8 DEF vars
  <1> QED
    BY <1>1, <1>2, <1>3, <1>4, <1>5, <1>6, <1>7, <1>8 DEF Next, Terminated

(* When wxWidgets deletes the frame, no lambda that captured it is waiting,*)
(* no thread is left that could post one, and nothing was posted in vain.  *)
THEOREM FrameOutlives == Spec => []FrameOutlivesUpdates
  <1>1. ASSUME DisplayInv, FrameInv PROVE FrameOutlivesUpdates
    <2> SUFFICES ASSUME frame = "deleted" PROVE queue = <<>> /\ ~receiving /\ shown.from = posted
      BY DEF FrameOutlivesUpdates
    <2>1. queue = <<>> /\ ~receiving /\ Len(queue) = 0
      BY <1>1, EmptySeq DEF FrameInv
    <2>2. posted = shown.from + Len(queue) /\ shown.from \in Nat
      BY <1>1 DEF DisplayInv, InOrder, QueueTyped, EventType
    <2> QED
      BY <2>1, <2>2
  <1> QED
    BY <1>1, Invariance, InitFrameInv, NextFrameInv, PTL DEF Spec

-----------------------------------------------------------------------------
(* The messages and the thread that the display takes as given are those   *)
(* of StatusFeed, and no other.                                            *)
LEMMA FeedOfDisplay ==
    ASSUME DisplayInv, FrameInv, [Next]_vars
    PROVE  [Feed!Next]_(Feed!vars)
  <1>0. queue \in Seq(EventType) /\ Len(queue) \in Nat
    BY LenProperties DEF DisplayInv, QueueTyped
  <1> USE DEF Feed!vars, threadVars, guiVars
  <1>1. CASE Post
    <2>1. Len(queue') = Len(queue) + 1
      BY <1>0, <1>1, AppendProperties DEF Post
    <2>2. Feed!Posts
      BY <1>1, <2>1 DEF Post, Feed!Posts
    <2> QED
      BY <2>2 DEF Feed!Next
  <1>2. CASE ThreadEnds
    <2>1. Feed!Ends
      BY <1>2 DEF ThreadEnds, Feed!Ends
    <2> QED
      BY <2>1 DEF Feed!Next
  <1>3. CASE HandleUpdate
    <2>1. Len(queue) > 0 /\ Len(queue') = Len(queue) - 1
      BY <1>0, <1>3, EmptySeq, HeadTailProperties DEF HandleUpdate
    <2>2. Feed!Handles
      BY <1>3, <2>1 DEF HandleUpdate, Feed!Handles
    <2> QED
      BY <2>2 DEF Feed!Next
  <1>4. CASE Start
    <2>1. Feed!Start
      BY <1>4 DEF Start, FrameInv, Feed!Start
    <2> QED
      BY <2>1 DEF Feed!Next
  <1>5. CASE Stop
    <2>1. Feed!Stop
      BY <1>5 DEF Stop, Feed!Stop
    <2> QED
      BY <2>1 DEF Feed!Next
  <1>6. CASE Join
    <2>1. Feed!Stopped
      BY <1>6 DEF Join, Feed!Stopped
    <2> QED
      BY <2>1 DEF Feed!Next
  <1>7. CASE DeleteFrame \/ UNCHANGED vars
    BY <1>7 DEF DeleteFrame, vars
  <1> QED
    BY <1>1, <1>2, <1>3, <1>4, <1>5, <1>6, <1>7 DEF Next, Terminated

(* A display has no other messages to show than a status session can post, *)
(* in no other order of starts, stops and messages.                        *)
THEOREM DisplayImplementsFeed == Spec => ImplementsFeed
  <1>1. Init => Feed!Init
    BY EmptySeq DEF Init, Feed!Init
  <1> QED
    BY <1>1, FeedOfDisplay, Invariance, InitFrameInv, NextFrameInv, PTL
       DEF Spec, ImplementsFeed, Feed!Spec
=============================================================================
