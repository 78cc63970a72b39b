---------------------------- MODULE StatusDisplay ---------------------------
(***************************************************************************)
(* What the user reads: the way of a status message from the scanner's XML *)
(* (ScannerStatus::produceStatus, on the status thread) through the event  *)
(* queue (CallAfter) to the labels of the frame (the lambda of             *)
(* SCFrame::updateStatus, on the GUI thread), and the starts, stops and    *)
(* the closing of the frame that this meets.                               *)
(*                                                                         *)
(* A text is abstracted to where it comes from: the field it shows and the *)
(* number of the message it was read from.  Two fields that are shown in   *)
(* one label go by the name of the first.  The session's requests and      *)
(* timeouts are the subject of StatusSession; here its thread only         *)
(* receives or has ended.                                                  *)
(***************************************************************************)
EXTENDS Naturals, Sequences

CONSTANTS
    ElementSets,    \* the sets of elements that a message may have
    HoldSets,       \* the sets of holds that may be on
    MaxMessages,    \* bound: messages received in a behaviour
    MaxQueue        \* bound: events waiting for the GUI

Holds == {"System_Hold", "Dept_Hold", "ConvFreq_Hold", "TGID_Hold"}

(* The fields of SC_STATUS that the frame looks at, by the XML element     *)
(* they are read from.                                                     *)
FieldsOf ==
    [System        |-> {"System_Name", "System_Hold"},
     Department    |-> {"Dept_Name", "Dept_Hold"},
     MonitorList   |-> {"MonitorList_Name"},
     ConvFrequency |-> {"ConvFreq_Name", "ConvFreq_Freq", "ConvFreq_SvcType",
                        "ConvFreq_SAS", "ConvFreq_Hold"},
     Site          |-> {"Site_Name"},
     SiteFrequency |-> {"SiteFreq_Freq"},
     TGID          |-> {"TGID_Name", "TGID_TGID", "TGID_SvcType", "TGID_Hold"},
     UnitID        |-> {"UnitID_Name"},
     WxMode        |-> {"wx_Mode"},
     WxChannel     |-> {"wx_CH_No"},
     Property      |-> {"Prop_SQL", "Prop_Sig", "Prop_Rssi", "Prop_P25Status"},
     OverWrite     |-> {"OverWriteText"}]

Elements == DOMAIN FieldsOf
Fields   == UNION {FieldsOf[e] : e \in Elements}

ASSUME InputsAssumption == ElementSets \subseteq SUBSET Elements /\ HoldSets \subseteq SUBSET Holds
ASSUME BoundsAssumption == MaxMessages \in Nat /\ MaxQueue \in Nat

Screens     == {"conventional_scan", "trunk_scan", "wx_alert", "other"}
ScanScreens == {"conventional_scan", "trunk_scan"}

VARIABLES
    receiving,  \* the status thread is in its receive loop
    posted,     \* number of messages received and posted to the GUI
    queue,      \* events posted with CallAfter, each with its SC_STATUS
    started,    \* ScannerStatus::m_started
    guiPc,      \* where the GUI thread is
    frame,      \* the frame: open, closing, or deleted by wxWidgets
    labels,     \* label |-> the text it shows and the message it is from
    background, \* large label |-> plain, or inverted to show a hold
    shown       \* the status that was handled last, with its message number

threadVars  == <<receiving, posted>>
guiVars     == <<started, guiPc, frame>>
displayVars == <<labels, background, shown>>
vars        == <<threadVars, queue, guiVars, displayVars>>

(* m_mid_status_text, m_bot_left_status_text, m_bot_right_status_text; the *)
(* left ones from 1 to 3 never get a text and are left out.                *)
LargeLabels == {"mid0", "mid2", "mid4"}
MidLabels   == {"mid0", "mid1", "mid2", "mid3", "mid4", "mid5"}
Labels      == MidLabels \cup {"left0", "left4", "right0", "right1", "right2",
                               "right3", "right4"}

-----------------------------------------------------------------------------
(* ScannerStatus::produceStatus.                                           *)

(* V_Screen.find("_scan"): where "_scan" begins, or npos.                  *)
npos == 99
FindScan(screen) == CASE screen = "conventional_scan" -> 12
                      [] screen = "trunk_scan" -> 5
                      [] OTHER -> npos

(* The elements it looks for.  The test of find()'s result is true unless  *)
(* "_scan" is at position 0.                                               *)
ElementsRead(screen) ==
    {"OverWrite", "Property"}
        \cup (IF FindScan(screen) # 0 THEN {"System", "Department", "MonitorList"} ELSE {})
        \cup (CASE screen = "conventional_scan" -> {"ConvFrequency"}
                [] screen = "trunk_scan" -> {"Site", "SiteFrequency", "TGID", "UnitID"}
                [] screen = "wx_alert" -> {"WxMode", "WxChannel"}
                [] OTHER -> {})

(* A field is filled if its element is there; a hold counts if it is "On". *)
(* The scanner is on a channel unless something overwrites its screen.     *)
ProduceStatus(screen, elements, holds) ==
    LET read == UNION {FieldsOf[e] : e \in elements \cap ElementsRead(screen)}
    IN  [screen  |-> screen,
         playing |-> "OverWriteText" \notin read,
         has     |-> {f \in read : f \in Holds => f \in holds}]

(* Mutated Text: an attribute that is not there is used all the same.      *)
TextUnchecked(status, t) == IF t \in Fields \ status.has THEN "null" ELSE t

(* The text of a label laid out with a field or a literal; getAttribute,   *)
(* and a string that was never assigned, give an empty text.               *)
Text(status, t) == IF t \in Fields \ status.has THEN "" ELSE t

-----------------------------------------------------------------------------
(* The lambda of SCFrame::updateStatus: what each screen writes where.     *)

(* Mutated Conventional: nobody transmits and the signal stays.            *)
ConventionalKeepsSignal(playing) ==
    IF playing
    THEN [mid0 |-> "System_Name", mid1 |-> "MonitorList_Name", mid2 |-> "Dept_Name",
          mid3 |-> "", mid4 |-> "ConvFreq_Name", mid5 |-> "ConvFreq_Freq",
          left0 |-> "ConvFreq_SvcType", right0 |-> "ConvFreq_SAS",
          right2 |-> "Prop_SQL", right3 |-> "Prop_Sig", right4 |-> "Prop_Rssi"]
    ELSE [mid0 |-> "System_Name", mid1 |-> "MonitorList_Name", mid2 |-> "Dept_Name",
          mid3 |-> "ConvFreq_Name", mid4 |-> "OverWriteText", mid5 |-> "",
          left0 |-> "---", right0 |-> "---",
          right2 |-> "Prop_SQL", right4 |-> "---"]

Conventional(playing) ==
    IF playing
    THEN [mid0 |-> "System_Name", mid1 |-> "MonitorList_Name", mid2 |-> "Dept_Name",
          mid3 |-> "", mid4 |-> "ConvFreq_Name", mid5 |-> "ConvFreq_Freq",
          left0 |-> "ConvFreq_SvcType", right0 |-> "ConvFreq_SAS",
          right2 |-> "Prop_SQL", right3 |-> "Prop_Sig", right4 |-> "Prop_Rssi"]
    ELSE [mid0 |-> "System_Name", mid1 |-> "MonitorList_Name", mid2 |-> "Dept_Name",
          mid3 |-> "ConvFreq_Name", mid4 |-> "OverWriteText", mid5 |-> "",
          left0 |-> "---", right0 |-> "---",
          right2 |-> "Prop_SQL", right3 |-> "---", right4 |-> "---"]

(* Mutated Trunk: nobody transmits and the talkgroup's number stays.       *)
TrunkKeepsTgid(playing) ==
    IF playing
    THEN [mid0 |-> "System_Name", mid1 |-> "MonitorList_Name", mid2 |-> "Dept_Name",
          mid3 |-> "Site_Name", mid4 |-> "TGID_Name", mid5 |-> "TGID_TGID",
          left0 |-> "TGID_SvcType", left4 |-> "UnitID_Name",
          right0 |-> "Prop_P25Status", right1 |-> "SiteFreq_Freq",
          right2 |-> "Prop_SQL", right3 |-> "Prop_Sig", right4 |-> "Prop_Rssi"]
    ELSE [mid0 |-> "System_Name", mid1 |-> "MonitorList_Name", mid2 |-> "Dept_Name",
          mid3 |-> "Site_Name", mid4 |-> "OverWriteText",
          left0 |-> "---", right0 |-> "---", right1 |-> "---",
          right2 |-> "Prop_SQL", right3 |-> "---", right4 |-> "---"]

Trunk(playing) ==
    IF playing
    THEN [mid0 |-> "System_Name", mid1 |-> "MonitorList_Name", mid2 |-> "Dept_Name",
          mid3 |-> "Site_Name", mid4 |-> "TGID_Name", mid5 |-> "TGID_TGID",
          left0 |-> "TGID_SvcType", left4 |-> "UnitID_Name",
          right0 |-> "Prop_P25Status", right1 |-> "SiteFreq_Freq",
          right2 |-> "Prop_SQL", right3 |-> "Prop_Sig", right4 |-> "Prop_Rssi"]
    ELSE [mid0 |-> "System_Name", mid1 |-> "MonitorList_Name", mid2 |-> "Dept_Name",
          mid3 |-> "Site_Name", mid4 |-> "OverWriteText", mid5 |-> "",
          left0 |-> "---", right0 |-> "---", right1 |-> "---",
          right2 |-> "Prop_SQL", right3 |-> "---", right4 |-> "---"]

Weather ==
    [l \in Labels |-> CASE l = "mid2" -> "wx_Mode" [] l = "mid4" -> "wx_CH_No" [] OTHER -> ""]

(* A screen the frame does not know writes no label.                       *)
Layout(status) ==
    CASE status.screen = "conventional_scan" -> Conventional(status.playing)
      [] status.screen = "trunk_scan" -> Trunk(status.playing)
      [] status.screen = "wx_alert" -> Weather
      [] OTHER -> [l \in {} |-> ""]

(* The holds that invert each large label.                                 *)
HoldsOf(screen) ==
    [mid0 |-> IF screen \in ScanScreens THEN {"System_Hold"} ELSE {},
     mid2 |-> IF screen \in ScanScreens THEN {"Dept_Hold"} ELSE {},
     mid4 |-> CASE screen = "conventional_scan" -> {"ConvFreq_Hold"}
                [] screen = "trunk_scan" -> {"TGID_Hold"}
                [] OTHER -> {}]

(* Mutated Backgrounds: no default colours.                                *)
BackgroundsUnreset(status) ==
    [l \in LargeLabels |->
        IF HoldsOf(status.screen)[l] \cap status.has # {} THEN "hold" ELSE background[l]]

(* Default colours first, then those of the holds.                         *)
Backgrounds(status) ==
    [l \in LargeLabels |->
        IF HoldsOf(status.screen)[l] \cap status.has # {} THEN "hold" ELSE "plain"]

-----------------------------------------------------------------------------
Nothing == [screen |-> "other", playing |-> FALSE, has |-> {}]

Init ==
    /\ receiving = FALSE /\ posted = 0 /\ queue = <<>>
    /\ started = FALSE /\ guiPc = "ready" /\ frame = "open"
    /\ labels = [l \in Labels |-> [text |-> "", from |-> 0]]
    /\ background = [l \in LargeLabels |-> "plain"]
    /\ shown = [status |-> Nothing, from |-> 0]

(* The status thread receives a message and posts its SC_STATUS.           *)
Post ==
    /\ receiving /\ posted < MaxMessages /\ Len(queue) < MaxQueue
    /\ posted' = posted + 1
    /\ \E screen \in Screens, elements \in ElementSets, holds \in HoldSets :
            queue' = Append(queue, [status |-> ProduceStatus(screen, elements, holds),
                                    from   |-> posted'])
    /\ UNCHANGED <<receiving, guiVars, displayVars>>

(* It leaves its loop: told to, or without an answer to a new request.     *)
ThreadEnds ==
    /\ receiving
    /\ receiving' = FALSE
    /\ UNCHANGED <<posted, queue, guiVars, displayVars>>

(* The display of one event.                                               *)
Show(event) ==
    LET layout == Layout(event.status)
    IN  /\ labels' = [l \in Labels |->
                         IF l \in DOMAIN layout
                         THEN [text |-> Text(event.status, layout[l]), from |-> event.from]
                         ELSE labels[l]]
        /\ background' = Backgrounds(event.status)
        /\ shown' = event

(* Mutated HandleUpdate: the newest event first.                           *)
HandleNewestUpdate ==
    /\ guiPc = "ready" /\ frame # "deleted" /\ queue # <<>>
    /\ Show(queue[Len(queue)])
    /\ queue' = SubSeq(queue, 1, Len(queue) - 1)
    /\ UNCHANGED <<threadVars, guiVars>>

(* Mutated HandleUpdate: what comes after a stop is left alone.            *)
HandleWhileStarted ==
    /\ guiPc = "ready" /\ started /\ queue # <<>>
    /\ Show(Head(queue))
    /\ queue' = Tail(queue)
    /\ UNCHANGED <<threadVars, guiVars>>

(* The event loop handles the oldest event.                                *)
HandleUpdate ==
    /\ guiPc = "ready" /\ frame # "deleted" /\ queue # <<>>
    /\ Show(Head(queue))
    /\ queue' = Tail(queue)
    /\ UNCHANGED <<threadVars, guiVars>>

Start ==
    /\ guiPc = "ready" /\ frame = "open" /\ ~started
    /\ started' = TRUE /\ receiving' = TRUE
    /\ UNCHANGED <<posted, queue, guiPc, frame, displayVars>>

(* The Stop button, or OnClose, which also stops.                          *)
Stop ==
    /\ guiPc = "ready" /\ frame = "open"
    /\ started' = FALSE /\ guiPc' = "join"
    /\ frame' \in {"open", "closing"}
    /\ UNCHANGED <<threadVars, queue, displayVars>>

(* Mutated Join: the thread is not waited for.                             *)
JoinNobody ==
    /\ guiPc = "join"
    /\ guiPc' = "ready"
    /\ UNCHANGED <<threadVars, queue, started, frame, displayVars>>

Join ==
    /\ guiPc = "join" /\ ~receiving
    /\ guiPc' = "ready"
    /\ UNCHANGED <<threadVars, queue, started, frame, displayVars>>

(* wxWidgets deletes a closed frame when it has handled all pending events.*)
DeleteFrame ==
    /\ guiPc = "ready" /\ frame = "closing" /\ queue = <<>>
    /\ frame' = "deleted"
    /\ UNCHANGED <<threadVars, queue, started, guiPc, displayVars>>

Terminated == frame = "deleted" /\ UNCHANGED vars

Next == Post \/ ThreadEnds \/ HandleUpdate \/ Start \/ Stop \/ Join \/ DeleteFrame \/ Terminated

(* The threads are scheduled; the event loop handles pending events before *)
(* it waits for the next click, so that clicks cannot keep it from them.   *)
(* That the status thread leaves its loop when it is told to is assumed    *)
(* here; StatusSession says when it does.                                  *)
Fairness == SF_vars(HandleUpdate) /\ WF_vars(Join) /\ WF_vars(guiPc = "join" /\ ThreadEnds)

Spec == Init /\ [][Next]_vars
FairSpec == Spec /\ Fairness

-----------------------------------------------------------------------------
Events == [status : [screen : Screens, playing : BOOLEAN, has : SUBSET Fields],
           from   : 0..MaxMessages]

TypeOK ==
    /\ receiving \in BOOLEAN /\ posted \in 0..MaxMessages
    /\ Len(queue) <= MaxQueue /\ \A i \in 1..Len(queue) : queue[i] \in Events
    /\ started \in BOOLEAN /\ guiPc \in {"ready", "join"}
    /\ frame \in {"open", "closing", "deleted"}
    /\ labels \in [Labels -> [text : Fields \cup {"", "---"}, from : 0..MaxMessages]]
    /\ background \in [LargeLabels -> {"plain", "hold"}]
    /\ shown \in Events

(* The labels never mix two messages, with two exceptions: whatever screen *)
(* follows whatever screen, every label is of the same message, save the   *)
(* unit and the site frequency, which only a trunk message or a weather    *)
(* alert writes (the writes of updateStatus, lines 238 to 319).            *)
OneMessageShown ==
    \A l \in Labels \ {"left4", "right1"} : labels[l].from = labels["mid0"].from

(* A large label is inverted only while the last message says that what it *)
(* names is held, and only on the text of that message: the colours of an  *)
(* earlier hold do not survive a change of the screen, nor those of one    *)
(* label another's (updateStatus, lines 217 to 237, 240 and 271).          *)
HoldIsCurrent ==
    \A l \in LargeLabels :
        background[l] = "hold" =>
            /\ shown.status.screen \in ScanScreens
            /\ labels[l].from = shown.from
            /\ shown.status.has \cap (CASE l = "mid0" -> {"System_Hold"}
                                       [] l = "mid2" -> {"Dept_Hold"}
                                       [] l = "mid4" -> {"ConvFreq_Hold", "TGID_Hold"}) # {}

(* What a transmission has: its frequency, talkgroup, service, strength,   *)
(* error state and unit.                                                   *)
SignalFields == {"ConvFreq_Freq", "ConvFreq_SvcType", "ConvFreq_SAS", "SiteFreq_Freq",
                 "TGID_Name", "TGID_TGID", "TGID_SvcType", "UnitID_Name",
                 "Prop_P25Status", "Prop_Sig", "Prop_Rssi"}

(* The labels that a quiet screen leaves as they are: the unit, and on a   *)
(* conventional screen the site frequency of an earlier trunk message.     *)
StaysWhenQuiet(screen) ==
    {"left4"} \cup (IF screen = "conventional_scan" THEN {"right1"} ELSE {})

(* While a scan screen is shown and nobody transmits, nothing of a         *)
(* transmission that is over is on the display, with two exceptions that   *)
(* the code makes: the unit stays, and on a conventional screen the site   *)
(* frequency does (updateStatus, lines 249 to 257 and 282 to 290).         *)
QuietShowsNoSignal ==
    shown.status.screen \in ScanScreens /\ ~shown.status.playing =>
        \A l \in Labels \ StaysWhenQuiet(shown.status.screen) :
            labels[l].text \notin SignalFields

(* Messages are shown in the order they were received and none is skipped, *)
(* across stops and starts: no label goes back to an older message, and    *)
(* each message that is shown is the next one after the last.              *)
ShownInOrder ==
    [][ /\ \A l \in Labels : labels'[l].from >= labels[l].from
        /\ shown'.from \in {shown.from, shown.from + 1} ]_vars

(* The lambdas captured the frame: when it is deleted none is waiting, no  *)
(* thread is left that could post one, and every message that was posted   *)
(* has been shown (OnClose stops the status thread before it lets the      *)
(* frame go).                                                              *)
FrameOutlivesUpdates ==
    frame = "deleted" => queue = <<>> /\ ~receiving /\ shown.from = posted

(* Every message posted is shown, although stops and the closing of the    *)
(* frame come between.                                                     *)
EveryUpdateShown ==
    \A n \in 1..MaxMessages : posted = n ~> shown.from >= n

(* The thread and the event queue of the display are those of StatusFeed,  *)
(* which StatusSession implements: a display has no other messages to show *)
(* than a status session can post.                                         *)
Feed == INSTANCE StatusFeed WITH stopping <- guiPc = "join", waiting <- Len(queue)
ImplementsFeed == Feed!Spec
=============================================================================
