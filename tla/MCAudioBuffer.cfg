SPECIFICATION FairSpec
CONSTANTS
    r1 = r1
    f1 = f1
    f2 = f2
    f3 = f3
    f4 = f4
    f5 = f5
    NoBuf = NoBuf
    RtpBufs = {r1}
    FloatBufs = {f1, f2, f3, f4, f5}
    StartRtpBufs = {r1}
    StartFloatBufs = {f1}
    MaxFrames = 4
INVARIANTS TypeOK Exclusive FreeBuffersClear PopFindsBuffer HeardAsEncoded
PROPERTIES Implements EveryFramePlayed
