\* Two estimates and two submissions of the withdrawal form; three requests
\* of the playground and a reload; two payment codes, one after the other,
\* where calls of the first may outlive its dialog; the desktop shell on macOS, with
\* three attempts where main.js makes thirty; two settings, which another
\* administrator changes once.
SPECIFICATION ClientSpec
CONSTANTS
    Amounts = {0, 1, 2}
    Mins = {0, 2}
    Trials = {t1, t2}
    Submissions = {s1, s2}
    None = None
    Streams = {r1, r2, r3}
    NoStream = NoStream
    NoKey = NoKey
    MaxReloads = 1
    Trades = {o1, o2}
    NoTrade = NoTrade
    Slots = {c1, c2}
    NoSlot = NoSlot
    MaxFaults = 1
    Windows = {w1, w2}
    NoWindow = NoWindow
    MaxRetries = 3
    Mac = TRUE
    Fields = {f1, f2}
    Values = {0, 1}
    Initial = 0
    MaxOthers = 1
    NoField = NoField
CONSTRAINT NotOverlapped
SYMMETRY Symmetry
INVARIANTS FormIsCoherent  QrDialogIsTrue NoOrphan 
CHECK_DEADLOCK FALSE
