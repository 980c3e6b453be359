SPECIFICATION Spec
CONSTANTS
    a = a
    b = b
    c1 = c1
    c2 = c2
    p1 = p1
    p2 = p2
    Profiles = {a, b}
    Conns = {c1, c2}
    Requests = {r1}
    Pods = {p1, p2}
    Editors = {e1, e2}
    Owner <- OneEach
    Pod <- TwoPods
    Nonces = {n1, n2}
    Scores = {0, 8}
    Texts = {x, y}
    replay_page_size = 1
    max_reconnect_frames = 1
    MaxMessages = 2
    MaxExtra = 2
SYMMETRY Symmetry
CHECK_DEADLOCK FALSE
INVARIANTS HiddenNeverShown OneLateMessageEach NoGapAfterResume
