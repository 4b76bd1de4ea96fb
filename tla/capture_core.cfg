CONSTANTS
  tcpListener = tcpListener
  udpListener = udpListener
  Listeners = {tcpListener}
  Tcp = {c1, c2}
  Tls = {}
  Udp = {}
  ListenerOf <- MCListenerOf
  Notes = {n1, n2}
  NoNote = NoNote
  Free = Free
  Lens = {1}
  SeqSpace = 64
  MaxIO = 3
  MaxFaults = 1
SPECIFICATION Spec
CHECK_DEADLOCK FALSE
SYMMETRY MCSymmetry
INVARIANTS StatsMatch NoteOnAuthorsPacket
PROPERTIES AnnotatesLatest ConversationsRefine
