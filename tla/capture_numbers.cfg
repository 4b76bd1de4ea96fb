CONSTANTS
  tcpListener = tcpListener
  udpListener = tcpListener
  Listeners = {tcpListener}
  Tcp = {t1, c1}
  Tls = {t1}
  Udp = {u1}
  ListenerOf <- MCListenerOf
  Notes = {}
  NoNote = NoNote
  Free = Free
  Lens = {1, 2}
  SeqSpace = 3
  MaxIO = 3
  MaxFaults = 0
SPECIFICATION Spec
CHECK_DEADLOCK FALSE
INVARIANTS NumbersChain ConversationsDelimited
