CONSTANTS
  tcpListener = tcpListener
  Listeners = {tcpListener, udpListener}
  Self = udpListener
  Peers = {p1, p2}
  None = None
  Tcp = {}
  Tls = {}
  Udp = {u1, u2}
  ListenerOf <- MCListenerOf
  Notes = {n1}
  NoNote = NoNote
  Free = Free
  Lens = {1}
  SeqSpace = 64
  MaxIO = 2
  MaxFaults = 1
SPECIFICATION UdpFairSpec
CHECK_DEADLOCK FALSE
INVARIANTS UdpTypeOK FlowTableExact PacketOnOwnInterface
PROPERTIES NoteOnServedDatagram UdpListenerRefined UdpCancelReturns
