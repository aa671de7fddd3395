----------------------------- MODULE MCAnyPeer ------------------------------
EXTENDS AnyPeer

\* Sequence numbers with different bytes, and the last one before the wrap.
PeerSeqs == {0, 1, 2, 16, 255}

\* Payloads of odd and even length, and one of zeros, which no sum can see.
PayloadOf == [s \in PeerSeqs |-> CASE s = 0   -> <<0, 0>>
                                   [] s = 1   -> <<15>>
                                   [] s = 2   -> <<7, 8, 9, 10>>
                                   [] s = 16  -> <<1, 0, 15>>
                                   [] s = 255 -> <<0>>]

\* Number 1 belongs to one packet only, the other numbers to six.
SomePackets ==
  {Packet("Data", s, PayloadOf[s]) : s \in PeerSeqs} \cup
  {Packet(k, s, <<>>) : k \in (RequestKinds \ {"Data"}) \cup {"DataAck"},
                        s \in PeerSeqs \ {1}}

\* The hypothesis of IntactOrRejected and AckedPacketsKept.
ASSUME PeerIsCheckable == \A p \in PeerPackets : Checkable(p)
=============================================================================
