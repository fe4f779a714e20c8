---------------------------- MODULE MCTcpCapture ----------------------------
(***************************************************************************)
(* Two connections on one tuple, one of them going wrong in any way that a *)
(* lost segment, a segment sent again and a segment with data allow.       *)
(***************************************************************************)
EXTENDS TcpCapture

\* The packets the endpoints send, and no others.
SegmentPackets == {PacketFrom(e, s) : e \in Ends, s \in Segments}
=============================================================================
