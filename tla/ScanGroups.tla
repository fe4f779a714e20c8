----------------------------- MODULE ScanGroups -----------------------------
(***************************************************************************)
(* How detect/scan.py of src/pcapinator counts attempts: what one flow     *)
(* says of an attempt, and the totals of one source along one sweep axis.  *)
(* Flows are the records of FlowTable; a start is a time of the capture.   *)
(***************************************************************************)
EXTENDS Integers, Sequences, FiniteSetsExt

CONSTANTS
    ProbePayload,     \* PROBE_PAYLOAD
    SessionPayload,   \* SESSION_PAYLOAD
    MaxTargets,       \* MAX_TARGETS
    MaxStarts         \* MAX_STARTS

\* A group is only ever created for a flow, which is then added to it.
ASSUME ScanCapsAssumption ==
    /\ ProbePayload \in Nat /\ SessionPayload \in Nat
    /\ MaxTargets \in Nat \ {0} /\ MaxStarts \in Nat \ {0}

\* Mutant: the single packet of a refusal or of an open port is enough.
ServedByOnePacket(f) ==
    \/ f.payload_in > 0 \/ f.payload_out > SessionPayload
    \/ /\ f.proto = "tcp" /\ f.packets_in >= 1
       /\ f.flags_seen \cap {"SYN", "ACK", "RST"} = {"SYN", "ACK"}

\* Mutant: only returned data counts, as the docstring warns.
ServedByDataOnly(f) == f.payload_in > 0 \/ f.payload_out > SessionPayload

\* _served: the attempt reached a service rather than bouncing off a port.
Served(f) ==
    \/ f.payload_in > 0 \/ f.payload_out > SessionPayload
    \/ /\ f.proto = "tcp" /\ f.packets_in >= 2
       /\ f.flags_seen \cap {"SYN", "ACK", "RST"} = {"SYN", "ACK"}

\* _is_bare_syn: a TCP attempt that got as far as a SYN and no further.
IsBareSyn(f) ==
    f.proto = "tcp" /\ f.flags_seen \cap {"SYN", "ACK", "RST"} = {"SYN"}

\* Mutant: whatever came of the SYN.
StealthyBySyn(f) == f.proto = "tcp" /\ "SYN" \in f.flags_seen

\* What add counts as a stealth attempt.
Stealthy(f) == ~f.responded /\ IsBareSyn(f)

\* Mutant: a probe of the size allowed is no longer a probe.
QuietBelow(f) == f.payload_out < ProbePayload

\* What add counts as an attempt in which the client sent no data.
Quiet(f) == f.payload_out <= ProbePayload
=============================================================================
