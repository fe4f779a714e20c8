----------------------------- MODULE FlowLedger -----------------------------
(***************************************************************************)
(* What FlowTable of src/pcapinator/flows.py promises its caller, without  *)
(* tuples, times or ceilings: every frame is entered into exactly one      *)
(* conversation, a conversation is finished as a whole and never grows     *)
(* again, and every finished one is handed to the caller once.             *)
(***************************************************************************)
EXTENDS Integers

VARIABLES
    count,      \* frames entered so far; they are numbered from 1
    open,       \* conversations in the table, each the set of its frames
    done,       \* finished conversations waiting to be collected
    collected   \* frames of the conversations the caller has collected

ledger == <<count, open, done, collected>>

Init ==
    /\ count = 0
    /\ open = {}
    /\ done = {}
    /\ collected = {}

\* A frame joins an open conversation or, with c = {}, starts one; then any
\* of the open ones may be finished, the frame's own included.
Enter ==
    /\ count' = count + 1
    /\ \E c \in open \cup {{}} :
         LET entered == (open \ {c}) \cup {c \cup {count + 1}} IN
         \E gone \in SUBSET entered :
            /\ open' = entered \ gone
            /\ done' = done \cup gone
    /\ UNCHANGED collected

\* expire and close: some open conversations are finished, and everything
\* finished is handed over.
Collect ==
    /\ \E gone \in SUBSET open :
         /\ open' = open \ gone
         /\ collected' = collected \cup UNION (done \cup gone)
    /\ done' = {}
    /\ UNCHANGED count

Next == Enter \/ Collect

Spec == Init /\ [][Next]_ledger

-----------------------------------------------------------------------------

Kept == open \cup done

\* The conversations kept share no frame, with each other or with what was
\* collected, and together they hold every frame.
Partition ==
    /\ \A a, b \in Kept : a # b => a \cap b = {}
    /\ open \cap done = {}
    /\ \A a \in Kept : a # {} /\ a \cap collected = {}
    /\ \A no \in 1..count : no \in collected \/ \E a \in Kept : no \in a
    /\ collected \subseteq 1..count /\ \A a \in Kept : a \subseteq 1..count
=============================================================================
