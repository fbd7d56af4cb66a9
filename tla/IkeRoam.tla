---- MODULE IkeRoam ----
\* The sockets of an IKEv2 client session (ikev2/client.go, internal/ikev2/ike/client.go):
\* the read loop, Roam and Close are three goroutines that share the session's socket,
\* the IKE client's socket and three flags. Each step below is what one of them does
\* between two points where another can be scheduled. A socket is its number.
EXTENDS Naturals

CONSTANTS MaxRoams    \* bound: roams begun

VARIABLES
    rd,     \* the read loop: where it is, and the socket it reads
    rm,     \* the goroutine in Roam: where it is, the socket it replaces, the one it opened
    cz,     \* the goroutine in Close
    ss      \* what they share

vars == <<rd, rm, cz, ss>>

Init ==
    /\ rd = [at |-> "load", sock |-> 0] /\ cz = "none"
    /\ rm = [at |-> "none", old |-> 0, new |-> 0]
    /\ ss = [conn |-> 0, ike |-> 0, open |-> {0}, roaming |-> FALSE, closing |-> FALSE,
             closed |-> FALSE, done |-> FALSE, roams |-> 0]

\* readSocket: the socket is loaded anew on every turn, a read on a closed one fails.
Load ==
    /\ rd.at = "load" /\ rd' = [at |-> "read", sock |-> ss.conn] /\ UNCHANGED <<rm, cz, ss>>
ReadBatch ==
    /\ rd.at = "read"
    /\ rd' = [rd EXCEPT !.at = IF rd.sock \notin ss.open THEN "failed" ELSE "load"]
    /\ UNCHANGED <<rm, cz, ss>>
ReadFailed ==
    /\ rd.at = "failed"
    /\ rd' = [rd EXCEPT !.at = IF ss.roaming /\ ~ss.closing THEN "wait" ELSE "exit"]
    /\ UNCHANGED <<rm, cz, ss>>
AwaitRoam ==
    /\ rd.at = "wait" /\ (~ss.roaming \/ ss.closing)
    /\ rd' = [rd EXCEPT !.at = IF ss.closing THEN "exit" ELSE "load"] /\ UNCHANGED <<rm, cz, ss>>
Exit ==
    /\ rd.at = "exit" /\ rd' = [rd EXCEPT !.at = "gone"]
    /\ ss' = [ss EXCEPT !.done = TRUE] /\ UNCHANGED <<rm, cz>>

\* session.Roam and, inside it, Client.Roam.
Roam ==
    /\ rm.at = "none" /\ ~ss.closing /\ ss.roams < MaxRoams
    /\ ss' = [ss EXCEPT !.roaming = TRUE, !.roams = @ + 1]
    /\ rm' = [rm EXCEPT !.at = "dial"] /\ UNCHANGED <<rd, cz>>
Publish ==
    /\ rm.at = "dial"
    /\ \/ ss.closed /\ rm' = [rm EXCEPT !.at = "return"] /\ UNCHANGED ss
       \/ /\ ~ss.closed /\ rm' = [at |-> "exchange", old |-> ss.ike, new |-> ss.roams]
          /\ ss' = [ss EXCEPT !.ike = ss.roams, !.open = @ \cup {ss.roams}]
    /\ UNCHANGED <<rd, cz>>
\* Mutant of UpdateFails: a roam that closes the new socket and goes on using it.
UpdateFailsUnrestored ==
    /\ rm.at = "exchange" /\ rm' = [rm EXCEPT !.at = "return"]
    /\ ss' = [ss EXCEPT !.open = @ \ {rm.new}] /\ UNCHANGED <<rd, cz>>
\* sendUpdateSAAddresses fails, or is answered on a socket that is still open.
UpdateFails ==
    /\ rm.at = "exchange" /\ rm' = [rm EXCEPT !.at = "return"]
    /\ ss' = [ss EXCEPT !.ike = rm.old, !.open = @ \ {rm.new}] /\ UNCHANGED <<rd, cz>>
UpdateAnswered ==
    /\ rm.at = "exchange" /\ rm.new \in ss.open /\ rm' = [rm EXCEPT !.at = "swap"]
    /\ ss' = [ss EXCEPT !.open = @ \ {rm.old}] /\ UNCHANGED <<rd, cz>>
Store ==
    /\ rm.at = "swap" /\ rm' = [rm EXCEPT !.at = "return"]
    /\ ss' = [ss EXCEPT !.conn = ss.ike] /\ UNCHANGED <<rd, cz>>
Return ==
    /\ rm.at = "return" /\ rm' = [rm EXCEPT !.at = "none"]
    /\ ss' = [ss EXCEPT !.roaming = FALSE] /\ UNCHANGED <<rd, cz>>

\* session.Close, once; Client.Close closes the socket the client holds at that moment.
Close ==
    /\ cz = "none" /\ cz' = "ike" /\ ss' = [ss EXCEPT !.closing = TRUE] /\ UNCHANGED <<rd, rm>>
CloseIke ==
    /\ cz = "ike" /\ cz' = "closed"
    /\ ss' = [ss EXCEPT !.closed = TRUE, !.open = @ \ {ss.ike}] /\ UNCHANGED <<rd, rm>>

ReadLoop == Load \/ ReadBatch \/ ReadFailed \/ AwaitRoam \/ Exit
Next ==
    \/ ReadLoop \/ Close \/ CloseIke
    \/ Roam \/ Publish \/ UpdateFails \/ UpdateAnswered \/ Store \/ Return

Spec == Init /\ [][Next]_vars

\* Between roams the session sends and reads on the socket its IKE client has, and that
\* one is open, whichever exchange of a roam failed (Client.Roam's restore, session.Roam).
SocketsAgree == rm.at = "none" /\ ~ss.closing => ss.conn = ss.ike /\ ss.ike \in ss.open

\* A roam moves the session, it does not end it: while nobody called Close, the session
\* is not reported as over.
RoamKeepsSession == ss.done => ss.closing

\* A closed session holds no socket once its goroutines have come to rest.
ClosedHoldsNothing == cz = "closed" /\ rm.at = "none" => ss.open = {}
====
