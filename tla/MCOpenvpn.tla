---- MODULE MCOpenvpn ----
(***************************************************************************)
(* The parts of the OpenVPN implementation for TLC. They share no state    *)
(* with each other beyond what each module already models, so a behaviour  *)
(* is one of one part: the control channel over a path that duplicates     *)
(* ("stream"), with packets of an earlier client under way ("stale"), the  *)
(* server's sessions ("server"), and Dial with the session it returns      *)
(* ("client"). All three modules are extended, so the properties they are  *)
(* proved to have are checked here as they stand; while one part runs, the *)
(* others are where they start.                                            *)
(***************************************************************************)
EXTENDS OvpnControl, OvpnServer, OvpnClient

VARIABLE part

mcvars == <<part, vars, serverVars, dialVars>>

\* What the configuration gives Turns and Replies as values.
StreamTurns == <<"client", "client", "client", "server", "server", "server", "client">>
AllReplies == {[kind |-> k, cipher |-> c] : k \in {"push", "auth_failed", "no_address"},
                                            c \in {"gcm", "cbc", "bf", "unnamed"}}

OldPackets == {[to |-> "server", sid |-> "old", id |-> 0, acks |-> <<>>],
               [to |-> "server", sid |-> "old", id |-> 1, acks |-> <<0>>]}
Late == INSTANCE OvpnControl WITH
  Turns <- <<"client", "client", "server", "server", "client">>,
  Window <- 2, InboundQueue <- 2, MaxACK <- 4, Duplicates <- TRUE, Stale <- OldPackets, MaxLosses <- 0, MayFail <- TRUE

\* What the theorems of the three modules assume of their constants.
ASSUME ConstantsOK /\ Late!ConstantsOK /\ ServerConstants /\ DialConstants

MCInit ==
  /\ ServerInit /\ DialInit
  /\ \/ part \in {"stream", "server", "client"} /\ Init
     \/ part = "stale" /\ Late!Init

MCNext ==
  /\ UNCHANGED part
  /\ \/ part = "stream" /\ Next /\ UNCHANGED <<serverVars, dialVars>>
     \/ part = "stale" /\ Late!Next /\ UNCHANGED <<serverVars, dialVars>>
     \/ part = "server" /\ ServerNext /\ UNCHANGED <<vars, dialVars>>
     \/ part = "client" /\ DialNext /\ UNCHANGED <<vars, serverVars>>

MCSpec == MCInit /\ [][MCNext]_mcvars
====
