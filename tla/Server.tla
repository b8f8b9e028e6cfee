------------------------------- MODULE Server -------------------------------
(***************************************************************************)
(* The server around the connections (server.cpp): listen() accepts and spawns   *)
(* a session for each client, run_session() authenticates and upgrades it, run()   *)
(* lends threads to all of them.  And the one thing that connections share: the     *)
(* voice detector with its recurrent state (silero_vad/), called by every             *)
(* connection's handle_binary on whichever thread runs it, without a lock.          *)
(***************************************************************************)
EXTENDS Integers, Sequences, FiniteSets

CONSTANTS Clients,
          MaxThreads,  \* the configured number is one of 1..MaxThreads
          MaxPredictions  \* frames of one client at most

ASSUME ServerAssumption ==
    /\ IsFiniteSet(Clients)
    /\ MaxThreads \in Nat \ {0} /\ MaxPredictions \in Nat

VARIABLES
    threads, enabled,  \* the configuration: threads, server.auth.enabled
    listening,         \* listen() is in its loop
    session,           \* where each client is
    authorization,     \* what its request has for an Authorization
    state_,            \* the detector's state: two arrays, each a fold over frames
    predict_pc,        \* where each client's predict() is
    result,            \* the state that its network has computed
    frames,            \* frames of each client so far
    predicted,         \* history: the frames in the order of their predictions
    overlapped         \* history: two predict() were under way together

sessionVars == <<listening, session, authorization>>
detectorVars == <<state_, predict_pc, result, frames, predicted, overlapped>>
serverVars == <<threads, enabled, sessionVars, detectorVars>>

SessionPc == {"away", "dialling", "silent", "requested", "upgrading", "connected",
              "refused", "failed", "left"}
Headers == {"none", "short", "unknown", "known"}
PredictPc == {"idle", "running", "copying"}
Frame == Clients \X (1..MaxPredictions)
Arrays == [hidden : Seq(Frame), cell : Seq(Frame)]
Zero == [hidden |-> <<>>, cell |-> <<>>]

\* Mutant: run() lends no thread of its own.
WithoutOwnThread == 0..MaxThreads - 1

\* run() starts threads - 1 and is itself the last.
Threads == 1..MaxThreads

ServerInit ==
    /\ threads \in Threads /\ enabled \in BOOLEAN
    /\ listening = TRUE
    /\ session = [c \in Clients |-> "away"]
    /\ authorization = [c \in Clients |-> "none"]
    /\ state_ = Zero /\ predict_pc = [c \in Clients |-> "idle"]
    /\ result = [c \in Clients |-> Zero] /\ frames = [c \in Clients |-> 0]
    /\ predicted = <<>> /\ overlapped = FALSE

\* predict() holds its thread until it returns; all else is asynchronous.
Predicting == {c \in Clients : predict_pc[c] # "idle"}
ThreadIsFree == Cardinality(Predicting) < threads

Goes(c, from, to) ==
    /\ session[c] = from
    /\ session' = [session EXCEPT ![c] = to]

-----------------------------------------------------------------------------
(* The clients *)

Dials(c) ==
    /\ Goes(c, "away", "dialling")
    /\ UNCHANGED <<threads, enabled, listening, authorization, detectorVars>>

\* A client may also be accepted and never send anything.
SendsRequest(c) ==
    /\ Goes(c, "silent", "requested")
    /\ \E header \in Headers : authorization' = [authorization EXCEPT ![c] = header]
    /\ UNCHANGED <<threads, enabled, listening, detectorVars>>

-----------------------------------------------------------------------------
(* listen() and run_session() *)

\* Mutant: listen() awaits the session instead of spawning it.
AcceptsWhenServed(c) ==
    /\ listening /\ ThreadIsFree
    /\ \A d \in Clients : session[d] \notin {"silent", "requested", "upgrading"}
    /\ Goes(c, "dialling", "silent")
    /\ UNCHANGED <<threads, enabled, listening, authorization, detectorVars>>

Accepts(c) ==
    /\ listening /\ ThreadIsFree
    /\ Goes(c, "dialling", "silent")
    /\ UNCHANGED <<threads, enabled, listening, authorization, detectorVars>>

\* async_accept throws (no descriptor left, say): listen() is over, the sessions
\* are not.
AcceptFails ==
    /\ listening
    /\ listening' = FALSE
    /\ UNCHANGED <<threads, enabled, session, authorization, detectorVars>>

\* The read of the request fails, with the client gone.  It has no limit in time.
RequestFails(c) ==
    /\ ThreadIsFree
    /\ Goes(c, "silent", "failed")
    /\ UNCHANGED <<threads, enabled, listening, authorization, detectorVars>>

\* authenticate().  substr(7) throws for an Authorization of less than 7 bytes.
Authenticates(c) ==
    /\ ThreadIsFree
    /\ Goes(c, "requested", CASE ~enabled \/ authorization[c] = "known" -> "upgrading"
                              [] enabled /\ authorization[c] = "short"  -> "failed"
                              [] OTHER -> "refused")
    /\ UNCHANGED <<threads, enabled, listening, authorization, detectorVars>>

\* ws.async_accept with its limit of 30 s, and Connection::start.
Upgrades(c) ==
    /\ ThreadIsFree
    /\ Goes(c, "upgrading", "connected") \/ Goes(c, "upgrading", "failed")
    /\ UNCHANGED <<threads, enabled, listening, authorization, detectorVars>>

\* The connection is released; a client's messages are handled one at a time.
Leaves(c) ==
    /\ predict_pc[c] = "idle" /\ ThreadIsFree
    /\ Goes(c, "connected", "left")
    /\ UNCHANGED <<threads, enabled, listening, authorization, detectorVars>>

-----------------------------------------------------------------------------
(* is_vad and predict() *)

\* A frame is decoded; the network gets the state by its address and reads it while
\* it runs.
PredictBegins(c) ==
    /\ session[c] = "connected" /\ predict_pc[c] = "idle"
    /\ frames[c] < MaxPredictions /\ ThreadIsFree
    /\ LET f == <<c, frames[c] + 1>>
       IN  /\ frames' = [frames EXCEPT ![c] = @ + 1]
           /\ predicted' = Append(predicted, f)
           /\ result' = [result EXCEPT ![c] = [hidden |-> Append(state_.hidden, f),
                                               cell   |-> Append(state_.cell, f)]]
    /\ predict_pc' = [predict_pc EXCEPT ![c] = "running"]
    /\ overlapped' = (overlapped \/ Predicting # {})
    /\ UNCHANGED <<threads, enabled, sessionVars, state_>>

\* The two halves of the memcpy into state_: another thread's network may read in
\* between, or write.
CopiesHidden(c) ==
    /\ predict_pc[c] = "running"
    /\ state_' = [state_ EXCEPT !.hidden = result[c].hidden]
    /\ predict_pc' = [predict_pc EXCEPT ![c] = "copying"]
    /\ UNCHANGED <<threads, enabled, sessionVars, result, frames, predicted, overlapped>>

\* Mutant: half of the state is copied.
CopiesNoCell(c) ==
    /\ predict_pc[c] = "copying"
    /\ predict_pc' = [predict_pc EXCEPT ![c] = "idle"]
    /\ UNCHANGED <<threads, enabled, sessionVars, state_, result, frames, predicted, overlapped>>

CopiesCell(c) ==
    /\ predict_pc[c] = "copying"
    /\ state_' = [state_ EXCEPT !.cell = result[c].cell]
    /\ predict_pc' = [predict_pc EXCEPT ![c] = "idle"]
    /\ UNCHANGED <<threads, enabled, sessionVars, result, frames, predicted, overlapped>>

-----------------------------------------------------------------------------

\* A client that is silent, away or in conversation may stay so.
Ended ==
    /\ \A c \in Clients : /\ session[c] \notin {"requested", "upgrading"}
                          /\ session[c] = "dialling" => ~listening
    /\ Predicting = {}
    /\ UNCHANGED serverVars

Serves(c) == Accepts(c) \/ Authenticates(c) \/ Upgrades(c)
Predicts(c) == PredictBegins(c) \/ CopiesHidden(c) \/ CopiesCell(c)

ServerNext ==
    \/ \E c \in Clients : \/ Dials(c) \/ SendsRequest(c) \/ RequestFails(c) \/ Serves(c)
                          \/ Predicts(c) \/ Leaves(c)
    \/ AcceptFails
    \/ Ended

ServerSpec == ServerInit /\ [][ServerNext]_serverVars

\* The threads run what is ready; io_context hands it out in the order it came.
FairServer ==
    /\ ServerSpec
    /\ \A c \in Clients : WF_serverVars(Serves(c)) /\ WF_serverVars(CopiesHidden(c) \/ CopiesCell(c))

-----------------------------------------------------------------------------
(* Properties *)

\* Type invariant.
TypeOK ==
    /\ threads \in 1..MaxThreads /\ enabled \in BOOLEAN /\ listening \in BOOLEAN
    /\ session \in [Clients -> SessionPc] /\ authorization \in [Clients -> Headers]
    /\ state_ \in Arrays /\ result \in [Clients -> Arrays]
    /\ predict_pc \in [Clients -> PredictPc]
    /\ frames \in [Clients -> 0..MaxPredictions]
    /\ predicted \in Seq(Frame) /\ overlapped \in BOOLEAN

\* The shared detector has no lock.  What keeps its state whole, every frame of
\* every client in it once and in the order of the predictions, is only that no two
\* predictions overlap, which one thread alone ensures.
OnlyOverlapsSpoilTheDetector ==
    /\ threads = 1 => ~overlapped
    /\ ~overlapped /\ Predicting = {} => state_ = [hidden |-> predicted, cell |-> predicted]

\* A client that sends nothing keeps its session for ever and still keeps nobody
\* waiting: who dials is accepted as long as the server listens, and who sends a
\* request gets its answer.
NobodyWaitsForTheSilent ==
    \A c \in Clients :
      /\ session[c] = "dialling" ~> session[c] # "dialling" \/ ~listening
      /\ session[c] = "requested" ~> session[c] \in {"connected", "refused", "failed", "left"}
=============================================================================
