---------------------------- MODULE PsqlSession ----------------------------
(***************************************************************************)
(* startProcess of tests/integration/postgres/live/process.mjs and the     *)
(* persistent session of createPsqlCore in psql.mjs: a psql client under   *)
(* `docker exec` whose output is cut into frames by an echoed marker.      *)
(*                                                                         *)
(* An action is one callback of the event loop together with the promise   *)
(* reactions it triggers.  The client is external: it answers the          *)
(* statements on its stdin in order, may stop at any time with any code,   *)
(* may hang for ever, and its close event may never come, even after       *)
(* SIGKILL.  Output is a sequence of tokens; the marker of a query is its  *)
(* last token.                                                             *)
(***************************************************************************)
EXTENDS Integers, Sequences, SequencesExt

CONSTANT Queries    \* the statements the caller submits

VARIABLES
    alive,      \* the client process runs
    code,       \* its exit code: 0, 1 (an SQL error) or -1 (a signal)
    stdin,      \* statements written and not answered
    eof,        \* stdin was ended
    pipe,       \* output written and not delivered
    done,       \* startProcess: the result is settled
    origin,     \* startProcess: exit, timeout, channel or cancel
    rawExit,    \* the settled exit code
    observed,   \* connectionClosed: the close event came before the settlement
    fallback,   \* the one-second timer of cancel is armed
    terminal,   \* "wait", "logs" (readLogs is awaited), "ended"
    orphan,     \* markOrphanRisk was called
    pending,    \* the query being framed, or None
    buffer,     \* tokens received and not framed
    printed,    \* startProcess: all the stdout received
    leaving,    \* disconnecting
    left,       \* disconnect: "no", "waiting", or its answer
    closing,    \* closeAll: "no", "waiting", "returned"
    answer,     \* each query: idle, waiting, ok, closed (by the terminal
                \* result), finished (asked too late), refused
    frame       \* the stdout each query was answered with

childVars == <<alive, code, stdin, eof, pipe>>
procVars == <<done, origin, rawExit, observed, fallback>>
callerVars == <<left, closing>>
sessionVars == <<alive, code, stdin, eof, pipe, done, origin, rawExit, observed, fallback,
                 terminal, orphan, pending, buffer, printed, leaving, left, closing, answer,
                 frame>>

None == "none"

ASSUME QueriesAssumption == None \notin Queries

Row(q) == <<q, "row">>
Marker(q) == <<q, "marker">>
\* What the client prints for a query: its rows, then the marker.
Output(q) == <<Row(q), Marker(q)>>

TypeOK ==
    /\ alive \in BOOLEAN /\ code \in {-1, 0, 1} /\ eof \in BOOLEAN
    /\ stdin \in Seq(Queries) /\ pipe \in Seq(Queries \X {"row", "marker"})
    /\ done \in BOOLEAN /\ origin \in {"exit", "timeout", "channel", "cancel"}
    /\ rawExit \in {-1, 0, 1} /\ observed \in BOOLEAN /\ fallback \in BOOLEAN
    /\ terminal \in {"wait", "logs", "ended"} /\ orphan \in BOOLEAN
    /\ pending \in Queries \cup {None}
    /\ buffer \in Seq(Queries \X {"row", "marker"})
    /\ printed \in Seq(Queries \X {"row", "marker"})
    /\ leaving \in BOOLEAN /\ left \in {"no", "waiting", "closed", "unproven"}
    /\ closing \in {"no", "waiting", "returned"}
    /\ answer \in [Queries -> {"idle", "waiting", "ok", "closed", "finished", "refused"}]
    /\ frame \in [Queries -> Seq(Queries \X {"row", "marker"})]

\* startProcess has spawned the client; openSession has subscribed to it.
SessionInit ==
    /\ alive = TRUE /\ code = -1 /\ stdin = <<>> /\ eof = FALSE /\ pipe = <<>>
    /\ done = FALSE /\ origin = "exit" /\ rawExit = -1 /\ observed = FALSE
    /\ fallback = FALSE
    /\ terminal = "wait" /\ orphan = FALSE
    /\ pending = None /\ buffer = <<>> /\ printed = <<>> /\ leaving = FALSE
    /\ left = "no" /\ closing = "no"
    /\ answer = [q \in Queries |-> "idle"]
    /\ frame = [q \in Queries |-> <<>>]

-----------------------------------------------------------------------------
(* The client process *)

\* psql answers the oldest statement.
Answer ==
    /\ alive /\ stdin # <<>>
    /\ pipe' = pipe \o Output(Head(stdin))
    /\ stdin' = Tail(stdin)
    /\ UNCHANGED <<alive, code, eof, procVars, terminal, orphan, pending, buffer,
                   printed, leaving, callerVars, answer, frame>>

\* psql ends: at the end of its input, by an SQL error (ON_ERROR_STOP) after
\* part of the output, or by a signal.
Exit ==
    /\ alive
    /\ alive' = FALSE
    /\ \/ eof /\ stdin = <<>> /\ code' = 0 /\ UNCHANGED pipe
       \/ /\ stdin # <<>> /\ code' = 1
          /\ pipe' \in {pipe, Append(pipe, Row(Head(stdin)))}
       \/ code' = -1 /\ UNCHANGED pipe
    /\ UNCHANGED <<stdin, eof, procVars, terminal, orphan, pending, buffer,
                   printed, leaving,
                   callerVars, answer, frame>>

-----------------------------------------------------------------------------
(* startProcess and the promise reactions on its settlement *)

\* Mutant of SessionEnds: the query gets all the session's output.
SessionEndsWhole(rest) ==
    /\ terminal' = "ended"
    /\ IF pending = None
       THEN UNCHANGED <<pending, answer, frame>>
       ELSE /\ answer' = [answer EXCEPT ![pending] = "closed"]
            /\ frame' = [frame EXCEPT ![pending] = printed]
            /\ pending' = None
    /\ left' = IF left = "waiting" THEN (IF observed' THEN "closed" ELSE "unproven")
               ELSE left

\* `terminal` has its value: the session's `closed` resolves, a query that is
\* waiting gets the terminal result with what was buffered, and disconnect
\* answers with connectionClosed.
SessionEnds(rest) ==
    /\ terminal' = "ended"
    /\ IF pending = None
       THEN UNCHANGED <<pending, answer, frame>>
       ELSE /\ answer' = [answer EXCEPT ![pending] = "closed"]
            /\ frame' = [frame EXCEPT ![pending] = rest]
            /\ pending' = None
    /\ left' = IF left = "waiting" THEN (IF observed' THEN "closed" ELSE "unproven")
               ELSE left

\* Mutant of Finish: only an exit by signal marks the orphan risk.
FinishTrusting(exitCode, sawClose) ==
    /\ ~done
    /\ done' = TRUE
    /\ fallback' = FALSE
    /\ rawExit' = exitCode
    /\ observed' = sawClose
    /\ orphan' = orphan
    /\ closing' = IF closing = "waiting" THEN "returned" ELSE closing
    /\ IF exitCode = 1
       THEN terminal' = "logs" /\ UNCHANGED <<pending, answer, frame, left>>
       ELSE SessionEnds(buffer)

\* finish: the first settlement wins.  Its reactions: the process leaves
\* `active`, a result that does not prove a normal end marks the orphan risk,
\* and an SQL error is looked up in the server's log first.
Finish(exitCode, sawClose) ==
    /\ ~done
    /\ done' = TRUE
    /\ fallback' = FALSE
    /\ rawExit' = exitCode
    /\ observed' = sawClose
    /\ orphan' = (orphan \/ origin # "exit" \/ exitCode < 0)
    /\ closing' = IF closing = "waiting" THEN "returned" ELSE closing
    /\ IF origin = "exit" /\ exitCode > 0
       THEN terminal' = "logs" /\ UNCHANGED <<pending, answer, frame, left>>
       ELSE SessionEnds(buffer)

\* The close event: it follows the last output of a client that has ended.
CloseEvent ==
    /\ ~alive /\ pipe = <<>>
    /\ Finish(code, TRUE)
    /\ UNCHANGED <<childVars, origin, buffer, printed, leaving>>

\* The fallback timer of cancel.
FallbackFires ==
    /\ fallback
    /\ Finish(-1, FALSE)
    /\ UNCHANGED <<childVars, origin, buffer, printed, leaving>>

\* readLogs ended, with or without a state: the terminal result is complete.
LogsRead ==
    /\ terminal = "logs"
    /\ UNCHANGED observed
    /\ SessionEnds(buffer)
    /\ UNCHANGED <<childVars, done, origin, rawExit, fallback, orphan, buffer, printed,
                   leaving, closing>>

\* The error event: the client could not be spawned or signalled.
ErrorEvent ==
    /\ origin' = "channel"
    /\ Finish(-1, FALSE)
    /\ UNCHANGED <<childVars, buffer, printed, leaving>>

\* Mutant of Cancel: no fallback timer.
CancelForgetful(reason) == origin' = reason /\ UNCHANGED fallback

\* cancel: the last reason stays; SIGKILL is sent; the timer is armed once.
Cancel(reason) == origin' = reason /\ fallback' = TRUE

\* A data event: a chunk of any size.  If it completes the frame of the query
\* that waits, the text before the marker is its answer and the rest is kept.
DataEvent ==
    /\ pipe # <<>> /\ ~done
    /\ \E n \in 1..Len(pipe) :
          LET text == buffer \o SubSeq(pipe, 1, n) IN
          /\ pipe' = SubSeq(pipe, n + 1, Len(pipe))
          /\ printed' = printed \o SubSeq(pipe, 1, n)
          /\ IF pending # None /\ Marker(pending) \in Range(text)
             THEN LET at == SelectInSeq(text, LAMBDA t : t = Marker(pending)) IN
                  /\ frame' = [frame EXCEPT ![pending] = SubSeq(text, 1, at - 1)]
                  /\ answer' = [answer EXCEPT ![pending] = "ok"]
                  /\ buffer' = SubSeq(text, at + 1, Len(text))
                  /\ pending' = None
             ELSE buffer' = text /\ UNCHANGED <<frame, answer, pending>>
    /\ UNCHANGED <<alive, code, stdin, eof, procVars, terminal, orphan, leaving,
                   callerVars>>

\* Output beyond maxBytes, or a broken stream: cancelled, the chunk is lost.
\* After the settlement output is ignored.
DataLost ==
    /\ pipe # <<>>
    /\ pipe' = <<>>
    /\ IF done THEN UNCHANGED <<origin, fallback>> ELSE Cancel("channel")
    /\ UNCHANGED <<alive, code, stdin, eof, done, rawExit, observed, terminal, orphan,
                   pending, buffer, printed, leaving, callerVars, answer, frame>>

\* The process timer, or the timer of the query that waits.
Timeout ==
    /\ ~done
    /\ Cancel("timeout")
    /\ UNCHANGED <<childVars, done, rawExit, observed, terminal, orphan, pending,
                   buffer, printed, leaving, callerVars, answer, frame>>

-----------------------------------------------------------------------------
(* The session's methods *)

\* query: one at a time; a finished session answers at once with its terminal
\* result, all the output of the session included.  Otherwise the
\* frame is awaited, also when the write fails: then the process has settled
\* or its close event will end the query.
Query(q) ==
    /\ answer[q] = "idle"
    /\ IF pending # None \/ leaving
       THEN /\ answer' = [answer EXCEPT ![q] = "refused"]
            /\ UNCHANGED <<pending, stdin, frame>>
       ELSE IF terminal = "ended"
       THEN /\ answer' = [answer EXCEPT ![q] = "finished"]
            /\ frame' = [frame EXCEPT ![q] = printed]
            /\ UNCHANGED <<pending, stdin>>
       ELSE /\ answer' = [answer EXCEPT ![q] = "waiting"]
            /\ pending' = q
            /\ stdin' = IF done \/ ~alive THEN stdin ELSE Append(stdin, q)
            /\ UNCHANGED frame
    /\ UNCHANGED <<alive, code, eof, pipe, procVars, terminal, orphan, buffer, printed,
                   leaving, callerVars>>

\* disconnect: stdin is ended and `closed` awaited.
Disconnect ==
    /\ left = "no"
    /\ leaving' = TRUE
    /\ eof' = (eof \/ ~done)
    /\ left' = IF terminal = "ended" THEN (IF observed THEN "closed" ELSE "unproven")
               ELSE "waiting"
    /\ UNCHANGED <<alive, code, stdin, pipe, procVars, terminal, orphan, pending, buffer,
                   printed, closing, answer, frame>>

\* Its 1.5 s timer.
DisconnectTimer ==
    /\ left = "waiting" /\ ~done
    /\ Cancel("cancel")
    /\ UNCHANGED <<childVars, done, rawExit, observed, terminal, orphan, pending,
                   buffer, printed, leaving, callerVars, answer, frame>>

\* closeAll: every active process is cancelled and awaited.
CloseAll ==
    /\ closing = "no"
    /\ IF done THEN closing' = "returned" /\ UNCHANGED <<origin, fallback>>
       ELSE closing' = "waiting" /\ Cancel("cancel")
    /\ UNCHANGED <<childVars, done, rawExit, observed, terminal, orphan, pending,
                   buffer, printed, leaving, left, answer, frame>>

Client == Answer \/ Exit
Caller == (\E q \in Queries : Query(q)) \/ Disconnect \/ CloseAll
EventLoop == CloseEvent \/ ErrorEvent \/ DataEvent \/ DataLost \/ LogsRead

SessionNext == Client \/ Caller \/ EventLoop \/ Timeout \/ DisconnectTimer \/ FallbackFires

\* Timers fire and readLogs, itself a bounded command, ends; the client owes
\* nothing.
SessionSpec ==
    /\ SessionInit /\ [][SessionNext]_sessionVars
    /\ WF_sessionVars(Timeout) /\ WF_sessionVars(FallbackFires) /\ WF_sessionVars(LogsRead)

-----------------------------------------------------------------------------
(* Properties *)

\* A query answered from the stream got its own rows, all of them and no
\* others, however the output was cut into chunks.
FramesExact ==
    \A q \in Queries : answer[q] = "ok" => frame[q] = <<Row(q)>>

\* No rows are read as another query's, in the frame that the end of the
\* client interrupts either.
FramesSeparate ==
    \A q, r \in Queries :
        answer[q] \in {"ok", "closed"} /\ Row(r) \in Range(frame[q]) => r = q

\* Every query is told apart from the others in the stream.
FramesInv == TypeOK /\ FramesExact /\ FramesSeparate

\* A query whose frame never came is not reported as a success: the terminal
\* result it gets is never exit code 0 with the origin "postgres", although
\* the client may have ended with code 0 around it.
NoFalseSuccess ==
    \A q \in Queries : answer[q] \in {"closed", "finished"} =>
        rawExit # 0 \/ origin # "exit"

\* Unless the orphan risk is marked, a settled process has ended by itself
\* and was seen to end: no exec is left behind on the server unreported.
CleanMeansEnded ==
    done /\ ~orphan => ~alive /\ observed /\ origin = "exit" /\ rawExit = code

\* disconnect says `closed: true` only of a client that has ended.
DisconnectHonest == left = "closed" => ~alive

\* When closeAll has returned the process is settled, and if it had to be
\* cancelled the orphan risk is already visible to the caller's final check.
CloseAllAccounts == closing = "returned" => done /\ (origin # "exit" => orphan)

\* Whoever learns that the session has ended learns the truth.
EndsHonestly ==
    NoFalseSuccess /\ CleanMeansEnded /\ DisconnectHonest /\ CloseAllAccounts

\* Every query is answered, and disconnect and closeAll return, although the client
\* hangs and ignores SIGKILL: the fallback timer of startProcess settles them all.
SessionSettles ==
    /\ \A q \in Queries : answer[q] = "waiting" ~> answer[q] # "waiting"
    /\ left = "waiting" ~> left # "waiting"
    /\ closing = "waiting" ~> closing = "returned"
=============================================================================
