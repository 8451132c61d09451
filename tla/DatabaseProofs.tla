--------------------------- MODULE DatabaseProofs ---------------------------
(***************************************************************************)
(* Proofs about the two ends of a connection of psql.  PsqlSession, for    *)
(* any set of queries: what the stream holds at every moment of a query,   *)
(* and that an ended session is reported as it ended.  DatabaseVolume, for *)
(* any number of script runs and of checksums: only a complete cluster is  *)
(* served or written to, an interrupted bootstrap stays closed, and every  *)
(* committed state is a whole version with a ledger that keeps its         *)
(* history.  The two specifications share no variable.                     *)
(***************************************************************************)
EXTENDS PsqlSession, DatabaseVolume, SequenceTheorems, TLAPS

-----------------------------------------------------------------------------
(* A session of psql *)

\* The rows of a query may be anywhere between the client and its frame, but
\* they are the only output there is, and the marker is never in the buffer.
Asked(q) == stdin = <<q>> /\ buffer = <<>> /\ pipe = <<>>
Broken(q) ==
    /\ stdin = <<q>> /\ ~alive
    /\ \/ buffer = <<>> /\ pipe = <<Row(q)>>
       \/ buffer = <<Row(q)>> /\ pipe = <<>>
Answered(q) ==
    /\ stdin = <<>>
    /\ \/ buffer = <<>> /\ pipe = <<Row(q), Marker(q)>>
       \/ buffer = <<Row(q)>> /\ pipe = <<Marker(q)>>
\* The frame will not come: the statement was not written, or output was lost.
Hopeless(q) ==
    /\ stdin = <<>> \/ (stdin = <<q>> /\ ~alive)
    /\ buffer \in {<<>>, <<Row(q)>>} /\ pipe = <<>>
    /\ done \/ origin # "exit" \/ (~alive /\ code # 0)

\* While the session is not over, the output belongs to the query that waits.
Stream ==
    terminal # "ended" =>
        IF pending = None THEN stdin = <<>> /\ buffer = <<>> /\ pipe = <<>>
        ELSE Asked(pending) \/ Broken(pending) \/ Answered(pending) \/ Hopeless(pending)

\* The client: it has a code only when it has ended, and it ends with 0 only
\* at the end of an input it has answered.
ClientInv ==
    /\ alive => code = -1
    /\ code = 0 => eof /\ stdin = <<>>
    /\ eof => leaving

\* Before the settlement nobody has been told anything.
Unsettled ==
    ~done => /\ terminal = "wait" /\ ~orphan /\ ~observed
             /\ closing # "returned" /\ left \in {"no", "waiting"}
             /\ \A q \in Queries : answer[q] \notin {"closed", "finished"}

\* The settlement: seen to end, or marked.
Settled ==
    /\ observed => done /\ ~alive /\ rawExit = code
    /\ done => terminal # "wait" /\ ~fallback
    /\ fallback => origin # "exit"
    /\ done /\ ~observed => origin # "exit" /\ rawExit = -1
    /\ done /\ ~orphan => observed /\ origin = "exit"
    /\ done /\ origin # "exit" => orphan
    /\ terminal = "logs" => origin = "exit" /\ rawExit = 1 /\ observed
    /\ terminal = "ended" => pending = None
    /\ left = "closed" => observed

\* What a query was told.
Frames ==
    \A q \in Queries :
        /\ answer[q] = "ok" => frame[q] = <<Row(q)>>
        /\ answer[q] = "closed" => frame[q] \in {<<>>, <<Row(q)>>}

SessionIInv == TypeOK /\ Stream /\ ClientInv /\ Unsettled /\ Settled /\ Frames /\ NoFalseSuccess

-----------------------------------------------------------------------------
(* Short sequences *)

\* A sequence is given by its length and its elements.
LEMMA NoElements ==
    ASSUME NEW S, NEW s \in Seq(S), Len(s) = 0
    PROVE  s = <<>>
    OBVIOUS

LEMMA OneSeq ==
    ASSUME NEW S, NEW s \in Seq(S), Len(s) = 1
    PROVE  s = <<s[1]>>
    OBVIOUS

LEMMA TwoSeq ==
    ASSUME NEW S, NEW s \in Seq(S), Len(s) = 2
    PROVE  s = <<s[1], s[2]>>
    OBVIOUS

Tokens == Queries \X {"row", "marker"}

\* A chunk is cut off the pipe and joins the buffer.
LEMMA CutWhole ==
    ASSUME NEW S, NEW s \in Seq(S)
    PROVE  SubSeq(s, 1, Len(s)) = s /\ SubSeq(s, Len(s) + 1, Len(s)) = <<>>
<1>1. SubSeq(s, 1, Len(s)) = s
    OBVIOUS
<1>2. SubSeq(s, Len(s) + 1, Len(s)) \in Seq(S) /\ Len(SubSeq(s, Len(s) + 1, Len(s))) = 0
    OBVIOUS
<1>3. QED
    BY <1>1, <1>2, NoElements

LEMMA CutTwo ==
    ASSUME NEW S, NEW x \in S, NEW y \in S
    PROVE  SubSeq(<<x, y>>, 1, 1) = <<x>> /\ SubSeq(<<x, y>>, 2, 2) = <<y>>
<1> DEFINE s == <<x, y>>
<1>1. s \in Seq(S) /\ Len(s) = 2 /\ s[1] = x /\ s[2] = y
    OBVIOUS
<1> HIDE DEF s
<1>2. /\ SubSeq(s, 1, 1) \in Seq(S) /\ Len(SubSeq(s, 1, 1)) = 1 /\ SubSeq(s, 1, 1)[1] = x
      /\ SubSeq(s, 2, 2) \in Seq(S) /\ Len(SubSeq(s, 2, 2)) = 1 /\ SubSeq(s, 2, 2)[1] = y
    BY <1>1
<1>3. SubSeq(s, 1, 1) = <<x>> /\ SubSeq(s, 2, 2) = <<y>>
    BY <1>2, OneSeq
<1>4. QED
    BY <1>3 DEF s

LEMMA JoinEmpty ==
    ASSUME NEW S, NEW s \in Seq(S)
    PROVE  <<>> \o s = s
    OBVIOUS

LEMMA JoinOne ==
    ASSUME NEW S, NEW x \in S, NEW y \in S
    PROVE  <<x>> \o <<y>> = <<x, y>>
<1> DEFINE s == <<x>>
           t == <<y>>
<1>1. s \in Seq(S) /\ t \in Seq(S) /\ Len(s) = 1 /\ Len(t) = 1 /\ s[1] = x /\ t[1] = y
    OBVIOUS
<1> HIDE DEF s, t
<1>2. s \o t \in Seq(S) /\ Len(s \o t) = 2 /\ (s \o t)[1] = x /\ (s \o t)[2] = y
    BY <1>1, ConcatProperties
<1>3. s \o t = <<x, y>>
    BY <1>2, TwoSeq
<1>4. QED
    BY <1>3 DEF s, t

LEMMA ChunkOfRow ==
    ASSUME NEW x \in Tokens, NEW n \in 1..Len(<<x>>)
    PROVE  /\ <<>> \o SubSeq(<<x>>, 1, n) = <<x>>
           /\ SubSeq(<<x>>, n + 1, Len(<<x>>)) = <<>>
<1>1. <<x>> \in Seq(Tokens) /\ Len(<<x>>) = 1 /\ n = 1
    OBVIOUS
<1>2. QED
    BY <1>1, CutWhole, JoinEmpty

LEMMA ChunkOfTwo ==
    ASSUME NEW x \in Tokens, NEW y \in Tokens, NEW n \in 1..Len(<<x, y>>)
    PROVE  \/ /\ <<>> \o SubSeq(<<x, y>>, 1, n) = <<x>>
              /\ SubSeq(<<x, y>>, n + 1, Len(<<x, y>>)) = <<y>>
           \/ /\ <<>> \o SubSeq(<<x, y>>, 1, n) = <<x, y>>
              /\ SubSeq(<<x, y>>, n + 1, Len(<<x, y>>)) = <<>>
<1>1. /\ <<x, y>> \in Seq(Tokens) /\ <<x>> \in Seq(Tokens) /\ Len(<<x, y>>) = 2
      /\ n = 1 \/ n = 2
    OBVIOUS
<1>2. CASE n = 1
  <2>1. n + 1 = 2
    BY <1>2
  <2>2. QED
    BY <1>1, <1>2, <2>1, CutTwo, JoinEmpty
<1>3. CASE n = 2
    BY <1>1, <1>3, CutWhole, JoinEmpty
<1>4. QED
    BY <1>1, <1>2, <1>3

LEMMA ChunkOfLast ==
    ASSUME NEW x \in Tokens, NEW y \in Tokens, NEW n \in 1..Len(<<y>>)
    PROVE  /\ <<x>> \o SubSeq(<<y>>, 1, n) = <<x, y>>
           /\ SubSeq(<<y>>, n + 1, Len(<<y>>)) = <<>>
<1>1. <<y>> \in Seq(Tokens) /\ Len(<<y>>) = 1 /\ n = 1
    OBVIOUS
<1>2. SubSeq(<<y>>, 1, n) = <<y>> /\ SubSeq(<<y>>, n + 1, Len(<<y>>)) = <<>>
    BY <1>1, CutWhole
<1>3. QED
    BY <1>2, JoinOne, Zenon

\* The marker of a query is not one of its rows, and it is found where it is.
LEMMA NoMarkerInRow ==
    ASSUME NEW q \in Queries
    PROVE  Marker(q) \notin Range(<<Row(q)>>)
    BY DEF Marker, Row, Range

LEMMA MarkerInOutput ==
    ASSUME NEW q \in Queries
    PROVE  /\ Marker(q) \in Range(<<Row(q), Marker(q)>>)
           /\ SelectInSeq(<<Row(q), Marker(q)>>, LAMBDA t : t = Marker(q)) = 2
    BY DEF Marker, Row, Range, SelectInSeq, Min

LEMMA FrameOfOutput ==
    ASSUME NEW x \in Tokens, NEW y \in Tokens
    PROVE  /\ SubSeq(<<x, y>>, 1, 2 - 1) = <<x>>
           /\ SubSeq(<<x, y>>, 2 + 1, Len(<<x, y>>)) = <<>>
<1>1. <<x, y>> \in Seq(Tokens) /\ Len(<<x, y>>) = 2 /\ 2 - 1 = 1
    OBVIOUS
<1>2. QED
    BY <1>1, CutTwo, CutWhole
-----------------------------------------------------------------------------
(* The steps *)

LEMMA InitIInv == SessionInit => SessionIInv
<1> SUFFICES ASSUME SessionInit PROVE SessionIInv
    OBVIOUS
<1>1. TypeOK
  <2>1. <<>> \in Seq(Queries \X {"row", "marker"}) /\ <<>> \in Seq(Queries)
    OBVIOUS
  <2>2. /\ answer \in [Queries -> {"idle", "waiting", "ok", "closed", "finished", "refused"}]
        /\ frame \in [Queries -> Seq(Queries \X {"row", "marker"})]
    BY <2>1 DEF SessionInit
  <2>3. QED
    BY <2>1, <2>2 DEF SessionInit, TypeOK
<1>2. Stream /\ ClientInv /\ Unsettled /\ Settled /\ Frames /\ NoFalseSuccess
    BY DEF SessionInit, Stream, ClientInv, Unsettled, Settled, Frames, NoFalseSuccess
<1>3. QED
    BY <1>1, <1>2 DEF SessionIInv

LEMMA AnswerStep == SessionIInv /\ Answer => SessionIInv'
<1> SUFFICES ASSUME SessionIInv, Answer PROVE SessionIInv'
    OBVIOUS
<1> USE QueriesAssumption DEF SessionIInv, Answer, Output, childVars, procVars, callerVars
<1>1. TypeOK'
  <2>1. Head(stdin) \in Queries /\ stdin' \in Seq(Queries)
    BY HeadTailProperties DEF TypeOK
  <2>2. Output(Head(stdin)) \in Seq(Queries \X {"row", "marker"})
    BY <2>1 DEF Row, Marker
  <2>3. pipe' \in Seq(Queries \X {"row", "marker"})
    BY <2>2, ConcatProperties DEF TypeOK
  <2>4. UNCHANGED <<alive, code, eof, procVars, terminal, orphan, pending, buffer,
                    printed, leaving, callerVars, answer, frame>>
    OBVIOUS
  <2>5. QED
    BY ONLY TypeOK, <2>1, <2>3, <2>4 DEF TypeOK, procVars, callerVars
<1>2. Stream'
  <2> SUFFICES ASSUME terminal # "ended" PROVE Stream'
    BY DEF Stream
  <2>1. pending # None /\ Asked(pending)
    BY DEF Stream, Asked, Broken, Answered, Hopeless
  <2>2. pending \in Queries
    BY <2>1 DEF TypeOK
  <2>3. Output(pending) \in Seq(Queries \X {"row", "marker"})
    BY <2>2 DEF Row, Marker
  <2>4. pipe' = Output(pending) /\ stdin' = <<>>
    BY <2>1, <2>2, <2>3, JoinEmpty DEF Asked
  <2>5. Answered(pending)'
    BY <2>1, <2>4 DEF Asked, Answered
  <2>6. QED
    BY <2>1, <2>5 DEF Stream
<1>3. ClientInv'
    BY DEF TypeOK, ClientInv
<1>4. Unsettled'
    BY DEF TypeOK, Unsettled
<1>5. Settled'
    BY DEF TypeOK, Unsettled, Settled, ClientInv
<1>6. Frames'
    BY DEF TypeOK, Frames, Stream, Settled, Asked, Broken, Answered, Hopeless
<1>7. NoFalseSuccess'
    BY DEF TypeOK, NoFalseSuccess, Stream, ClientInv, Settled, Unsettled, Asked, Broken, Answered, Hopeless
<1>8. QED
    BY <1>1, <1>2, <1>3, <1>4, <1>5, <1>6, <1>7

LEMMA ExitStep == SessionIInv /\ Exit => SessionIInv'
<1> SUFFICES ASSUME SessionIInv, Exit PROVE SessionIInv'
    OBVIOUS
<1> USE QueriesAssumption DEF SessionIInv, Exit, childVars, procVars, callerVars
<1>1. TypeOK'
  <2>1. ASSUME stdin # <<>> PROVE Row(Head(stdin)) \in Queries \X {"row", "marker"}
    BY <2>1, HeadTailProperties DEF TypeOK, Row
  <2>2. pipe' = pipe \/ (stdin # <<>> /\ pipe' = Append(pipe, Row(Head(stdin))))
    OBVIOUS
  <2>3. pipe' \in Seq(Queries \X {"row", "marker"})
    <3>1. pipe \in Seq(Queries \X {"row", "marker"})
      BY DEF TypeOK
    <3>2. CASE pipe' = pipe
      BY <3>1, <3>2
    <3>3. CASE stdin # <<>> /\ pipe' = Append(pipe, Row(Head(stdin)))
      BY ONLY <2>1, <3>1, <3>3, AppendProperties
    <3>4. QED
      BY <2>2, <3>2, <3>3
  <2>4. alive' \in BOOLEAN /\ code' \in {-1, 0, 1}
    OBVIOUS
  <2>5. UNCHANGED <<stdin, eof, procVars, terminal, orphan, pending, buffer, printed,
                    leaving, callerVars, answer, frame>>
    OBVIOUS
  <2>6. QED
    BY ONLY TypeOK, <2>3, <2>4, <2>5 DEF TypeOK, procVars, callerVars
<1>2. Stream'
    BY SMTT(40) DEF TypeOK, Stream, ClientInv, Settled, Unsettled, Asked, Broken, Answered, Hopeless
<1>3. ClientInv'
    BY DEF TypeOK, ClientInv
<1>4. Unsettled'
    BY DEF TypeOK, Unsettled
<1>5. Settled'
    BY DEF TypeOK, Unsettled, Settled, ClientInv
<1>6. Frames'
    BY DEF TypeOK, Frames, Stream, Settled, Asked, Broken, Answered, Hopeless
<1>7. NoFalseSuccess'
    BY DEF TypeOK, NoFalseSuccess, Stream, ClientInv, Settled, Unsettled, Asked, Broken, Answered, Hopeless
<1>8. QED
    BY <1>1, <1>2, <1>3, <1>4, <1>5, <1>6, <1>7

LEMMA CloseEventStep == SessionIInv /\ CloseEvent => SessionIInv'
<1> SUFFICES ASSUME SessionIInv, CloseEvent PROVE SessionIInv'
    OBVIOUS
<1> USE QueriesAssumption DEF SessionIInv, CloseEvent, Finish, SessionEnds, childVars, procVars, callerVars
<1>1. TypeOK'
    BY ZenonT(60) DEF TypeOK, Row, Marker
<1>2. Stream'
    BY DEF TypeOK, Stream, ClientInv, Settled, Unsettled, Asked, Broken, Answered, Hopeless
<1>3. ClientInv'
    BY DEF TypeOK, ClientInv
<1>4. Unsettled'
    BY DEF TypeOK, Unsettled
<1>5. Settled'
  <2>1. /\ ~done /\ done' /\ observed' /\ ~fallback' /\ origin' = origin /\ rawExit' = code
        /\ ~alive' /\ code' = code /\ ~orphan
    BY DEF TypeOK, Unsettled
  <2>2. orphan' <=> (origin # "exit" \/ code < 0)
    BY <2>1
  <2>3. CASE origin = "exit" /\ code > 0
    <3>1. terminal' = "logs" /\ rawExit' = 1
      BY <2>1, <2>3 DEF TypeOK
    <3>2. QED
      BY <2>1, <2>2, <2>3, <3>1 DEF Settled
  <2>4. CASE ~(origin = "exit" /\ code > 0)
    <3>1. terminal' = "ended" /\ pending' = None
      BY <2>4
    <3>2. QED
      BY <2>1, <2>2, <2>4, <3>1 DEF Settled
  <2>5. QED
    BY <2>3, <2>4
<1>6. Frames'
    BY DEF TypeOK, Frames, Stream, Settled, Asked, Broken, Answered, Hopeless
<1>7. NoFalseSuccess'
  <2> SUFFICES ASSUME NEW q \in Queries, answer'[q] \in {"closed", "finished"},
                      code = 0, origin = "exit"
               PROVE  FALSE
    BY DEF NoFalseSuccess
  <2>1. ~done /\ answer[q] \notin {"closed", "finished"} /\ terminal = "wait"
    BY DEF Unsettled
  <2>2. pending # None
    BY <2>1 DEF TypeOK
  <2>3. Asked(pending) \/ Broken(pending) \/ Answered(pending) \/ Hopeless(pending)
    BY <2>1, <2>2 DEF Stream
  <2>4. stdin = <<>>
    BY DEF ClientInv
  <2>5. QED
    BY <2>1, <2>3, <2>4 DEF Asked, Broken, Answered, Hopeless
<1>8. QED
    BY <1>1, <1>2, <1>3, <1>4, <1>5, <1>6, <1>7

LEMMA FallbackFiresStep == SessionIInv /\ FallbackFires => SessionIInv'
<1> SUFFICES ASSUME SessionIInv, FallbackFires PROVE SessionIInv'
    OBVIOUS
<1> USE QueriesAssumption DEF SessionIInv, FallbackFires, Finish, SessionEnds, childVars, procVars, callerVars
<1>1. TypeOK'
    BY ZenonT(60) DEF TypeOK, Row, Marker
<1>2. Stream'
    BY DEF TypeOK, Stream, ClientInv, Settled, Unsettled, Asked, Broken, Answered, Hopeless
<1>3. ClientInv'
    BY DEF TypeOK, ClientInv
<1>4. Unsettled'
    BY DEF TypeOK, Unsettled
<1>5. Settled'
    BY DEF TypeOK, Unsettled, Settled, ClientInv
<1>6. Frames'
    BY DEF TypeOK, Frames, Stream, Settled, Asked, Broken, Answered, Hopeless
<1>7. NoFalseSuccess'
    BY DEF TypeOK, NoFalseSuccess, Stream, ClientInv, Settled, Unsettled, Asked, Broken, Answered, Hopeless
<1>8. QED
    BY <1>1, <1>2, <1>3, <1>4, <1>5, <1>6, <1>7

LEMMA LogsReadStep == SessionIInv /\ LogsRead => SessionIInv'
<1> SUFFICES ASSUME SessionIInv, LogsRead PROVE SessionIInv'
    OBVIOUS
<1> USE QueriesAssumption DEF SessionIInv, LogsRead, SessionEnds, childVars, procVars, callerVars
<1>1. TypeOK'
  <2>1. /\ pending' \in Queries \cup {None}
        /\ answer' \in [Queries -> {"idle", "waiting", "ok", "closed", "finished", "refused"}]
    BY DEF TypeOK
  <2>2. frame' \in [Queries -> Seq(Queries \X {"row", "marker"})]
    BY DEF TypeOK
  <2>3. terminal' = "ended" /\ left' \in {"no", "waiting", "closed", "unproven"}
    BY DEF TypeOK
  <2>4. QED
    BY <2>1, <2>2, <2>3 DEF TypeOK
<1>2. Stream'
    BY DEF TypeOK, Stream, ClientInv, Settled, Unsettled, Asked, Broken, Answered, Hopeless
<1>3. ClientInv'
    BY DEF TypeOK, ClientInv
<1>4. Unsettled'
    BY DEF TypeOK, Unsettled
<1>5. Settled'
    BY DEF TypeOK, Unsettled, Settled, ClientInv
<1>6. Frames'
    BY DEF TypeOK, Frames, Stream, Settled, Asked, Broken, Answered, Hopeless
<1>7. NoFalseSuccess'
    BY DEF TypeOK, NoFalseSuccess, Stream, ClientInv, Settled, Unsettled, Asked, Broken, Answered, Hopeless
<1>8. QED
    BY <1>1, <1>2, <1>3, <1>4, <1>5, <1>6, <1>7

LEMMA ErrorEventStep == SessionIInv /\ ErrorEvent => SessionIInv'
<1> SUFFICES ASSUME SessionIInv, ErrorEvent PROVE SessionIInv'
    OBVIOUS
<1> USE QueriesAssumption DEF SessionIInv, ErrorEvent, Finish, SessionEnds, childVars, procVars, callerVars
<1>1. TypeOK'
    BY ZenonT(60) DEF TypeOK, Row, Marker
<1>2. Stream'
    BY DEF TypeOK, Stream, ClientInv, Settled, Unsettled, Asked, Broken, Answered, Hopeless
<1>3. ClientInv'
    BY DEF TypeOK, ClientInv
<1>4. Unsettled'
    BY DEF TypeOK, Unsettled
<1>5. Settled'
  <2>1. /\ ~done /\ done' /\ ~observed' /\ ~fallback' /\ origin' = "channel" /\ rawExit' = -1
        /\ left \in {"no", "waiting"} /\ left' # "closed"
    BY DEF TypeOK, Unsettled
  <2>2. orphan'
    <3>1. -1 < 0
      OBVIOUS
    <3>2. QED
      BY ONLY <3>1, ErrorEvent, Zenon DEF ErrorEvent, Finish
  <2>3. terminal' = "ended" /\ pending' = None
    BY <2>1
  <2>4. QED
    BY <2>1, <2>2, <2>3 DEF Settled
<1>6. Frames'
    BY DEF TypeOK, Frames, Stream, Settled, Asked, Broken, Answered, Hopeless
<1>7. NoFalseSuccess'
    BY DEF TypeOK, NoFalseSuccess, Stream, ClientInv, Settled, Unsettled, Asked, Broken, Answered, Hopeless
<1>8. QED
    BY <1>1, <1>2, <1>3, <1>4, <1>5, <1>6, <1>7

LEMMA DataLostStep == SessionIInv /\ DataLost => SessionIInv'
<1> SUFFICES ASSUME SessionIInv, DataLost PROVE SessionIInv'
    OBVIOUS
<1> USE QueriesAssumption DEF SessionIInv, DataLost, Cancel, childVars, procVars, callerVars
<1>1. TypeOK'
  <2>1. pipe' \in Seq(Queries \X {"row", "marker"})
    OBVIOUS
  <2>2. origin' \in {"exit", "timeout", "channel", "cancel"} /\ fallback' \in BOOLEAN
    BY DEF TypeOK
  <2>3. QED
    BY <2>1, <2>2 DEF TypeOK
<1>2. Stream'
    BY DEF TypeOK, Stream, ClientInv, Settled, Unsettled, Asked, Broken, Answered, Hopeless
<1>3. ClientInv'
    BY DEF TypeOK, ClientInv
<1>4. Unsettled'
    BY DEF TypeOK, Unsettled
<1>5. Settled'
    BY DEF TypeOK, Unsettled, Settled, ClientInv
<1>6. Frames'
    BY DEF TypeOK, Frames, Stream, Settled, Asked, Broken, Answered, Hopeless
<1>7. NoFalseSuccess'
    BY DEF TypeOK, NoFalseSuccess, Stream, ClientInv, Settled, Unsettled, Asked, Broken, Answered, Hopeless
<1>8. QED
    BY <1>1, <1>2, <1>3, <1>4, <1>5, <1>6, <1>7

LEMMA TimeoutStep == SessionIInv /\ Timeout => SessionIInv'
<1> SUFFICES ASSUME SessionIInv, Timeout PROVE SessionIInv'
    OBVIOUS
<1> USE QueriesAssumption DEF SessionIInv, Timeout, Cancel, childVars, procVars, callerVars
<1>1. TypeOK'
    BY DEF TypeOK, Row, Marker
<1>2. Stream'
    BY DEF TypeOK, Stream, ClientInv, Settled, Unsettled, Asked, Broken, Answered, Hopeless
<1>3. ClientInv'
    BY DEF TypeOK, ClientInv
<1>4. Unsettled'
    BY DEF TypeOK, Unsettled
<1>5. Settled'
    BY DEF TypeOK, Unsettled, Settled, ClientInv
<1>6. Frames'
    BY DEF TypeOK, Frames, Stream, Settled, Asked, Broken, Answered, Hopeless
<1>7. NoFalseSuccess'
    BY DEF TypeOK, NoFalseSuccess, Stream, ClientInv, Settled, Unsettled, Asked, Broken, Answered, Hopeless
<1>8. QED
    BY <1>1, <1>2, <1>3, <1>4, <1>5, <1>6, <1>7

LEMMA DisconnectStep == SessionIInv /\ Disconnect => SessionIInv'
<1> SUFFICES ASSUME SessionIInv, Disconnect PROVE SessionIInv'
    OBVIOUS
<1> USE QueriesAssumption DEF SessionIInv, Disconnect, childVars, procVars, callerVars
<1>1. TypeOK'
    BY DEF TypeOK, Row, Marker
<1>2. Stream'
    BY DEF TypeOK, Stream, ClientInv, Settled, Unsettled, Asked, Broken, Answered, Hopeless
<1>3. ClientInv'
    BY DEF TypeOK, ClientInv
<1>4. Unsettled'
    BY DEF TypeOK, Unsettled
<1>5. Settled'
    BY DEF TypeOK, Unsettled, Settled, ClientInv
<1>6. Frames'
    BY DEF TypeOK, Frames, Stream, Settled, Asked, Broken, Answered, Hopeless
<1>7. NoFalseSuccess'
    BY DEF TypeOK, NoFalseSuccess, Stream, ClientInv, Settled, Unsettled, Asked, Broken, Answered, Hopeless
<1>8. QED
    BY <1>1, <1>2, <1>3, <1>4, <1>5, <1>6, <1>7

LEMMA DisconnectTimerStep == SessionIInv /\ DisconnectTimer => SessionIInv'
<1> SUFFICES ASSUME SessionIInv, DisconnectTimer PROVE SessionIInv'
    OBVIOUS
<1> USE QueriesAssumption DEF SessionIInv, DisconnectTimer, Cancel, childVars, procVars, callerVars
<1>1. TypeOK'
    BY DEF TypeOK, Row, Marker
<1>2. Stream'
    BY DEF TypeOK, Stream, ClientInv, Settled, Unsettled, Asked, Broken, Answered, Hopeless
<1>3. ClientInv'
    BY DEF TypeOK, ClientInv
<1>4. Unsettled'
    BY DEF TypeOK, Unsettled
<1>5. Settled'
    BY DEF TypeOK, Unsettled, Settled, ClientInv
<1>6. Frames'
    BY DEF TypeOK, Frames, Stream, Settled, Asked, Broken, Answered, Hopeless
<1>7. NoFalseSuccess'
    BY DEF TypeOK, NoFalseSuccess, Stream, ClientInv, Settled, Unsettled, Asked, Broken, Answered, Hopeless
<1>8. QED
    BY <1>1, <1>2, <1>3, <1>4, <1>5, <1>6, <1>7

LEMMA CloseAllStep == SessionIInv /\ CloseAll => SessionIInv'
<1> SUFFICES ASSUME SessionIInv, CloseAll PROVE SessionIInv'
    OBVIOUS
<1> USE QueriesAssumption DEF SessionIInv, CloseAll, Cancel, childVars, procVars, callerVars
<1>1. TypeOK'
  <2>1. /\ origin' \in {"exit", "timeout", "channel", "cancel"} /\ fallback' \in BOOLEAN
        /\ closing' \in {"no", "waiting", "returned"}
    BY DEF TypeOK
  <2>2. QED
    BY <2>1 DEF TypeOK
<1>2. Stream'
    BY DEF TypeOK, Stream, ClientInv, Settled, Unsettled, Asked, Broken, Answered, Hopeless
<1>3. ClientInv'
    BY DEF TypeOK, ClientInv
<1>4. Unsettled'
    BY DEF TypeOK, Unsettled
<1>5. Settled'
    BY DEF TypeOK, Unsettled, Settled, ClientInv
<1>6. Frames'
    BY DEF TypeOK, Frames, Stream, Settled, Asked, Broken, Answered, Hopeless
<1>7. NoFalseSuccess'
    BY DEF TypeOK, NoFalseSuccess, Stream, ClientInv, Settled, Unsettled, Asked, Broken, Answered, Hopeless
<1>8. QED
    BY <1>1, <1>2, <1>3, <1>4, <1>5, <1>6, <1>7

\* One query at a time is why the buffer holds no other query's output.
LEMMA QueryStep == \A q \in Queries : SessionIInv /\ Query(q) => SessionIInv'
<1> SUFFICES ASSUME NEW q \in Queries, SessionIInv, Query(q) PROVE SessionIInv'
    OBVIOUS
<1> USE QueriesAssumption DEF SessionIInv, procVars, callerVars
<1>1. CASE pending # None \/ leaving
  <2>1. /\ answer' = [answer EXCEPT ![q] = "refused"]
        /\ UNCHANGED <<pending, stdin, frame, alive, code, eof, pipe, procVars, terminal,
                       orphan, buffer, printed, leaving, callerVars>>
    BY <1>1 DEF Query
  <2>2. TypeOK' /\ Stream' /\ ClientInv' /\ Settled'
    BY <2>1 DEF TypeOK, Stream, ClientInv, Settled, Asked, Broken, Answered, Hopeless
  <2>3. Unsettled' /\ Frames' /\ NoFalseSuccess'
    BY <2>1 DEF TypeOK, Unsettled, Frames, NoFalseSuccess
  <2>4. QED
    BY <2>2, <2>3
<1>2. CASE pending = None /\ ~leaving /\ terminal = "ended"
  <2>1. /\ answer' = [answer EXCEPT ![q] = "finished"]
        /\ frame' = [frame EXCEPT ![q] = printed]
        /\ UNCHANGED <<pending, stdin, alive, code, eof, pipe, procVars, terminal,
                       orphan, buffer, printed, leaving, callerVars>>
    BY <1>2 DEF Query
  <2>2. TypeOK' /\ Stream' /\ ClientInv' /\ Settled'
    BY <1>2, <2>1 DEF TypeOK, Stream, ClientInv, Settled
  <2>3. done /\ (rawExit # 0 \/ origin # "exit")
    BY <1>2 DEF ClientInv, Settled, Unsettled, TypeOK
  <2>4. Unsettled' /\ Frames' /\ NoFalseSuccess'
    BY <2>1, <2>3 DEF TypeOK, Unsettled, Frames, NoFalseSuccess
  <2>5. QED
    BY <2>2, <2>4
<1>3. CASE pending = None /\ ~leaving /\ terminal # "ended"
  <2>1. /\ answer' = [answer EXCEPT ![q] = "waiting"]
        /\ pending' = q
        /\ stdin' = IF done \/ ~alive THEN stdin ELSE Append(stdin, q)
        /\ UNCHANGED <<frame, alive, code, eof, pipe, procVars, terminal,
                       orphan, buffer, printed, leaving, callerVars>>
    BY <1>3 DEF Query
  <2>2. stdin = <<>> /\ buffer = <<>> /\ pipe = <<>>
    BY <1>3 DEF Stream
  <2>3. stdin' = IF done \/ ~alive THEN <<>> ELSE <<q>>
    BY <2>1, <2>2
  <2>4. code # 0 /\ q # None
    BY <1>3 DEF ClientInv, None
  <2>5. stdin' \in Seq(Queries)
    BY <2>3
  <2>6. TypeOK'
    BY <2>1, <2>5 DEF TypeOK
  <2>7. Asked(q)' \/ Hopeless(q)'
    BY <2>1, <2>2, <2>3, <2>4 DEF Asked, Hopeless
  <2>8. Stream'
    BY <2>1, <2>4, <2>7 DEF Stream
  <2>9. ClientInv' /\ Settled'
    BY <1>3, <2>1, <2>2, <2>4 DEF TypeOK, ClientInv, Settled
  <2>10. Unsettled' /\ Frames' /\ NoFalseSuccess'
    BY <2>1 DEF TypeOK, Unsettled, Frames, NoFalseSuccess
  <2>11. QED
    BY <2>6, <2>8, <2>9, <2>10
<1>4. QED
    BY <1>1, <1>2, <1>3

\* However the output is cut, the frame is the query's row.
LEMMA DataEventStep == SessionIInv /\ DataEvent => SessionIInv'
<1> SUFFICES ASSUME SessionIInv, DataEvent PROVE SessionIInv'
    OBVIOUS
<1> USE QueriesAssumption DEF SessionIInv, procVars, callerVars
<1>1. /\ pipe # <<>> /\ ~done /\ terminal = "wait"
      /\ UNCHANGED <<alive, code, stdin, eof, procVars, terminal, orphan, leaving,
                     callerVars>>
    BY DEF DataEvent, Unsettled
<1>2. /\ pending # None /\ pending \in Queries
      /\ Broken(pending) \/ Answered(pending)
    BY <1>1 DEF Stream, Asked, Hopeless, TypeOK
<1> DEFINE q == pending
           text(n) == buffer \o SubSeq(pipe, 1, n)
<1>3. PICK n \in 1..Len(pipe) :
          /\ pipe' = SubSeq(pipe, n + 1, Len(pipe))
          /\ printed' = printed \o SubSeq(pipe, 1, n)
          /\ IF pending # None /\ Marker(pending) \in Range(text(n))
             THEN LET at == SelectInSeq(text(n), LAMBDA t : t = Marker(pending)) IN
                  /\ frame' = [frame EXCEPT ![pending] = SubSeq(text(n), 1, at - 1)]
                  /\ answer' = [answer EXCEPT ![pending] = "ok"]
                  /\ buffer' = SubSeq(text(n), at + 1, Len(text(n)))
                  /\ pending' = None
             ELSE buffer' = text(n) /\ UNCHANGED <<frame, answer, pending>>
    BY DEF DataEvent
<1>4. Row(q) \in Tokens /\ Marker(q) \in Tokens
    BY <1>2 DEF Row, Marker, Tokens
<1>5. \/ text(n) = <<Row(q)>> /\ pipe' = <<>> /\ stdin = <<q>> /\ ~alive
      \/ text(n) = <<Row(q)>> /\ pipe' = <<Marker(q)>> /\ stdin = <<>>
      \/ text(n) = <<Row(q), Marker(q)>> /\ pipe' = <<>> /\ stdin = <<>>
  <2>1. CASE Broken(q)
    <3>1. buffer = <<>> /\ pipe = <<Row(q)>> /\ stdin = <<q>> /\ ~alive
      BY <1>1, <2>1 DEF Broken
    <3>2. QED
      BY <1>3, <1>4, <3>1, ChunkOfRow
  <2>2. CASE Answered(q) /\ buffer = <<>>
    <3>1. pipe = <<Row(q), Marker(q)>> /\ stdin = <<>>
      BY <2>2 DEF Answered
    <3>2. QED
      BY <1>3, <1>4, <2>2, <3>1, ChunkOfTwo
  <2>3. CASE Answered(q) /\ buffer # <<>>
    <3>1. buffer = <<Row(q)>> /\ pipe = <<Marker(q)>> /\ stdin = <<>>
      BY <2>3 DEF Answered
    <3>2. QED
      BY <1>3, <1>4, <3>1, ChunkOfLast
  <2>4. QED
    BY <1>2, <2>1, <2>2, <2>3
<1>6. pipe' \in Seq(Tokens) /\ printed' \in Seq(Tokens)
  <2>1. pipe \in Seq(Tokens) /\ printed \in Seq(Tokens)
    BY DEF TypeOK, Tokens
  <2>2. SubSeq(pipe, 1, n) \in Seq(Tokens) /\ SubSeq(pipe, n + 1, Len(pipe)) \in Seq(Tokens)
    BY <2>1
  <2>3. QED
    BY <1>3, <2>1, <2>2, ConcatProperties
<1>7. CASE text(n) = <<Row(q)>>
  <2>1. Marker(q) \notin Range(text(n))
    BY <1>2, <1>7, NoMarkerInRow
  <2>2. buffer' = <<Row(q)>> /\ UNCHANGED <<frame, answer, pending>>
    BY <1>3, <1>7, <2>1
  <2>3. buffer' \in Seq(Tokens)
    BY <1>4, <2>2
  <2>4. TypeOK'
    BY <1>1, <1>6, <2>2, <2>3, SMTT(40) DEF TypeOK, Tokens
  <2>5. Broken(q)' \/ Answered(q)'
    <3>1. <<Row(q)>> # <<Row(q), Marker(q)>>
      OBVIOUS
    <3>2. QED
      BY <1>1, <1>5, <1>7, <2>2, <3>1 DEF Broken, Answered
  <2>6. Stream'
    BY <1>2, <2>2, <2>5 DEF Stream
  <2>7. ClientInv' /\ Unsettled' /\ Settled' /\ Frames' /\ NoFalseSuccess'
    BY <1>1, <2>2 DEF ClientInv, Unsettled, Settled, Frames, NoFalseSuccess
  <2>8. QED
    BY <2>4, <2>6, <2>7
<1>8. CASE text(n) = <<Row(q), Marker(q)>>
  <2>1. /\ Marker(q) \in Range(text(n))
        /\ SelectInSeq(text(n), LAMBDA t : t = Marker(q)) = 2
    BY <1>2, <1>8, MarkerInOutput
  <2>2. /\ frame' = [frame EXCEPT ![pending] = SubSeq(text(n), 1, 2 - 1)]
        /\ answer' = [answer EXCEPT ![pending] = "ok"]
        /\ buffer' = SubSeq(text(n), 2 + 1, Len(text(n)))
        /\ pending' = None
    BY <1>2, <1>3, <2>1
  <2>3. frame' = [frame EXCEPT ![pending] = <<Row(q)>>] /\ buffer' = <<>>
    BY <1>4, <1>8, <2>2, FrameOfOutput
  <2>4. pipe' = <<>> /\ stdin' = <<>>
    <3>1. <<Row(q)>> # <<Row(q), Marker(q)>>
      OBVIOUS
    <3>2. QED
      BY <1>1, <1>5, <1>8, <3>1
  <2>5. TypeOK'
    <3>1. <<Row(q)>> \in Seq(Tokens) /\ <<>> \in Seq(Tokens)
      BY <1>4
    <3>2. /\ frame' \in [Queries -> Seq(Tokens)]
          /\ answer' \in [Queries -> {"idle", "waiting", "ok", "closed", "finished", "refused"}]
      BY <2>2, <2>3, <3>1 DEF TypeOK, Tokens
    <3>3. buffer' \in Seq(Tokens) /\ pending' \in Queries \cup {None}
      BY <2>2, <2>3, <3>1
    <3>4. UNCHANGED <<alive, code, stdin, eof, procVars, terminal, orphan, leaving,
                      callerVars>>
      BY <1>1
    <3>5. TypeOK
      OBVIOUS
    <3>6. /\ alive' \in BOOLEAN /\ code' \in {-1, 0, 1} /\ eof' \in BOOLEAN
          /\ stdin' \in Seq(Queries)
          /\ done' \in BOOLEAN /\ origin' \in {"exit", "timeout", "channel", "cancel"}
          /\ rawExit' \in {-1, 0, 1} /\ observed' \in BOOLEAN /\ fallback' \in BOOLEAN
          /\ terminal' \in {"wait", "logs", "ended"} /\ orphan' \in BOOLEAN
          /\ leaving' \in BOOLEAN /\ left' \in {"no", "waiting", "closed", "unproven"}
          /\ closing' \in {"no", "waiting", "returned"}
      BY ONLY <3>4, <3>5 DEF TypeOK, procVars, callerVars
    <3>7. QED
      BY ONLY <1>6, <3>2, <3>3, <3>6, Zenon DEF TypeOK, Tokens
  <2>6. Stream'
    BY <2>2, <2>3, <2>4 DEF Stream
  <2>7. ClientInv' /\ Settled'
    BY <1>1, <2>2 DEF ClientInv, Settled
  <2>8. Unsettled' /\ NoFalseSuccess'
    BY <1>1, <2>2 DEF TypeOK, Unsettled, NoFalseSuccess
  <2>9. Frames'
    BY <1>2, <2>2, <2>3 DEF TypeOK, Frames
  <2>10. QED
    BY <2>5, <2>6, <2>7, <2>8, <2>9
<1>9. QED
    BY <1>5, <1>7, <1>8

-----------------------------------------------------------------------------
(* The theorems *)

\* The inductive invariant: where a query's output is until it is framed, and
\* what a settlement has observed.
THEOREM SessionInvariant == SessionSpec => []SessionIInv
<1>1. SessionIInv /\ [SessionNext]_sessionVars => SessionIInv'
  <2> SUFFICES ASSUME SessionIInv, [SessionNext]_sessionVars PROVE SessionIInv'
    OBVIOUS
  <2>1. CASE SessionNext
    BY <2>1, AnswerStep, ExitStep, QueryStep, DisconnectStep, CloseAllStep, CloseEventStep,
       ErrorEventStep, DataEventStep, DataLostStep, LogsReadStep, TimeoutStep,
       DisconnectTimerStep, FallbackFiresStep DEF SessionNext, Client, Caller, EventLoop
  <2>2. CASE UNCHANGED sessionVars
    <3>1. TypeOK'
      BY <2>2 DEF sessionVars, SessionIInv, TypeOK
    <3>2. Stream'
      BY <2>2 DEF sessionVars, SessionIInv, Stream, Asked, Broken, Answered, Hopeless
    <3>3. ClientInv' /\ Unsettled' /\ Settled' /\ Frames' /\ NoFalseSuccess'
      BY <2>2 DEF sessionVars, SessionIInv, ClientInv, Unsettled, Settled, Frames, NoFalseSuccess
    <3>4. QED
      BY <3>1, <3>2, <3>3 DEF SessionIInv
  <2>3. QED
    BY <2>1, <2>2
<1>2. QED
    BY InitIInv, <1>1, PTL DEF SessionSpec

\* Every query answered from the stream got its own rows and no others,
\* however the output was cut into chunks (the data handler of the session).
THEOREM SessionFrames == SessionSpec => []FramesInv
<1>1. SessionIInv => FramesInv
  <2> SUFFICES ASSUME SessionIInv PROVE FramesInv
    OBVIOUS
  <2>1. TypeOK /\ FramesExact
    BY DEF SessionIInv, Frames, FramesExact
  <2>2. FramesSeparate
    <3> SUFFICES ASSUME NEW q \in Queries, NEW r \in Queries,
                        answer[q] \in {"ok", "closed"}, Row(r) \in Range(frame[q])
                 PROVE  r = q
      BY DEF FramesSeparate
    <3>1. frame[q] \in {<<>>, <<Row(q)>>}
      BY DEF SessionIInv, Frames
    <3>2. QED
      BY <3>1 DEF Range, Row
  <2>3. QED
    BY <2>1, <2>2 DEF FramesInv
<1>2. QED
    BY SessionInvariant, <1>1, PTL

\* Whoever learns that the session has ended learns the truth: no success
\* without a frame, no clean end without an observed close, no `closed: true`
\* of a running client, no return of closeAll with an unmarked cancellation.
THEOREM SessionEndsHonestly == SessionSpec => []EndsHonestly
<1>1. SessionIInv => EndsHonestly
  <2> SUFFICES ASSUME SessionIInv PROVE EndsHonestly
    OBVIOUS
  <2>1. NoFalseSuccess /\ CleanMeansEnded /\ DisconnectHonest
    BY DEF SessionIInv, Settled, CleanMeansEnded, DisconnectHonest
  <2>2. CloseAllAccounts
    BY DEF SessionIInv, Settled, Unsettled, CloseAllAccounts
  <2>3. QED
    BY <2>1, <2>2 DEF EndsHonestly
<1>2. QED
    BY SessionInvariant, <1>1, PTL

-----------------------------------------------------------------------------
(* The entrypoint *)

\* What the script has built by the time it reaches each of its lines.
Built ==
    /\ script \in {"credentials", "snapshot", "password", "initdb"} => cluster = "empty"
    /\ script \in {"forget", "startServer", "createDatabase", "createRoles", "stopServer",
                   "access", "tidy", "untrap", "mark", "rename"} => cluster = "complete"
    /\ script \in {"createRoles", "stopServer", "access", "tidy", "untrap", "mark",
                   "rename"} => database
    /\ script \in {"stopServer", "access", "tidy", "untrap", "mark", "rename"} => roles
    /\ script \in {"tidy", "untrap", "mark", "rename"} => hba = "strict"

\* The marker is written when nothing else is left to write.
Unmarked == script \in Boot!Steps \ {"start"} => marker # "valid"

\* Where the trap is set, and so where a failure goes to cleanup.
Trapped ==
    /\ script \in {"snapshot", "password", "initdb", "forget", "startServer",
                   "createDatabase", "createRoles", "stopServer", "access", "tidy",
                   "untrap"} => trapped
    /\ script \in {"start", "credentials", "mark", "rename", "remove", "failed",
                   "serve", "down"} => ~trapped

\* Where the temporary server cannot run, and that server_may_be_running says so.
TemporaryServer ==
    /\ script \in {"start", "credentials", "snapshot", "password", "initdb", "forget",
                   "startServer", "access", "tidy", "untrap", "mark", "rename", "serve",
                   "down"} => ~server
    /\ script = "startServer" => mayRun
    /\ server => mayRun
    /\ script = "remove" /\ ~unclean => ~server

\* Where the temporary directory does not exist.
NoFiles ==
    script \in {"start", "credentials", "untrap", "mark", "rename", "serve", "down"}
        => files = {}

BootInv ==
    /\ Boot!ClusterInv /\ Boot!NothingTemporaryRemains
    /\ Built /\ Unmarked /\ Trapped /\ TemporaryServer /\ NoFiles

-----------------------------------------------------------------------------
(* The scripts *)

\* A database is a record of the five kinds of things the scripts change.
Databases ==
    [schemas : SUBSET {"hedefora", "hedefora_meta"},
     ledger : SUBSET [version : {1, 2}, checksum : Checksums],
     objects : SUBSET {"table"},
     usage : SUBSET Scripts!AllRoles,
     defaults : SUBSET (Scripts!BuiltinDefaults \cup Scripts!SchemaDefaults)]

\* The pcs between TakeLock and the end of the transaction, by their script.
UpPcs == {"grant", "record"}
DownPcs == {"revoke", "drop"}
Locked(r) == pc[r] \in {"check", "commit"} \cup UpPcs \cup DownPcs

\* Only the run that changes the database holds the advisory lock.
LockHeld == \A r \in Runs : Locked(r) => lock = {r}

\* A database by its fields.
Is(d, schemas, ledger, objects, usage, defaults) ==
    /\ d.schemas = schemas /\ d.ledger = ledger /\ d.objects = objects
    /\ d.usage = usage /\ d.defaults = defaults

BothSchemas == {"hedefora", "hedefora_meta"}
LedgerRow(version, s) == [version |-> version, checksum |-> s]

\* How far an open transaction is from the committed database, and what the check
\* of its script found there.
TxInv(r) ==
    /\ pc[r] \in {"check", "revoke"} => tx[r] = db
    /\ pc[r] \in UpPcs => job[r] = "up" /\ db = Scripts!Base
    /\ pc[r] = "grant" =>
          Is(tx[r], BothSchemas, {}, {}, Scripts!AllRoles, Scripts!BuiltinDefaults)
    /\ pc[r] = "record" =>
          Is(tx[r], BothSchemas, {}, {}, Scripts!AllRoles, Scripts!SchemaDefaults)
    /\ pc[r] \in DownPcs => job[r] = "down" /\ Scripts!Later(db) = {} /\ db # Scripts!Base
    /\ pc[r] = "drop" =>
          Is(tx[r], db.schemas, db.ledger, db.objects, {}, Scripts!BuiltinDefaults)
    /\ pc[r] = "commit" =>
          \/ /\ db = Scripts!Base
             /\ Is(tx[r], BothSchemas, {LedgerRow(1, sum[r])}, {}, Scripts!AllRoles,
                   Scripts!SchemaDefaults)
          \/ Scripts!Later(db) = {} /\ tx[r] = Scripts!Base
          \/ /\ Scripts!Row1(db) # {}
             /\ Is(tx[r], db.schemas, db.ledger \cup {LedgerRow(2, sum[r])}, tx[r].objects,
                   db.usage, db.defaults)

ScriptInv ==
    /\ db \in Databases /\ tx \in [Runs -> Databases]
    /\ Scripts!TypeOK /\ Scripts!AllOrNothing
    /\ LockHeld
    /\ \A r \in Runs : TxInv(r)

VolumeIInv == BootInv /\ ScriptInv /\ (db # Scripts!Base => marker = "valid")

-----------------------------------------------------------------------------
(* The bootstrap preserves its part of the invariant *)

LEMMA InitBoot == Boot!Init => BootInv
BY DEF Boot!Init, BootInv, Boot!ClusterInv, Boot!TypeOK, Boot!Pcs, Boot!Steps,
   Boot!MarkerIsLast, Boot!ServesOnlyComplete, Boot!NothingTemporaryRemains, Built,
   Unmarked, Trapped, TemporaryServer, NoFiles

\* Every line of entrypoint.sh preserves it.
LEMMA ScriptBoot ==
  ASSUME BootInv, Boot!Script
  PROVE  BootInv'
<1> USE DEF BootInv, Boot!ClusterInv, Boot!TypeOK, Boot!Pcs, Boot!Steps,
       Boot!MarkerIsLast, Boot!ServesOnlyComplete, Boot!NothingTemporaryRemains, Built,
       Unmarked, Trapped, TemporaryServer, NoFiles, Boot!diskVars, Boot!boxVars
<1>0. server \in BOOLEAN /\ mayRun \in BOOLEAN /\ unclean \in BOOLEAN /\ (server => mayRun)
  OBVIOUS
<1>1. CASE Boot!StepFails       BY <1>1 DEF Boot!StepFails, Boot!Fail
<1>2. CASE Boot!AcceptCluster   BY <1>2 DEF Boot!AcceptCluster
<1>3. CASE Boot!EmptyDirectory  BY <1>3 DEF Boot!EmptyDirectory
<1>4. CASE Boot!Credentials     BY <1>4 DEF Boot!Credentials
<1>5. CASE Boot!Snapshot        BY <1>5 DEF Boot!Snapshot
<1>6. CASE Boot!WritePassword   BY <1>6 DEF Boot!WritePassword
<1>7. CASE Boot!RunInitdb       BY <1>7 DEF Boot!RunInitdb
<1>8. CASE Boot!ForgetPassword  BY <1>8 DEF Boot!ForgetPassword
<1>9. CASE Boot!StartServer     BY <1>9 DEF Boot!StartServer
<1>10. CASE Boot!CreateDatabase BY <1>10 DEF Boot!CreateDatabase
<1>11. CASE Boot!CreateRoles    BY <1>11 DEF Boot!CreateRoles
<1>12. CASE Boot!StopServer
  <2> USE <1>12 DEF Boot!StopServer
  <2>1. CASE script' = "access" /\ server' = FALSE /\ mayRun' = FALSE
    BY <2>1
  <2>2. CASE script' = "cleanup" /\ server' = server /\ mayRun' = mayRun
    BY <2>2
  <2>3. CASE script' = "cleanup" /\ server' = FALSE /\ mayRun' = mayRun
    BY <2>3
  <2> QED  BY ONLY <1>12, <2>1, <2>2, <2>3, Zenon DEF Boot!StopServer
<1>13. CASE Boot!WriteAccess    BY <1>13 DEF Boot!WriteAccess
<1>14. CASE Boot!Tidy           BY <1>14 DEF Boot!Tidy
<1>15. CASE Boot!Untrap         BY <1>15 DEF Boot!Untrap
<1>16. CASE Boot!Mark           BY <1>16 DEF Boot!Mark
<1>17. CASE Boot!Rename         BY <1>17 DEF Boot!Rename
<1>18. CASE Boot!Cleanup
  <2> USE <1>18 DEF Boot!Cleanup
  <2>1. ASSUME server' = (server /\ ~mayRun), unclean' = unclean
        PROVE  BootInv'
    <3>1. server' = FALSE
      BY ONLY <2>1, <1>0
    <3> QED  BY <2>1, <3>1, ZenonT(60)
  <2>2. CASE server' = server /\ unclean' = TRUE
    BY <2>2, ZenonT(60)
  <2>3. CASE server' = FALSE /\ unclean' = TRUE
    BY <2>3, ZenonT(60)
  <2> QED  BY ONLY <1>18, <2>1, <2>2, <2>3, Zenon DEF Boot!Cleanup
<1>19. CASE Boot!RemoveFiles
  <2>1. /\ script = "remove" /\ script' = "failed" /\ UNCHANGED Boot!diskVars
        /\ UNCHANGED <<server, mayRun, trapped>> /\ files' \subseteq files
    BY <1>19 DEF Boot!RemoveFiles
  <2>2. unclean' \in BOOLEAN /\ (~unclean' => ~unclean /\ files' = {})
    BY <1>19 DEF Boot!RemoveFiles
  <2> QED  BY <2>1, <2>2
<1> QED
  BY <1>1, <1>2, <1>3, <1>4, <1>5, <1>6, <1>7, <1>8, <1>9, <1>10, <1>11, <1>12, <1>13,
     <1>14, <1>15, <1>16, <1>17, <1>18, <1>19 DEF Boot!Script

\* A kill of the container and the next start preserve it.
LEMMA KillBoot ==
  ASSUME BootInv, Boot!Crash \/ Boot!Restart
  PROVE  BootInv'
<1> USE DEF BootInv, Boot!ClusterInv, Boot!TypeOK, Boot!Pcs, Boot!Steps,
       Boot!MarkerIsLast, Boot!ServesOnlyComplete, Boot!NothingTemporaryRemains, Built,
       Unmarked, Trapped, TemporaryServer, NoFiles, Boot!diskVars, Boot!boxVars
<1>1. CASE Boot!Crash    BY <1>1, ZenonT(60) DEF Boot!Crash
<1>2. CASE Boot!Restart  BY <1>2 DEF Boot!Restart
<1> QED  BY <1>1, <1>2
-----------------------------------------------------------------------------
(* The scripts preserve theirs *)

LEMMA InitScripts == Scripts!Init => ScriptInv
<1> SUFFICES ASSUME Scripts!Init PROVE ScriptInv
  OBVIOUS
<1>1. Scripts!Base \in Databases
  BY DEF Scripts!Base, Databases
<1>2. db \in Databases /\ tx \in [Runs -> Databases]
  BY <1>1 DEF Scripts!Init
<1>3. Scripts!TypeOK
  BY <1>1 DEF Scripts!Init, Scripts!TypeOK, Databases
<1>4. LockHeld /\ \A r \in Runs : TxInv(r)
  BY DEF Scripts!Init, LockHeld, Locked, TxInv, UpPcs, DownPcs
<1> QED  BY <1>2, <1>3, <1>4 DEF Scripts!Init, Scripts!AllOrNothing, ScriptInv
\* The default privileges that the up script revokes are PostgreSQL's own, and those
\* that it grants are others.
LEMMA DefaultsApart ==
  /\ Scripts!BuiltinDefaults
       \ ({"global"} \X {"tables", "sequences", "functions", "types"} \X {"PUBLIC"}) = {}
  /\ Scripts!BuiltinDefaults \cap Scripts!SchemaDefaults = {}
<1>1. \A x \in Scripts!BuiltinDefaults :
          x \in {"global"} \X {"tables", "sequences", "functions", "types"} \X {"PUBLIC"}
  BY DEF Scripts!BuiltinDefaults
<1>2. \A x \in Scripts!BuiltinDefaults : x[1] = "global"
  BY DEF Scripts!BuiltinDefaults
<1>3. \A x \in Scripts!SchemaDefaults : x[1] = "hedefora"
  BY DEF Scripts!SchemaDefaults
<1> QED  BY <1>1, <1>2, <1>3

LEMMA WholeVersions ==
  /\ Scripts!Base \in Databases
  /\ \A s \in Checksums : Scripts!Foundation(s) \in Databases
BY DEF Scripts!Base, Scripts!Foundation, Databases

\* A whole version, field by field.
IsFoundation(d) ==
    /\ d.schemas = {"hedefora", "hedefora_meta"}
    /\ \E s \in Checksums : Scripts!Row1(d) = {[version |-> 1, checksum |-> s]}
    /\ d.usage = Scripts!AllRoles
    /\ d.defaults = Scripts!SchemaDefaults

LEMMA SameDatabase ==
  ASSUME NEW d \in Databases, NEW e \in Databases,
         d.schemas = e.schemas, d.ledger = e.ledger, d.objects = e.objects,
         d.usage = e.usage, d.defaults = e.defaults
  PROVE  d = e
BY DEF Databases

LEMMA AllOrNothingFields ==
  ASSUME NEW d \in Databases
  PROVE  (\E s \in Checksums :
            [d EXCEPT !.ledger = Scripts!Row1(d), !.objects = {}] = Scripts!Foundation(s))
           <=> IsFoundation(d)
<1>1. ASSUME NEW s \in Checksums
      PROVE  [d EXCEPT !.ledger = Scripts!Row1(d), !.objects = {}] = Scripts!Foundation(s)
               <=> /\ d.schemas = {"hedefora", "hedefora_meta"}
                   /\ Scripts!Row1(d) = {[version |-> 1, checksum |-> s]}
                   /\ d.usage = Scripts!AllRoles
                   /\ d.defaults = Scripts!SchemaDefaults
  <2> DEFINE c == [d EXCEPT !.ledger = Scripts!Row1(d)]
             e == [c EXCEPT !.objects = {}]
             f == Scripts!Foundation(s)
  <2>1. Scripts!Row1(d) \in SUBSET [version : {1, 2}, checksum : Checksums]
    BY DEF Scripts!Row1, Databases
  <2>2. /\ e \in Databases
        /\ e.schemas = d.schemas /\ e.ledger = Scripts!Row1(d) /\ e.objects = {}
        /\ e.usage = d.usage /\ e.defaults = d.defaults
    <3>1. /\ c \in Databases
          /\ c.schemas = d.schemas /\ c.ledger = Scripts!Row1(d)
          /\ c.usage = d.usage /\ c.defaults = d.defaults
      BY <2>1 DEF Databases
    <3> HIDE DEF c
    <3> QED  BY <3>1 DEF Databases
  <2>3. /\ f \in Databases
        /\ f.schemas = {"hedefora", "hedefora_meta"} /\ f.objects = {}
        /\ f.ledger = {[version |-> 1, checksum |-> s]}
        /\ f.usage = Scripts!AllRoles /\ f.defaults = Scripts!SchemaDefaults
    BY WholeVersions DEF Scripts!Foundation
  <2> HIDE DEF c, e, f
  <2>4. e = f <=> /\ e.schemas = f.schemas /\ e.ledger = f.ledger
                  /\ e.objects = f.objects /\ e.usage = f.usage /\ e.defaults = f.defaults
    BY <2>2, <2>3, SameDatabase
  <2>5. e = [d EXCEPT !.ledger = Scripts!Row1(d), !.objects = {}]
    BY Zenon DEF e, c
  <2> QED  BY <2>2, <2>3, <2>4, <2>5, Zenon DEF f
<1> QED  BY <1>1 DEF IsFoundation

\* A step of one run leaves the transactions of the others as they were: if it
\* changes the committed database, it holds the lock and they do not.
LEMMA OtherRun ==
  ASSUME ScriptInv, NEW r \in Runs, NEW q \in Runs, q # r,
         pc'[q] = pc[q], tx'[q] = tx[q], job' = job, sum' = sum,
         db' = db \/ Locked(r)
  PROVE  TxInv(q)'
<1>1. CASE db' = db
  <2>1. TxInv(q) /\ pc'[q] = pc[q] /\ tx'[q] = tx[q] /\ job'[q] = job[q] /\ sum'[q] = sum[q]
    BY DEF ScriptInv
  <2> QED  BY ONLY <1>1, <2>1, Zenon DEF TxInv, Is, Scripts!Later, Scripts!Row1
<1>2. CASE Locked(r)
  <2>1. ~Locked(q)
    BY <1>2 DEF ScriptInv, LockHeld
  <2> QED  BY <2>1 DEF TxInv, Locked, UpPcs, DownPcs
<1> QED  BY <1>1, <1>2
-----------------------------------------------------------------------------
(* The statements of the two scripts *)

LEMMA SetField ==
  ASSUME NEW d \in Databases
  PROVE  /\ \A x \in SUBSET BothSchemas : LET e == [d EXCEPT !.schemas = x] IN
              e \in Databases /\ Is(e, x, d.ledger, d.objects, d.usage, d.defaults)
         /\ \A x \in SUBSET [version : {1, 2}, checksum : Checksums] :
              LET e == [d EXCEPT !.ledger = x] IN
              e \in Databases /\ Is(e, d.schemas, x, d.objects, d.usage, d.defaults)
         /\ \A x \in SUBSET {"table"} : LET e == [d EXCEPT !.objects = x] IN
              e \in Databases /\ Is(e, d.schemas, d.ledger, x, d.usage, d.defaults)
         /\ \A x \in SUBSET Scripts!AllRoles : LET e == [d EXCEPT !.usage = x] IN
              e \in Databases /\ Is(e, d.schemas, d.ledger, d.objects, x, d.defaults)
         /\ \A x \in SUBSET (Scripts!BuiltinDefaults \cup Scripts!SchemaDefaults) :
              LET e == [d EXCEPT !.defaults = x] IN
              e \in Databases /\ Is(e, d.schemas, d.ledger, d.objects, d.usage, x)
BY DEF Databases, Is, BothSchemas

\* One statement of run r: what it writes, and the line it leads to.
Writes(r, label) ==
    /\ pc' = [pc EXCEPT ![r] = label]
    /\ tx' = [tx EXCEPT ![r] = tx'[r]] /\ tx'[r] \in Databases
    /\ UNCHANGED <<db, job, sum, lock>>

LEMMA StatementInv ==
  ASSUME ScriptInv, NEW r \in Runs, Locked(r),
         NEW label \in {"check", "commit"} \cup UpPcs \cup DownPcs,
         Writes(r, label), TxInv(r)'
  PROVE  ScriptInv'
<1>1. db' \in Databases /\ tx' \in [Runs -> Databases]
  BY DEF ScriptInv, Writes
<1>2. Scripts!TypeOK'
  <2>1. /\ pc' \in [Runs -> {"new", "lock", "check", "revoke", "drop", "grant",
                            "record", "commit", "ok", "failed", "unknown"}]
        /\ job' \in [Runs -> {"up", "down", "later"}]
        /\ sum' \in [Runs -> Checksums] /\ lock' \subseteq Runs
    BY DEF ScriptInv, Writes, Scripts!TypeOK, UpPcs, DownPcs
  <2> QED  BY <1>1, <2>1 DEF Scripts!TypeOK, Databases
<1>3. Scripts!AllOrNothing'
  BY DEF ScriptInv, Writes, Scripts!AllOrNothing
<1>4. LockHeld'
  BY DEF ScriptInv, Writes, LockHeld, Locked, Scripts!TypeOK
<1>5. ASSUME NEW q \in Runs PROVE TxInv(q)'
  <2>1. CASE q # r
    <3>1. pc'[q] = pc[q] /\ tx'[q] = tx[q]
      BY <2>1 DEF Writes, ScriptInv, Scripts!TypeOK
    <3> QED  BY <2>1, <3>1, OtherRun DEF Writes
  <2> QED  BY <2>1
<1> QED  BY <1>1, <1>2, <1>3, <1>4, <1>5 DEF ScriptInv
\* What a run that holds the lock sees of a database that has been migrated.
LEMMA Seen ==
  ASSUME ScriptInv
  PROVE  /\ db = Scripts!Base \/ IsFoundation(db)
         /\ db # Scripts!Base => db.schemas = BothSchemas
                                 /\ db.defaults = Scripts!SchemaDefaults
BY AllOrNothingFields DEF ScriptInv, IsFoundation, BothSchemas, Scripts!AllOrNothing

\* Each statement of the up script.
LEMMA UpStatements ==
  ASSUME ScriptInv, NEW r \in Runs,
         Scripts!UpCreate(r) \/ Scripts!UpGrant(r) \/ Scripts!UpRecord(r)
  PROVE  ScriptInv'
<1> USE DEF Scripts!Apply, Scripts!Goto
<1>1. tx \in [Runs -> Databases] /\ tx[r] \in Databases /\ TxInv(r)
      /\ pc \in [Runs -> {"new", "lock", "check", "revoke", "drop", "grant",
                          "record", "commit", "ok", "failed", "unknown"}]
      /\ sum[r] \in Checksums
  BY DEF ScriptInv, Scripts!TypeOK
<1>2. CASE Scripts!UpCreate(r)
  <2> DEFINE c == [tx[r] EXCEPT !.schemas = BothSchemas]
             e == [c EXCEPT !.usage = Scripts!AllRoles]
  <2>1. pc[r] = "check" /\ job[r] = "up" /\ tx[r].schemas = {} /\ tx[r] = db
    BY <1>1, <1>2 DEF Scripts!UpCreate, TxInv
  <2>2. db = Scripts!Base
    BY <2>1, Seen DEF BothSchemas
  <2>3. Is(tx[r], {}, {}, {}, {}, Scripts!BuiltinDefaults)
    BY <2>1, <2>2 DEF Scripts!Base, Is
  <2>4. tx' = [tx EXCEPT ![r] = e] /\ pc' = [pc EXCEPT ![r] = "grant"]
        /\ UNCHANGED <<db, job, sum, lock>>
    BY <1>2, Zenon DEF Scripts!UpCreate, BothSchemas
  <2>5. c \in Databases /\ Is(c, BothSchemas, {}, {}, {}, Scripts!BuiltinDefaults)
    BY <1>1, <2>3, SetField DEF Is
  <2> HIDE DEF c
  <2>6. e \in Databases
        /\ Is(e, BothSchemas, {}, {}, Scripts!AllRoles, Scripts!BuiltinDefaults)
    BY <2>5, SetField DEF Is
  <2> HIDE DEF e
  <2>7. Writes(r, "grant")
    BY <1>1, <2>4, <2>6 DEF Writes
  <2>8. TxInv(r)'
    BY <1>1, <2>1, <2>2, <2>4, <2>6 DEF TxInv, UpPcs, DownPcs
  <2> QED  BY <2>1, <2>7, <2>8, StatementInv DEF Locked, UpPcs
<1>3. CASE Scripts!UpGrant(r)
  <2> DEFINE new == (tx[r].defaults \ ({"global"}
                       \X {"tables", "sequences", "functions", "types"} \X {"PUBLIC"}))
                     \cup Scripts!SchemaDefaults
             e == [tx[r] EXCEPT !.defaults = new]
  <2>1. pc[r] = "grant" /\ job[r] = "up" /\ db = Scripts!Base
        /\ Is(tx[r], BothSchemas, {}, {}, Scripts!AllRoles, Scripts!BuiltinDefaults)
    BY <1>1, <1>3 DEF Scripts!UpGrant, TxInv, UpPcs
  <2>2. tx' = [tx EXCEPT ![r] = e] /\ pc' = [pc EXCEPT ![r] = "record"]
        /\ UNCHANGED <<db, job, sum, lock>>
    BY <1>3 DEF Scripts!UpGrant
  <2>3. new = Scripts!SchemaDefaults
    BY <2>1, DefaultsApart DEF Is
  <2> HIDE DEF new
  <2>4. e \in Databases
        /\ Is(e, BothSchemas, {}, {}, Scripts!AllRoles, Scripts!SchemaDefaults)
    BY <1>1, <2>1, <2>3, SetField DEF Is
  <2> HIDE DEF e
  <2>5. Writes(r, "record")
    BY <1>1, <2>2, <2>4 DEF Writes
  <2>6. TxInv(r)'
    BY <1>1, <2>1, <2>2, <2>4 DEF TxInv, UpPcs, DownPcs
  <2> QED  BY <2>1, <2>5, <2>6, StatementInv DEF Locked, UpPcs
<1>4. CASE Scripts!UpRecord(r)
  <2> DEFINE new == tx[r].ledger \cup {[version |-> 1, checksum |-> sum[r]]}
             e == [tx[r] EXCEPT !.ledger = new]
  <2>1. pc[r] = "record" /\ job[r] = "up" /\ db = Scripts!Base
        /\ Is(tx[r], BothSchemas, {}, {}, Scripts!AllRoles, Scripts!SchemaDefaults)
    BY <1>1, <1>4 DEF Scripts!UpRecord, TxInv, UpPcs
  <2>2. tx' = [tx EXCEPT ![r] = e] /\ pc' = [pc EXCEPT ![r] = "commit"]
        /\ UNCHANGED <<db, job, sum, lock>>
    BY <1>4 DEF Scripts!UpRecord
  <2>3. new = {LedgerRow(1, sum[r])} /\ new \in SUBSET [version : {1, 2}, checksum : Checksums]
    BY <1>1, <2>1 DEF Is, LedgerRow
  <2> HIDE DEF new
  <2>4. e \in Databases
        /\ Is(e, BothSchemas, {LedgerRow(1, sum[r])}, {}, Scripts!AllRoles, Scripts!SchemaDefaults)
    BY <1>1, <2>1, <2>3, SetField DEF Is
  <2> HIDE DEF e
  <2>5. Writes(r, "commit")
    BY <1>1, <2>2, <2>4 DEF Writes
  <2>6. TxInv(r)'
    BY <1>1, <2>1, <2>2, <2>4 DEF TxInv, UpPcs, DownPcs
  <2> QED  BY <2>1, <2>5, <2>6, StatementInv DEF Locked, UpPcs
<1> QED  BY <1>2, <1>3, <1>4
\* Each statement of the down script, and a later migration.
LEMMA DownStatements ==
  ASSUME ScriptInv, NEW r \in Runs,
         Scripts!DownCheck(r) \/ Scripts!DownRevoke(r) \/ Scripts!DownDrop(r)
           \/ Scripts!LaterMigration(r)
  PROVE  ScriptInv'
<1> USE DEF Scripts!Apply, Scripts!Goto
<1>1. tx \in [Runs -> Databases] /\ tx[r] \in Databases /\ TxInv(r)
      /\ pc \in [Runs -> {"new", "lock", "check", "revoke", "drop", "grant",
                          "record", "commit", "ok", "failed", "unknown"}]
      /\ sum[r] \in Checksums
  BY DEF ScriptInv, Scripts!TypeOK
<1>2. CASE Scripts!DownCheck(r)
  <2>1. pc[r] = "check" /\ job[r] = "down" /\ tx[r] = db /\ Scripts!Later(db) = {}
        /\ LedgerRow(1, sum[r]) \in db.ledger
    BY <1>1, <1>2 DEF Scripts!DownCheck, TxInv, LedgerRow
  <2>2. db # Scripts!Base
    BY <2>1 DEF Scripts!Base
  <2>3. tx' = [tx EXCEPT ![r] = tx[r]] /\ pc' = [pc EXCEPT ![r] = "revoke"]
        /\ UNCHANGED <<db, job, sum, lock>>
    BY <1>2 DEF Scripts!DownCheck
  <2>4. Writes(r, "revoke")
    BY <1>1, <2>3 DEF Writes
  <2>5. TxInv(r)'
    BY <1>1, <2>1, <2>2, <2>3 DEF TxInv, UpPcs, DownPcs, Scripts!Later
  <2> QED  BY <2>1, <2>4, <2>5, StatementInv DEF Locked, DownPcs
<1>3. CASE Scripts!DownRevoke(r)
  <2> DEFINE new == (tx[r].defaults \ Scripts!SchemaDefaults) \cup Scripts!BuiltinDefaults
             c == [tx[r] EXCEPT !.defaults = new]
             e == [c EXCEPT !.usage = {}]
  <2>1. pc[r] = "revoke" /\ job[r] = "down" /\ tx[r] = db /\ Scripts!Later(db) = {}
        /\ db # Scripts!Base
    BY <1>1, <1>3 DEF Scripts!DownRevoke, TxInv, DownPcs
  <2>2. tx' = [tx EXCEPT ![r] = e] /\ pc' = [pc EXCEPT ![r] = "drop"]
        /\ UNCHANGED <<db, job, sum, lock>>
    BY <1>3, Zenon DEF Scripts!DownRevoke
  <2>3. new = Scripts!BuiltinDefaults
    BY <2>1, Seen
  <2> HIDE DEF new
  <2>4. c \in Databases
        /\ Is(c, db.schemas, db.ledger, db.objects, db.usage, Scripts!BuiltinDefaults)
    BY <1>1, <2>1, <2>3, SetField
  <2> HIDE DEF c
  <2>5. e \in Databases
        /\ Is(e, db.schemas, db.ledger, db.objects, {}, Scripts!BuiltinDefaults)
    BY <2>4, SetField DEF Is
  <2> HIDE DEF e
  <2>6. Writes(r, "drop")
    BY <1>1, <2>2, <2>5 DEF Writes
  <2>7. TxInv(r)'
    BY <1>1, <2>1, <2>2, <2>5 DEF TxInv, UpPcs, DownPcs, Scripts!Later
  <2> QED  BY <2>1, <2>6, <2>7, StatementInv DEF Locked, DownPcs
<1>4. CASE Scripts!DownDrop(r)
  <2> DEFINE c == [tx[r] EXCEPT !.schemas = {}]
             e == [c EXCEPT !.ledger = {}]
  <2>1. pc[r] = "drop" /\ Scripts!Later(db) = {} /\ tx[r].objects = {}
        /\ Is(tx[r], db.schemas, db.ledger, db.objects, {}, Scripts!BuiltinDefaults)
    BY <1>1, <1>4 DEF Scripts!DownDrop, TxInv, DownPcs
  <2>2. tx' = [tx EXCEPT ![r] = e] /\ pc' = [pc EXCEPT ![r] = "commit"]
        /\ UNCHANGED <<db, job, sum, lock>>
    BY <1>4, Zenon DEF Scripts!DownDrop
  <2>3. c \in Databases /\ Is(c, {}, db.ledger, {}, {}, Scripts!BuiltinDefaults)
    BY <1>1, <2>1, SetField DEF Is
  <2> HIDE DEF c
  <2>4. e \in Databases /\ Is(e, {}, {}, {}, {}, Scripts!BuiltinDefaults)
    BY <2>3, SetField DEF Is
  <2> HIDE DEF e
  <2>5. e = Scripts!Base
    <3>1. Is(Scripts!Base, {}, {}, {}, {}, Scripts!BuiltinDefaults)
      BY DEF Is, Scripts!Base
    <3> QED  BY <2>4, <3>1, SameDatabase, WholeVersions DEF Is
  <2>6. Writes(r, "commit")
    BY <1>1, <2>2, <2>4 DEF Writes
  <2>7. TxInv(r)'
    BY <1>1, <2>1, <2>2, <2>5 DEF TxInv, UpPcs, DownPcs, Scripts!Later
  <2> QED  BY <2>1, <2>6, <2>7, StatementInv DEF Locked, DownPcs
<1>5. CASE Scripts!LaterMigration(r)
  <2>1. PICK objects \in SUBSET {"table"} :
          tx' = [tx EXCEPT ![r] =
                   [tx[r] EXCEPT !.ledger = @ \cup {[version |-> 2, checksum |-> sum[r]]},
                                 !.objects = objects]]
    BY <1>5, Zenon DEF Scripts!LaterMigration
  <2>2. pc[r] = "check" /\ tx[r] = db /\ Scripts!Row1(db) # {}
        /\ pc' = [pc EXCEPT ![r] = "commit"] /\ UNCHANGED <<db, job, sum, lock>>
    BY <1>1, <1>5 DEF Scripts!LaterMigration, TxInv
  <2> DEFINE new == tx[r].ledger \cup {[version |-> 2, checksum |-> sum[r]]}
             c == [tx[r] EXCEPT !.ledger = new]
             e == [c EXCEPT !.objects = objects]
  <2>3. tx' = [tx EXCEPT ![r] = e]
    BY <2>1, Zenon
  <2>4. new = db.ledger \cup {LedgerRow(2, sum[r])}
        /\ new \in SUBSET [version : {1, 2}, checksum : Checksums]
    <3>1. LedgerRow(2, sum[r]) \in [version : {1, 2}, checksum : Checksums]
      BY <1>1 DEF LedgerRow
    <3>2. db.ledger \in SUBSET [version : {1, 2}, checksum : Checksums]
      BY DEF ScriptInv, Databases
    <3> QED  BY <2>2, <3>1, <3>2 DEF LedgerRow
  <2> HIDE DEF new
  <2>5. c \in Databases /\ Is(c, db.schemas, new, db.objects, db.usage, db.defaults)
    BY <1>1, <2>2, <2>4, SetField
  <2> HIDE DEF c
  <2>6. e \in Databases /\ Is(e, db.schemas, new, e.objects, db.usage, db.defaults)
    BY <2>5, SetField DEF Is
  <2> HIDE DEF e
  <2>7. Writes(r, "commit")
    BY <1>1, <2>2, <2>3, <2>6 DEF Writes
  <2>8. TxInv(r)'
    <3>1. tx'[r] = e /\ pc'[r] = "commit" /\ db' = db /\ sum'[r] = sum[r]
      BY <1>1, <2>2, <2>3
    <3>2. Scripts!Row1(db') # {}
      BY <2>2 DEF Scripts!Row1
    <3>3. Is(tx'[r], db'.schemas, db'.ledger \cup {LedgerRow(2, sum'[r])}, tx'[r].objects,
             db'.usage, db'.defaults)
      BY <2>4, <2>6, <3>1
    <3> QED  BY <3>1, <3>2, <3>3 DEF TxInv, UpPcs, DownPcs
  <2> QED  BY <2>2, <2>7, <2>8, StatementInv DEF Locked
<1> QED  BY <1>2, <1>3, <1>4, <1>5
\* A step that at most ends transactions, or moves runs that have none.
LEMMA QuietInv ==
  ASSUME ScriptInv, UNCHANGED <<db, tx, job, sum>>, lock' \subseteq Runs,
         pc' \in [Runs -> {"new", "lock", "check", "revoke", "drop", "grant",
                           "record", "commit", "ok", "failed", "unknown"}],
         \A q \in Runs : Locked(q)' => pc'[q] = pc[q] /\ lock' = {q}
  PROVE  ScriptInv'
<1>1. db' \in Databases /\ tx' \in [Runs -> Databases]
  BY DEF ScriptInv
<1>2. Scripts!TypeOK'
  BY <1>1 DEF ScriptInv, Scripts!TypeOK, Databases
<1>3. Scripts!AllOrNothing' /\ LockHeld'
  BY DEF ScriptInv, Scripts!AllOrNothing, LockHeld
<1>4. ASSUME NEW q \in Runs PROVE TxInv(q)'
  <2>1. CASE Locked(q)'
    <3>1. TxInv(q) /\ pc'[q] = pc[q] /\ tx'[q] = tx[q] /\ job'[q] = job[q]
          /\ sum'[q] = sum[q] /\ db' = db
      BY <2>1 DEF ScriptInv
    <3> QED  BY ONLY <3>1, Zenon DEF TxInv, Is, Scripts!Later, Scripts!Row1
  <2>2. CASE ~Locked(q)'
    BY <2>2 DEF TxInv, Locked, UpPcs, DownPcs
  <2> QED  BY <2>1, <2>2
<1> QED  BY <1>1, <1>2, <1>3, <1>4 DEF ScriptInv

\* A run that gets the lock is alone, and sees the committed database.
LEMMA TakeLockInv ==
  ASSUME ScriptInv, NEW r \in Runs, Scripts!TakeLock(r)
  PROVE  ScriptInv'
<1> USE DEF Scripts!TakeLock, Scripts!Goto
<1>1. db' \in Databases /\ tx' \in [Runs -> Databases]
  BY DEF ScriptInv
<1>2. /\ pc' \in [Runs -> {"new", "lock", "check", "revoke", "drop", "grant",
                           "record", "commit", "ok", "failed", "unknown"}]
      /\ pc'[r] = "check" /\ tx'[r] = db /\ lock' = {r} /\ lock = {}
      /\ UNCHANGED <<db, job, sum>>
      /\ \A q \in Runs : q # r => pc'[q] = pc[q] /\ tx'[q] = tx[q]
  BY DEF ScriptInv, Scripts!TypeOK
<1>3. Scripts!TypeOK'
  BY <1>1, <1>2 DEF ScriptInv, Scripts!TypeOK, Databases
<1>4. Scripts!AllOrNothing'
  BY DEF ScriptInv, Scripts!AllOrNothing
<1>5. \A q \in Runs : ~Locked(q)
  BY <1>2 DEF ScriptInv, LockHeld
<1>6. LockHeld'
  BY <1>2, <1>5 DEF LockHeld, Locked
<1>7. ASSUME NEW q \in Runs PROVE TxInv(q)'
  <2>1. CASE q = r
    BY <1>2, <2>1 DEF TxInv, UpPcs, DownPcs
  <2>2. CASE q # r
    BY <1>2, <2>2, OtherRun
  <2> QED  BY <2>1, <2>2
<1> QED  BY <1>1, <1>3, <1>4, <1>6, <1>7 DEF ScriptInv

\* What a COMMIT makes of the committed database: the foundation on a database that
\* had nothing, the base on one without later versions, or a later version on top.
LEMMA Committed ==
  ASSUME ScriptInv, NEW r \in Runs, pc[r] = "commit"
  PROVE  /\ tx[r] \in Databases
         /\ tx[r] = Scripts!Base \/ IsFoundation(tx[r])
         /\ Scripts!Later(db) \subseteq Scripts!Later(tx[r])
         /\ Scripts!Row1(db) # {} /\ Scripts!Row1(tx[r]) # {}
              => Scripts!Row1(tx[r]) = Scripts!Row1(db)
<1>1. tx[r] \in Databases /\ sum[r] \in Checksums /\ TxInv(r)
  BY DEF ScriptInv, Scripts!TypeOK
<1>2. Scripts!Row1(Scripts!Base) = {} /\ Scripts!Later(Scripts!Base) = {}
  BY DEF Scripts!Base, Scripts!Row1, Scripts!Later
<1>3. CASE /\ db = Scripts!Base
           /\ Is(tx[r], BothSchemas, {LedgerRow(1, sum[r])}, {}, Scripts!AllRoles,
                 Scripts!SchemaDefaults)
  <2>1. Scripts!Row1(tx[r]) = {LedgerRow(1, sum[r])}
    BY <1>3 DEF Is, LedgerRow, Scripts!Row1
  <2>2. IsFoundation(tx[r])
    BY <1>1, <1>3, <2>1 DEF Is, IsFoundation, LedgerRow, BothSchemas
  <2> QED  BY <1>1, <1>2, <1>3, <2>2
<1>4. CASE Scripts!Later(db) = {} /\ tx[r] = Scripts!Base
  BY <1>1, <1>2, <1>4
<1>5. CASE /\ Scripts!Row1(db) # {}
           /\ Is(tx[r], db.schemas, db.ledger \cup {LedgerRow(2, sum[r])}, tx[r].objects,
                 db.usage, db.defaults)
  <2>1. Scripts!Row1(tx[r]) = Scripts!Row1(db)
    BY <1>5 DEF Is, LedgerRow, Scripts!Row1
  <2>2. Scripts!Later(db) \subseteq Scripts!Later(tx[r])
    BY <1>5 DEF Is, LedgerRow, Scripts!Later
  <2>3. IsFoundation(db)
    BY <1>2, <1>5, Seen
  <2>4. IsFoundation(tx[r])
    BY <1>5, <2>1, <2>3 DEF IsFoundation, Is
  <2> QED  BY <1>1, <2>1, <2>2, <2>4
<1> QED  BY <1>1, <1>3, <1>4, <1>5 DEF TxInv

LEMMA CommitInv ==
  ASSUME ScriptInv, NEW r \in Runs, Scripts!Commit(r)
  PROVE  ScriptInv'
<1> USE DEF Scripts!Commit, Scripts!Goto
<1>1. tx[r] \in Databases /\ (tx[r] = Scripts!Base \/ IsFoundation(tx[r]))
  BY Committed
<1>2. /\ pc' \in [Runs -> {"new", "lock", "check", "revoke", "drop", "grant",
                           "record", "commit", "ok", "failed", "unknown"}]
      /\ pc'[r] \in {"ok", "unknown"} /\ lock' = lock \ {r} /\ db' = tx[r]
      /\ UNCHANGED <<tx, job, sum>>
      /\ \A q \in Runs : q # r => pc'[q] = pc[q]
      /\ Locked(r)
  BY DEF ScriptInv, Scripts!TypeOK, Locked
<1>3. db' \in Databases /\ tx' \in [Runs -> Databases]
  BY <1>1, <1>2 DEF ScriptInv
<1>4. Scripts!TypeOK'
  BY <1>2, <1>3 DEF ScriptInv, Scripts!TypeOK, Databases
<1>5. Scripts!AllOrNothing'
  <2>1. db' = Scripts!Base \/ IsFoundation(db')
    BY <1>1, <1>2
  <2> QED  BY <1>3, <2>1, AllOrNothingFields DEF Scripts!AllOrNothing
<1>6. LockHeld'
  BY <1>2 DEF ScriptInv, LockHeld, Locked, UpPcs, DownPcs
<1>7. ASSUME NEW q \in Runs PROVE TxInv(q)'
  <2>1. CASE q = r
    BY <1>2, <2>1 DEF TxInv, UpPcs, DownPcs
  <2>2. CASE q # r
    BY <1>2, <2>2, OtherRun
  <2> QED  BY <2>1, <2>2
<1> QED  BY <1>3, <1>4, <1>5, <1>6, <1>7 DEF ScriptInv
\* Every step of a run preserves the scripts' part of the invariant.
LEMMA StepScripts ==
  ASSUME ScriptInv, NEW r \in Runs, Scripts!Step(r)
  PROVE  ScriptInv'
<1> USE DEF Scripts!Goto
<1>1. CASE Scripts!Begin(r) \/ Scripts!Retry(r)
  <2>1. /\ UNCHANGED <<db, tx, job, sum, lock>>
        /\ pc' = [pc EXCEPT ![r] = "lock"] \/ pc' = [pc EXCEPT ![r] = "new"]
    BY <1>1 DEF Scripts!Begin, Scripts!Retry
  <2> QED  BY <2>1, QuietInv DEF ScriptInv, Scripts!TypeOK, LockHeld, Locked, UpPcs, DownPcs
<1>2. CASE Scripts!Abort(r)
  <2>1. /\ UNCHANGED <<db, tx, job, sum>> /\ lock' = lock \ {r}
        /\ pc' = [pc EXCEPT ![r] = "failed"] \/ pc' = [pc EXCEPT ![r] = "unknown"]
    BY <1>2 DEF Scripts!Abort
  <2> QED  BY <2>1, QuietInv DEF ScriptInv, Scripts!TypeOK, LockHeld, Locked, UpPcs, DownPcs
<1>3. CASE Scripts!TakeLock(r)
  BY <1>3, TakeLockInv
<1>4. CASE Scripts!UpCreate(r) \/ Scripts!UpGrant(r) \/ Scripts!UpRecord(r)
  BY <1>4, UpStatements
<1>5. CASE Scripts!DownCheck(r) \/ Scripts!DownRevoke(r) \/ Scripts!DownDrop(r)
             \/ Scripts!LaterMigration(r)
  BY <1>5, DownStatements
<1>6. CASE Scripts!Commit(r)
  BY <1>6, CommitInv
<1> QED  BY <1>1, <1>2, <1>3, <1>4, <1>5, <1>6 DEF Scripts!Step

-----------------------------------------------------------------------------
(* The volume *)

\* Only a COMMIT changes the committed database, and only on a served cluster.
LEMMA DatabaseChanges ==
  ASSUME Next, db' # db
  PROVE  Serving /\ UNCHANGED bootVars
         /\ \E r \in Runs : pc[r] = "commit" /\ db' = tx[r]
<1>1. CASE ScriptStep
  <2>1. PICK r \in Runs : Scripts!Step(r)
    BY <1>1 DEF ScriptStep, Scripts!Next
  <2> QED
    BY <1>1, <2>1 DEF ScriptStep, Scripts!Step, Scripts!Begin, Scripts!TakeLock,
       Scripts!UpCreate, Scripts!UpGrant, Scripts!UpRecord, Scripts!DownCheck,
       Scripts!DownRevoke, Scripts!DownDrop, Scripts!LaterMigration, Scripts!Commit,
       Scripts!Abort, Scripts!Retry, Scripts!Apply
<1>2. CASE BootStep \/ Crash \/ \E r \in Runs : Refused(r) \/ RetryLater(r)
  BY <1>2 DEF BootStep, Crash, Refused, RetryLater, Scripts!Retry, scriptVars
<1> QED  BY <1>1, <1>2 DEF Next

\* A valid marker stays: it is written last, and nothing removes it.
LEMMA MarkerStays ==
  ASSUME BootInv, Next, marker = "valid"
  PROVE  marker' = "valid"
<1>1. CASE BootStep
  BY <1>1 DEF BootStep, Boot!Script, Boot!Restart, Boot!StepFails, Boot!AcceptCluster,
     Boot!EmptyDirectory, Boot!Credentials, Boot!Snapshot, Boot!WritePassword,
     Boot!RunInitdb, Boot!ForgetPassword, Boot!StartServer, Boot!CreateDatabase,
     Boot!CreateRoles, Boot!StopServer, Boot!WriteAccess, Boot!Tidy, Boot!Untrap,
     Boot!Mark, Boot!Rename, Boot!Cleanup, Boot!RemoveFiles, Boot!diskVars, BootInv,
     Unmarked, Boot!Steps
<1>2. CASE Crash
  BY <1>2 DEF Crash, Boot!Crash
<1>3. CASE ScriptStep \/ \E r \in Runs : Refused(r) \/ RetryLater(r)
  BY <1>3 DEF ScriptStep, Refused, RetryLater, bootVars
<1> QED  BY <1>1, <1>2, <1>3 DEF Next

LEMMA BootUnchanged ==
  ASSUME BootInv, UNCHANGED bootVars
  PROVE  BootInv'
BY DEF bootVars, BootInv, Boot!ClusterInv, Boot!TypeOK, Boot!Pcs, Boot!Steps,
   Boot!MarkerIsLast, Boot!ServesOnlyComplete, Boot!NothingTemporaryRemains, Built,
   Unmarked, Trapped, TemporaryServer, NoFiles

LEMMA ScriptsUnchanged ==
  ASSUME ScriptInv, UNCHANGED scriptVars
  PROVE  ScriptInv'
BY QuietInv DEF scriptVars, ScriptInv, Scripts!TypeOK, LockHeld, Locked

LEMMA NextBoot ==
  ASSUME BootInv, Next
  PROVE  BootInv'
<1>1. CASE BootStep
  BY <1>1, ScriptBoot, KillBoot DEF BootStep
<1>2. CASE Crash
  BY <1>2, KillBoot DEF Crash
<1>3. CASE ScriptStep \/ \E r \in Runs : Refused(r) \/ RetryLater(r)
  BY <1>3, BootUnchanged DEF ScriptStep, Refused, RetryLater
<1> QED  BY <1>1, <1>2, <1>3 DEF Next

LEMMA NextScripts ==
  ASSUME ScriptInv, Next
  PROVE  ScriptInv'
<1>1. CASE BootStep
  BY <1>1, ScriptsUnchanged DEF BootStep
<1>2. CASE Crash
  <2>1. PICK results \in [InTransaction -> {"failed", "unknown"}] :
          pc' = [r \in Runs |-> IF r \in InTransaction THEN results[r] ELSE pc[r]]
    BY <1>2 DEF Crash
  <2>2. lock' = {} /\ UNCHANGED <<db, tx, job, sum>>
    BY <1>2 DEF Crash
  <2>3. pc' \in [Runs -> {"new", "lock", "check", "revoke", "drop", "grant",
                          "record", "commit", "ok", "failed", "unknown"}]
    BY <2>1 DEF ScriptInv, Scripts!TypeOK
  <2>4. \A q \in Runs : ~Locked(q)'
    BY <2>1 DEF InTransaction, Locked, UpPcs, DownPcs
  <2> QED  BY <2>2, <2>3, <2>4, QuietInv
<1>3. CASE ScriptStep
  BY <1>3, StepScripts DEF ScriptStep, Scripts!Next
<1>4. ASSUME NEW r \in Runs, Refused(r) PROVE ScriptInv'
  <2>1. UNCHANGED <<db, tx, job, sum, lock>> /\ pc' = [pc EXCEPT ![r] = "failed"]
    BY <1>4 DEF Refused
  <2> QED  BY <2>1, QuietInv DEF ScriptInv, Scripts!TypeOK, LockHeld, Locked, UpPcs, DownPcs
<1>5. ASSUME NEW r \in Runs, RetryLater(r) PROVE ScriptInv'
  BY <1>5, StepScripts DEF RetryLater, Scripts!Step
<1> QED  BY <1>1, <1>2, <1>3, <1>4, <1>5 DEF Next

\* The inductive invariant holds in every reachable state, for any number of runs,
\* checksums, kills and restarts.
THEOREM VolumeInvariant == Spec => []VolumeIInv
<1>1. Init => VolumeIInv
  <2> SUFFICES ASSUME Init PROVE VolumeIInv
    OBVIOUS
  <2> QED  BY InitBoot, InitScripts DEF Init, VolumeIInv, Scripts!Init
<1>2. VolumeIInv /\ [Next]_vars => VolumeIInv'
  <2> SUFFICES ASSUME VolumeIInv, [Next]_vars PROVE VolumeIInv'
    OBVIOUS
  <2>1. CASE Next
    <3>1. BootInv' /\ ScriptInv'
      BY <2>1, NextBoot, NextScripts DEF VolumeIInv
    <3>2. (db # Scripts!Base => marker = "valid")'
      <4>1. CASE db' = db
        BY <2>1, <4>1, MarkerStays DEF VolumeIInv
      <4>2. CASE db' # db
        <5>1. script = "serve" /\ marker' = marker
          BY <2>1, <4>2, DatabaseChanges DEF Serving, bootVars
        <5> QED  BY <5>1 DEF VolumeIInv, BootInv, Boot!ClusterInv, Boot!ServesOnlyComplete
      <4> QED  BY <4>1, <4>2
    <3> QED  BY <3>1, <3>2 DEF VolumeIInv
  <2>2. CASE UNCHANGED vars
    <3>1. UNCHANGED bootVars /\ UNCHANGED scriptVars
      BY <2>2 DEF vars
    <3>2. marker' = marker /\ db' = db
      BY <3>1 DEF bootVars, scriptVars
    <3> QED  BY <3>1, <3>2, BootUnchanged, ScriptsUnchanged DEF VolumeIInv
  <2> QED  BY <2>1, <2>2
<1> QED  BY <1>1, <1>2, PTL DEF Spec

\* entrypoint.sh serves only a complete cluster, leaves nothing temporary behind, and
\* nothing is committed into an unfinished cluster.
THEOREM VolumeClusterInv == Spec => []ClusterInv
<1>1. VolumeIInv => ClusterInv
  BY DEF VolumeIInv, BootInv, ClusterInv
<1> QED  BY <1>1, VolumeInvariant, PTL

\* Every committed state is a whole version, and the ledger says which.
THEOREM VolumeLedgerInv == Spec => []LedgerInv
<1>1. VolumeIInv => LedgerInv
  BY DEF VolumeIInv, ScriptInv, LedgerInv, Scripts!LedgerInv
<1> QED  BY <1>1, VolumeInvariant, PTL

\* No later start of entrypoint.sh completes or serves an interrupted bootstrap.
THEOREM VolumeStaysClosed == Spec => InterruptedStaysClosed
<1>1. VolumeIInv /\ [Next]_vars => [Boot!Interrupted => Boot!Interrupted']_vars
  <2> SUFFICES ASSUME VolumeIInv, Next, Boot!Interrupted PROVE Boot!Interrupted'
    BY DEF vars, bootVars, Boot!Interrupted
  <2> USE DEF Boot!Interrupted
  <2>1. CASE BootStep
    BY <2>1 DEF BootStep, Boot!Script, Boot!Restart, Boot!StepFails, Boot!Fail,
       Boot!AcceptCluster, Boot!EmptyDirectory, Boot!Credentials, Boot!Snapshot,
       Boot!WritePassword, Boot!RunInitdb, Boot!ForgetPassword, Boot!StartServer,
       Boot!CreateDatabase, Boot!CreateRoles, Boot!StopServer, Boot!WriteAccess,
       Boot!Tidy, Boot!Untrap, Boot!Mark, Boot!Rename, Boot!Cleanup, Boot!RemoveFiles,
       Boot!diskVars, VolumeIInv, BootInv, Trapped
  <2>2. CASE Crash
    BY <2>2 DEF Crash, Boot!Crash
  <2>3. CASE ScriptStep \/ \E r \in Runs : Refused(r) \/ RetryLater(r)
    BY <2>3 DEF ScriptStep, Refused, RetryLater, bootVars
  <2> QED  BY <2>1, <2>2, <2>3 DEF Next
<1> QED  BY <1>1, VolumeInvariant, PTL DEF Spec, InterruptedStaysClosed

\* A down script does not commit over a later version, and a recorded checksum
\* changes only through a down script.
THEOREM VolumeLedgerHistory == Spec => LedgerHistory
<1> DEFINE Kept == /\ Scripts!Later(db) \subseteq Scripts!Later(db')
                   /\ Scripts!Row1(db) # {} /\ Scripts!Row1(db') # {}
                        => Scripts!Row1(db') = Scripts!Row1(db)
<1>1. VolumeIInv /\ [Next]_vars => [Kept]_vars
  <2> SUFFICES ASSUME VolumeIInv, Next PROVE Kept
    OBVIOUS
  <2>1. CASE db' = db
    BY <2>1 DEF Scripts!Later, Scripts!Row1
  <2>2. CASE db' # db
    BY <2>2, DatabaseChanges, Committed DEF VolumeIInv
  <2> QED  BY <2>1, <2>2
<1> QED  BY <1>1, VolumeInvariant, PTL DEF Spec, LedgerHistory
=============================================================================
