----------------------------- MODULE OdbcProofs -----------------------------
(***************************************************************************)
(* The database side.  First the safety of calling a stored procedure, for *)
(* any number of retries and any results; then what the pool of handlers   *)
(* accounts for, for any sizes, databases and number of callers.           *)
(***************************************************************************)
EXTENDS OdbcHandler, OdbcPool, SequenceTheorems, FiniteSetTheorems, TLAPS

-----------------------------------------------------------------------------
(* Calling a stored procedure: OdbcHandler                                 *)

\* close() followed by what was allocated anew leaves the handles in order.
LEMMA ResetMatches ==
  ASSUME TypeOK, HandlesMatch, NEW ks, Reset(ks),
         ks \in {{}, {"env"}, {"env", "hdbc"}}
  PROVE  /\ HandlesMatch' /\ held' = ks /\ held' \in SUBSET Kinds
         /\ driver' \in [Kinds -> Nat] /\ "stmt" \notin held'
<1>1. ks \subseteq Kinds /\ "stmt" \notin ks
  BY DEF Kinds
<1>2. \A k \in Kinds : driver'[k] = IF k \in ks THEN 1 ELSE 0
  BY <1>1 DEF Reset, Freed, HandlesMatch, TypeOK
<1>3. driver' \in [Kinds -> Nat]
  BY <1>1, <1>2 DEF Reset
<1>4. QED
  BY <1>1, <1>2, <1>3 DEF Reset, HandlesMatch

\* Whatever connect() and close() come to, the handles are in order, and being
\* connected means that both of its handles are there.
LEMMA ReconnectMatches ==
  ASSUME TypeOK, HandlesMatch, Opens \/ Refused \/ Close
  PROVE  /\ HandlesMatch' /\ held' \in SUBSET Kinds /\ driver' \in [Kinds -> Nat]
         /\ "stmt" \notin held'
         /\ connected' \in BOOLEAN /\ link' \in {"none", "good", "broken"}
         /\ connected' => {"env", "hdbc"} \subseteq held'
         /\ connected' <=> link' # "none"
<1>1. CASE Opens
  BY <1>1, ResetMatches DEF Opens
<1>2. CASE Refused
  BY <1>2, ResetMatches DEF Refused
<1>3. CASE Close
  BY <1>3, ResetMatches DEF Close
<1>4. QED
  BY <1>1, <1>2, <1>3

\* SQLAllocHandle for the statement, where there is none.
LEMMA StatementMatches ==
  ASSUME TypeOK, HandlesMatch, Shape, "stmt" \notin held, GetsStatement \/ GetsNoStatement
  PROVE  HandlesMatch' /\ held' \in SUBSET Kinds /\ driver' \in [Kinds -> Nat]
<1>1. CASE GetsStatement
  <2>1. driver' \in [Kinds -> Nat] /\ held' \in SUBSET Kinds
    BY <1>1 DEF GetsStatement, TypeOK, Kinds
  <2>2. \A k \in Kinds : driver'[k] = IF k \in held' THEN 1 ELSE 0
    BY <1>1 DEF GetsStatement, HandlesMatch, TypeOK, Kinds
  <2>3. QED
    BY <1>1, <2>1, <2>2 DEF GetsStatement, HandlesMatch, Shape
<1>2. CASE GetsNoStatement
  BY <1>2 DEF GetsNoStatement, HandlesMatch, TypeOK
<1>3. QED
  BY <1>1, <1>2

\* The handles, and where exec and the procedure stand, go together.
LEMMA HandleStep ==
  ASSUME TypeOK, HandlesMatch, StatementAtHand, Shape, [Next]_vars
  PROVE  HandlesMatch' /\ StatementAtHand' /\ Shape'
         /\ held' \in SUBSET Kinds /\ driver' \in [Kinds -> Nat]
         /\ connected' \in BOOLEAN /\ link' \in {"none", "good", "broken"}
<1> DEFINE Goal == /\ HandlesMatch' /\ StatementAtHand' /\ Shape'
                   /\ held' \in SUBSET Kinds /\ driver' \in [Kinds -> Nat]
                   /\ connected' \in BOOLEAN /\ link' \in {"none", "good", "broken"}
<1>1. CASE TroubleComes \/ TroublePasses \/ ProbeFine \/ Executes \/ ExecuteFails
           \/ FetchRow \/ FetchEnd \/ FetchFails \/ ValueThrows \/ Answer \/ ExecFailed \/ PingSucceeds
           \/ Call \/ Return \/ UNCHANGED vars
  <2>1. UNCHANGED handles /\ UNCHANGED known
    BY <1>1 DEF TroubleComes, TroublePasses, ProbeFine, Executes, ExecuteFails, FetchRow,
       FetchEnd, FetchFails, ValueThrows, Answer, ExecFailed, PingSucceeds, Call, Return, vars
  <2>2. HandlesMatch' /\ held' \in SUBSET Kinds /\ driver' \in [Kinds -> Nat]
        /\ connected' \in BOOLEAN /\ link' \in {"none", "good", "broken"}
    BY <2>1 DEF handles, HandlesMatch, TypeOK
  <2>3. StatementAtHand' /\ Shape'
    BY <1>1, <2>1 DEF TroubleComes, TroublePasses, ProbeFine, Executes, ExecuteFails, FetchRow,
       FetchEnd, FetchFails, ValueThrows, Answer, ExecFailed, PingSucceeds, Call, Return, vars, handles,
       StatementAtHand, Shape, TryAgain, TypeOK, Several
  <2>4. QED
    BY <2>2, <2>3
<1>2. CASE LinkBreaks
  BY <1>2 DEF LinkBreaks, HandlesMatch, StatementAtHand, Shape, TypeOK
<1>3. CASE ExecBegins
  <2>1. UNCHANGED handles \/ Opens \/ Refused
    BY <1>3 DEF ExecBegins, Connect
  <2>2. HandlesMatch' /\ held' \in SUBSET Kinds /\ driver' \in [Kinds -> Nat]
        /\ connected' \in BOOLEAN /\ link' \in {"none", "good", "broken"}
    BY <2>1, ReconnectMatches DEF handles, HandlesMatch, TypeOK
  <2>3. /\ connected' => {"env", "hdbc"} \subseteq held' /\ known'
        /\ connected' <=> link' # "none"
    <3>1. CASE UNCHANGED handles
      BY <1>3, <3>1 DEF handles, Shape, ExecBegins
    <3>2. CASE Opens \/ Refused
      BY <1>3, <3>2, ReconnectMatches DEF ExecBegins, Connect, Shape, handles
    <3>3. QED
      BY <2>1, <3>1, <3>2
  <2>4. exec' \in {"probe", "failed"} /\ (exec' = "probe" => connected') /\ UNCHANGED proc
    BY <1>3 DEF ExecBegins, handles, TypeOK
  <2>5. proc' \notin {"idle", "answered", "gaveup"}
    BY <1>3, <2>4 DEF ExecBegins, Shape
  <2>6. QED
    BY <2>2, <2>3, <2>4, <2>5 DEF Shape, StatementAtHand
<1>4. ASSUME Reconnect, UNCHANGED known PROVE
        /\ HandlesMatch' /\ held' \in SUBSET Kinds /\ driver' \in [Kinds -> Nat]
        /\ connected' \in BOOLEAN /\ link' \in {"none", "good", "broken"}
        /\ "stmt" \notin held'
        /\ connected' => {"env", "hdbc"} \subseteq held' /\ known'
        /\ connected' <=> link' # "none"
  <2>1. Opens \/ Refused \/ Close
    BY <1>4 DEF Reconnect
  <2>2. connected' => known'
    BY <1>4 DEF Reconnect, Close
  <2>3. QED
    BY <2>1, <2>2, ReconnectMatches
<1>5. CASE ProbeDead
  BY <1>4, <1>5 DEF ProbeDead, Shape, StatementAtHand
<1>6. CASE Redo
  <2>1. "stmt" \notin held /\ UNCHANGED <<link, connected, known, proc>>
    BY <1>6 DEF Redo, Shape
  <2>2. HandlesMatch' /\ held' \in SUBSET Kinds /\ driver' \in [Kinds -> Nat]
    BY <1>6, <2>1, StatementMatches DEF Redo
  <2>3. CASE GetsStatement /\ exec' = IF exec = "redo" THEN "statement" ELSE "bind"
    <3>1. connected /\ {"env", "hdbc"} \subseteq held /\ link # "none" /\ known
      BY <2>3 DEF GetsStatement, Shape
    <3>2. held' = Kinds
      BY <2>3, <3>1 DEF GetsStatement, TypeOK, Kinds
    <3>3. StatementAtHand'
      BY <2>1, <3>1, <3>2 DEF StatementAtHand
    <3>4. exec' \in {"statement", "bind"} /\ exec # "none"
      BY <1>6, <2>3 DEF Redo
    <3>5. Shape'
      BY <2>1, <3>1, <3>2, <3>4 DEF Shape, Kinds
    <3>6. QED
      BY <2>1, <2>2, <3>3, <3>5 DEF TypeOK
  <2>4. CASE GetsNoStatement /\ exec' = "failed"
    BY <1>6, <2>1, <2>2, <2>4 DEF GetsNoStatement, Shape, StatementAtHand, TypeOK, Redo
  <2>5. QED
    BY <1>6, <2>3, <2>4 DEF Redo
<1>7. CASE Statement
  <2>1. CASE exec' = "again" /\ Reconnect
    BY <1>4, <1>7, <2>1 DEF Statement, Shape, StatementAtHand
  <2>2. CASE /\ connected /\ held' = held \union {"stmt"}
             /\ driver' = [driver EXCEPT !["stmt"] = Freed["stmt"] + 1]
             /\ exec' = "bind" /\ UNCHANGED <<link, connected>>
    <3>1. Freed["stmt"] = 0
      BY DEF Freed, HandlesMatch, TypeOK, Kinds
    <3>2. driver' \in [Kinds -> Nat] /\ held' \in SUBSET Kinds
      BY <2>2, <3>1 DEF TypeOK, Kinds
    <3>3. \A k \in Kinds : driver'[k] = IF k \in held' THEN 1 ELSE 0
      BY <2>2, <3>1 DEF HandlesMatch, TypeOK, Kinds
    <3>4. HandlesMatch'
      BY <2>2, <3>3 DEF HandlesMatch, Shape
    <3>5. UNCHANGED <<known, proc>> /\ exec = "statement"
      BY <1>7 DEF Statement
    <3>6. connected' /\ link' # "none" /\ known' /\ {"env", "hdbc"} \subseteq held'
          /\ exec' = "bind" /\ "stmt" \in held'
      BY <2>2, <3>5 DEF Shape
    <3>7. StatementAtHand'
      BY <3>2, <3>6 DEF StatementAtHand, Kinds
    <3>8. Shape'
      BY <3>5, <3>6 DEF Shape
    <3>9. QED
      BY <2>2, <3>2, <3>4, <3>7, <3>8 DEF TypeOK
  <2>3. QED
    BY <1>7, <2>1, <2>2 DEF Statement
<1>8. CASE PingFails
  BY <1>4, <1>8 DEF PingFails, Shape, StatementAtHand, TryAgain
<1>9. CASE DbConnect
  <2>1. Opens \/ Refused
    BY <1>9 DEF DbConnect
  <2>2. connected' => known'
    BY <1>9 DEF DbConnect
  <2>3. QED
    BY <1>9, <2>1, <2>2, ReconnectMatches DEF DbConnect, Shape, StatementAtHand
<1>10. CASE DbClose
  <2>1. ~connected'
    BY <1>10 DEF DbClose, Close
  <2>2. QED
    BY <1>10, <2>1, ReconnectMatches DEF DbClose, Shape, StatementAtHand
<1>11. QED
  BY <1>1, <1>2, <1>3, <1>5, <1>6, <1>7, <1>8, <1>9, <1>10
     DEF Next, Environment, Exec, Procedure

\* The rest of the types.
LEMMA TypeStep ==
  ASSUME TypeOK, HandlesMatch, StatementAtHand, Shape, [Next]_vars PROVE TypeOK'
<1> USE CountAssumption DEF TypeOK
<1>1. /\ held' \in SUBSET Kinds /\ driver' \in [Kinds -> Nat]
      /\ connected' \in BOOLEAN /\ link' \in {"none", "good", "broken"}
  BY HandleStep
<1>2. CASE TroubleComes
  <2>1. trouble' \in BOOLEAN /\ steady' \in BOOLEAN
    BY <1>2 DEF TroubleComes
  <2>2. UNCHANGED <<known, proc, exec, sqlret, call, cursor>>
    BY <1>2 DEF TroubleComes
  <2>3. QED
    BY <1>1, <2>1, <2>2 DEF call, cursor
<1>3. CASE TroublePasses
  <2>1. trouble' \in BOOLEAN /\ known' \in BOOLEAN /\ blank' \in BOOLEAN /\ steady' \in BOOLEAN
    BY <1>3 DEF TroublePasses, call, cursor
  <2>2. outs' \in Seq(Nat)
    BY <1>3 DEF TroublePasses, call, cursor
  <2>3. QED
    BY <1>1, <1>3, <2>1, <2>2 DEF TroublePasses, call, cursor
<1>4. CASE LinkBreaks
  <2>1. trouble' \in BOOLEAN /\ known' \in BOOLEAN /\ blank' \in BOOLEAN /\ steady' \in BOOLEAN
    BY <1>4 DEF LinkBreaks, call, cursor
  <2>2. outs' \in Seq(Nat)
    BY <1>4 DEF LinkBreaks, call, cursor
  <2>3. QED
    BY <1>1, <1>4, <2>1, <2>2 DEF LinkBreaks, call, cursor
<1>5. CASE ExecBegins
  BY <1>1, <1>5 DEF ExecBegins, call, cursor
<1>6. CASE ProbeFine
  BY <1>1, <1>6 DEF ProbeFine, call, cursor
<1>7. CASE ProbeDead
  BY <1>1, <1>7 DEF ProbeDead, call, cursor
<1>8. CASE Redo
  BY <1>1, <1>8 DEF Redo, call, cursor
<1>9. CASE Statement
  BY <1>1, <1>9 DEF Statement, call, cursor
<1>10. CASE Executes
  <2>1. PICK n \in 0 .. MaxRows : Runs(n)
    BY <1>10 DEF Executes
  <2>2. runs' \in Nat /\ size' \in 0 .. MaxRows /\ left' \in 0 .. MaxRows
    BY <2>1 DEF Runs
  <2>3. QED
    BY <1>1, <1>10, <2>2 DEF Executes, call
<1>11. CASE ExecuteFails
  BY <1>1, <1>11 DEF ExecuteFails, Runs, call
<1>12. CASE FetchRow
  <2>1. outs' \in Seq(Nat) /\ blank' \in BOOLEAN
    <3>1. blank' \in BOOLEAN
      BY <1>12 DEF FetchRow
    <3>2. outs' = outs \/ outs' = Append(outs, runs)
      BY <1>12 DEF FetchRow
    <3>3. QED
      BY <3>1, <3>2
  <2>2. QED
    BY <1>1, <1>12, <2>1 DEF FetchRow, call, Several
<1>13. CASE FetchEnd
  <2>1. exec' \in {"ok", "failed"} /\ sqlret' = "nodata"
    BY <1>13 DEF FetchEnd, Several
  <2>2. UNCHANGED <<trouble, known, proc, steady, call, cursor>>
    BY <1>13 DEF FetchEnd
  <2>3. QED
    BY <1>1, <2>1, <2>2 DEF call, cursor
<1>14. CASE FetchFails
  <2>1. outs' \in Seq(Nat)
    <3>1. outs' = outs \/ outs' = Append(outs, runs)
      BY <1>14 DEF FetchFails
    <3>2. Append(outs, runs) \in Seq(Nat)
      OBVIOUS
    <3>3. QED
      BY <3>1, <3>2
  <2>2. QED
    BY <1>1, <1>14, <2>1 DEF FetchFails, call, Several
<1>15. CASE Answer
  BY <1>1, <1>15 DEF Answer, call, cursor
<1>16. CASE ExecFailed
  BY <1>1, <1>16 DEF ExecFailed, cursor
<1>17. CASE PingSucceeds
  <2>1. trouble' \in BOOLEAN /\ known' \in BOOLEAN /\ blank' \in BOOLEAN /\ steady' \in BOOLEAN
    BY <1>17 DEF PingSucceeds, TryAgain, call
  <2>2. outs' \in Seq(Nat)
    BY <1>17 DEF PingSucceeds, TryAgain, call
  <2>3. QED
    BY <1>1, <1>17, <2>1, <2>2 DEF PingSucceeds, TryAgain, call
<1>18. CASE PingFails
  <2>1. trouble' \in BOOLEAN /\ known' \in BOOLEAN /\ blank' \in BOOLEAN /\ steady' \in BOOLEAN
    BY <1>18 DEF PingFails, TryAgain
  <2>2. outs' \in Seq(Nat)
    <3>1. outs' = <<>> \/ outs' = outs
      BY <1>18 DEF PingFails, TryAgain
    <3>2. <<>> \in Seq(Nat)
      OBVIOUS
    <3>3. QED
      BY <3>1, <3>2
  <2>3. QED
    BY <1>1, <1>18, <2>1, <2>2 DEF PingFails, TryAgain
<1>19. CASE Return
  <2>1. trouble' \in BOOLEAN /\ known' \in BOOLEAN /\ blank' \in BOOLEAN /\ steady' \in BOOLEAN
    BY <1>19 DEF Return
  <2>2. outs' \in Seq(Nat)
    BY <1>19 DEF Return
  <2>3. QED
    BY <1>1, <1>19, <2>1, <2>2 DEF Return
<1>20. CASE Call
  BY <1>1, <1>20 DEF Call, cursor
<1>21. CASE DbConnect
  BY <1>1, <1>21 DEF DbConnect, call, cursor
<1>22. CASE DbClose
  BY <1>1, <1>22 DEF DbClose, call, cursor
<1>23. CASE UNCHANGED vars
  BY <1>23 DEF vars, call, cursor, handles
<1>24. CASE ValueThrows
  <2>1. outs' \in Seq(Nat)
    <3>1. outs' = outs \/ outs' = Append(outs, runs)
      BY <1>24 DEF ValueThrows
    <3>2. Append(outs, runs) \in Seq(Nat)
      OBVIOUS
    <3>3. QED
      BY <3>1, <3>2
  <2>2. left' \in 0 .. MaxRows
    BY <1>24 DEF ValueThrows
  <2>3. QED
    BY <1>1, <1>24, <2>1, <2>2 DEF ValueThrows, call
<1>25. QED
  BY <1>2, <1>3, <1>4, <1>5, <1>6, <1>7, <1>8, <1>9, <1>10, <1>11, <1>12,
     <1>13, <1>14, <1>15, <1>16, <1>17, <1>18, <1>19, <1>20, <1>21, <1>22, <1>23, <1>24
     DEF Next, Environment, Exec, Procedure

\* How often the statement was run, and what the result holds of it.
LEMMA RunStep ==
  ASSUME TypeOK, Shape, RunShape, OneRunAnswered, [Next]_vars
  PROVE  RunShape' /\ OneRunAnswered'
<1> USE CountAssumption DEF TypeOK, Shape, RunShape, OneRunAnswered
<1>1. CASE Environment
  BY <1>1 DEF Environment, TroubleComes, TroublePasses, LinkBreaks, call, cursor
<1>2. CASE ExecBegins
  BY <1>2 DEF ExecBegins, call, cursor
<1>3. CASE ProbeFine \/ ProbeDead
  BY <1>3 DEF ProbeFine, ProbeDead, call, cursor
<1>4. CASE Redo
  BY <1>4 DEF Redo, call, cursor
<1>5. CASE Statement
  BY <1>5 DEF Statement, call, cursor
<1>6. CASE Executes
  <2>1. PICK n \in 0 .. MaxRows : Runs(n)
    BY <1>6 DEF Executes
  <2>2. CASE proc = "call"
    BY <1>6, <2>1, <2>2 DEF Executes, Runs, call
  <2>3. CASE proc = "ping"
    BY <1>6, <2>1, <2>3 DEF Executes, Runs, call
  <2>4. QED
    BY <1>6, <2>2, <2>3 DEF Executes
<1>7. CASE ExecuteFails
  <2>1. CASE proc = "call"
    BY <1>7, <2>1 DEF ExecuteFails, Runs, call
  <2>2. CASE proc = "ping"
    BY <1>7, <2>2 DEF ExecuteFails, Runs, call
  <2>3. QED
    BY <1>7, <2>1, <2>2 DEF ExecuteFails
<1>8. CASE FetchRow
  <2>1. CASE proc = "ping"
    BY <1>8, <2>1 DEF FetchRow, call, Several
  <2>2. CASE proc = "call" /\ kind = "single"
    <3>1. outs' = <<runs>> /\ exec' = "ok" /\ UNCHANGED <<kind, runs, proc, retry>>
      BY <1>8, <2>2 DEF FetchRow, call, Several
    <3>2. Len(outs') = 1 /\ \A i \in 1 .. Len(outs') : outs'[i] = runs
      BY <3>1
    <3>3. QED
      BY <1>8, <2>2, <3>1, <3>2 DEF FetchRow, call
  <2>3. CASE proc = "call" /\ kind = "multi"
    <3>1. outs' = Append(outs, runs) /\ exec' = "fetch" /\ left' = left - 1
          /\ exec = "fetch" /\ UNCHANGED <<kind, runs, proc, retry, size>>
      BY <1>8, <2>3 DEF FetchRow, call, Several
    <3>2. Len(outs') = Len(outs) + 1 /\ \A i \in 1 .. Len(outs') : outs'[i] = runs
      BY <2>3, <3>1
    <3>3. Len(outs') + left' = size'
      <4>1. Len(outs) + left = size /\ Len(outs) \in Nat /\ left \in Nat
        BY <2>3, <3>1
      <4>2. Len(outs') = Len(outs) + 1 /\ left' = left - 1 /\ size' = size
        BY <3>1, <3>2
      <4>3. \A a, b \in Nat : (a + 1) + (b - 1) = a + b
        OBVIOUS
      <4>4. (Len(outs) + 1) + (left - 1) = Len(outs) + left
        BY <4>1, <4>3
      <4>5. QED
        BY <4>1, <4>2, <4>4, Zenon
    <3>4. QED
      BY <2>3, <3>1, <3>2, <3>3
  <2>4. QED
    BY <1>8, <2>1, <2>2, <2>3 DEF FetchRow
<1>9. CASE FetchEnd
  BY <1>9 DEF FetchEnd, call, cursor, Several
<1>10. CASE FetchFails
  BY <1>10 DEF FetchFails, call
<1>11. CASE Answer
  BY <1>11 DEF Answer, call, cursor
<1>12. CASE ExecFailed
  BY <1>12 DEF ExecFailed, cursor
<1>13. CASE PingSucceeds \/ PingFails
  BY <1>13 DEF PingSucceeds, PingFails, TryAgain, call
<1>14. CASE Return
  BY <1>14 DEF Return
<1>15. CASE Call
  BY <1>15 DEF Call, cursor
<1>16. CASE DbConnect \/ DbClose
  BY <1>16 DEF DbConnect, DbClose, call, cursor
<1>17. CASE UNCHANGED vars
  BY <1>17 DEF vars, call, cursor
<1>18. CASE ValueThrows
  BY <1>18 DEF ValueThrows, call
<1>19. QED
  BY <1>1, <1>2, <1>3, <1>4, <1>5, <1>6, <1>7, <1>8, <1>9, <1>10, <1>11, <1>12, <1>13,
     <1>14, <1>15, <1>16, <1>17, <1>18 DEF Next, Exec, Procedure

\* Nothing fails in a call during which nothing fails, except over a
\* connection that was broken before, and then only the first time.
LEMMA SteadyStep ==
  ASSUME TypeOK, StatementAtHand, Shape, RunShape, SteadyShape, SteadyIsAnswered, [Next]_vars
  PROVE  SteadyShape' /\ SteadyIsAnswered'
<1> USE CountAssumption DEF SteadyShape, SteadyIsAnswered
<1>1. CASE TroubleComes \/ LinkBreaks \/ ValueThrows
  BY <1>1 DEF TroubleComes, LinkBreaks, ValueThrows
<1>2. CASE TroublePasses
  BY <1>2 DEF TroublePasses, handles, call, cursor
<1>3. CASE ExecBegins
  BY <1>3 DEF ExecBegins, Connect, Opens, Refused, handles, call, cursor, TypeOK, Shape
<1>4. CASE ProbeFine
  BY <1>4 DEF ProbeFine, handles, call, cursor, TypeOK
<1>5. CASE ProbeDead
  BY <1>5 DEF ProbeDead, Reconnect, Opens, Refused, CanFail, call, cursor, TypeOK, Shape
<1>6. CASE Redo
  BY <1>6 DEF Redo, GetsStatement, GetsNoStatement, CanFail, call, cursor, TypeOK, Shape
<1>7. CASE Statement
  BY <1>7 DEF Statement, Reconnect, Opens, Refused, CanFail, call, cursor, TypeOK, Shape
<1>8. CASE Executes
  <2>1. PICK n \in 0 .. MaxRows : Runs(n)
    BY <1>8 DEF Executes
  <2>2. QED
    BY <1>8, <2>1 DEF Executes, Runs, Answers, handles, call, TypeOK, Shape, RunShape
<1>9. CASE ExecuteFails
  BY <1>9 DEF ExecuteFails, Runs, CanFail, handles, call, TypeOK, Shape, RunShape
<1>10. CASE FetchRow
  BY <1>10 DEF FetchRow, Several, handles, call, TypeOK, Shape, RunShape
<1>11. CASE FetchEnd
  BY <1>11 DEF FetchEnd, HasCursor, Several, handles, call, cursor, TypeOK, Shape, RunShape
<1>12. CASE FetchFails
  BY <1>12 DEF FetchFails, HasCursor, CanFail, handles, call, TypeOK, Shape, RunShape
<1>13. CASE Answer
  BY <1>13 DEF Answer, handles, call, cursor, TypeOK, Shape
<1>14. CASE ExecFailed
  BY <1>14 DEF ExecFailed, handles, cursor, TypeOK, Shape
<1>15. CASE PingSucceeds
  BY <1>15 DEF PingSucceeds, TryAgain, handles, call, TypeOK, Shape
<1>16. CASE PingFails
  BY <1>16 DEF PingFails, TryAgain, Reconnect, Opens, Refused, call, TypeOK, Shape
<1>17. CASE Return
  BY <1>17 DEF Return
<1>18. CASE Call
  <2>1. /\ runs' = 0 /\ retry' = 1 /\ attempts' = 1 /\ proc' = "call" /\ exec' = "begin"
    BY <1>18 DEF Call, cursor, RunShape
  <2>2. steady' => ~trouble'
    BY <1>18 DEF Call
  <2>3. QED
    BY <2>1, <2>2
<1>19. CASE DbConnect \/ DbClose
  BY <1>19 DEF DbConnect, DbClose, call, cursor, TypeOK, Shape, RunShape
<1>20. CASE UNCHANGED vars
  BY <1>20 DEF vars, handles, call, cursor
<1>21. QED
  BY <1>1, <1>2, <1>3, <1>4, <1>5, <1>6, <1>7, <1>8, <1>9, <1>10, <1>11, <1>12, <1>13,
     <1>14, <1>15, <1>16, <1>17, <1>18, <1>19, <1>20 DEF Next, Environment, Exec, Procedure

THEOREM Invariance == Spec => []IInv
<1>1. ASSUME Init PROVE IInv
  <2>1. TypeOK
    <3>1. outs \in Seq(Nat) /\ driver \in [Kinds -> Nat] /\ held \in SUBSET Kinds
      BY <1>1 DEF Init
    <3>2. /\ retry \in 1 .. Retries + 1 /\ attempts \in 1 .. Reconnects + 1
          /\ left \in 0 .. MaxRows /\ size \in 0 .. MaxRows /\ runs \in Nat
      BY <1>1, CountAssumption DEF Init
    <3>3. trouble \in BOOLEAN /\ connected \in BOOLEAN /\ known \in BOOLEAN
          /\ blank \in BOOLEAN /\ steady \in BOOLEAN
      BY <1>1 DEF Init
    <3>4. QED
      BY <1>1, <3>1, <3>2, <3>3 DEF Init, TypeOK
  <2>2. HandlesMatch /\ StatementAtHand /\ Shape
    BY <1>1 DEF Init, HandlesMatch, StatementAtHand, Shape
  <2>3. RunShape /\ OneRunAnswered
    BY <1>1 DEF Init, RunShape, OneRunAnswered
  <2>4. SteadyShape /\ SteadyIsAnswered
    BY <1>1 DEF Init, SteadyShape, SteadyIsAnswered
  <2>5. QED
    BY <2>1, <2>2, <2>3, <2>4 DEF IInv
<1>2. IInv /\ [Next]_vars => IInv'
  BY HandleStep, TypeStep, RunStep, SteadyStep DEF IInv
<1>3. QED
  BY <1>1, <1>2, PTL DEF Spec

\* No handle is leaked, used after it was freed, or outlives the one it is of.
THEOREM Handles == Spec => []HandlesMatch
  BY Invariance, PTL DEF IInv

\* Statements are run over connections that were made.
THEOREM AtHand == Spec => []StatementAtHand
  BY Invariance, PTL DEF IInv

\* The database runs a statement at most _retry_count_ + 1 times for a call.
THEOREM Bounded == Spec => []RunsBounded
<1>1. IInv => RunsBounded
  BY CountAssumption DEF IInv, RunShape, RunsBounded, TypeOK
<1>2. QED
  BY <1>1, Invariance, PTL

\* What is answered is all that one run of the statement brought.
THEOREM OneRun == Spec => []OneRunAnswered
  BY Invariance, PTL DEF IInv

\* A statement is run twice only after something failed during the call.
THEOREM Repeats == Spec => []RepeatsExplained
<1>1. IInv => RepeatsExplained
  BY DEF IInv, SteadyShape, RepeatsExplained, TypeOK
<1>2. QED
  BY <1>1, Invariance, PTL

\* With the database and the values well, a call over a stale connection is answered.
THEOREM Steady == Spec => []SteadyIsAnswered
  BY Invariance, PTL DEF IInv

-----------------------------------------------------------------------------
(* The pool: OdbcPool                                                      *)

\* New handlers in a row are distinct, and as many as were asked for.
LEMMA NewcomersDistinct ==
  ASSUME NEW n \in Nat, NEW s \in Newcomers(n)
  PROVE  /\ s \in Seq(Handlers) /\ Len(s) = n /\ IsInjective(s)
         /\ ToSet(s) \subseteq Handlers \ out
         /\ IsFiniteSet(ToSet(s)) /\ Cardinality(ToSet(s)) = n
<1>1. s \in [1 .. n -> Handlers \ out] /\ DOMAIN s = 1 .. n
  BY DEF Newcomers
<1>2. \A i, j \in 1 .. n : i < j => s[i] < s[j]
  BY DEF Newcomers
<1>3. \A i \in 1 .. n : s[i] \in Nat
  BY <1>1, SizesAssumption
<1>4. IsInjective(s)
  <2>1. SUFFICES ASSUME NEW i \in 1 .. n, NEW j \in 1 .. n, s[i] = s[j], i # j
                 PROVE  FALSE
    BY <1>1 DEF IsInjective
  <2>2. CASE i < j
    BY <1>2, <1>3, <2>1, <2>2
  <2>3. CASE j < i
    BY <1>2, <1>3, <2>1, <2>3
  <2>4. QED
    BY <2>1, <2>2, <2>3
<1>5. s \in Seq(Handlers) /\ Len(s) = n
  <2>1. s \in [1 .. n -> Handlers]
    BY <1>1
  <2>2. s \in Seq(Handlers)
    BY <2>1, SeqDef
  <2>3. QED
    BY <1>1, <2>2, LenProperties
<1>6. ToSet(s) = {s[i] : i \in 1 .. n}
  BY <1>1 DEF ToSet
<1>7. ToSet(s) \subseteq Handlers \ out
  BY <1>1, <1>6
<1>8. s \in Bijection(1 .. n, ToSet(s))
  BY <1>1, <1>4, <1>6 DEF Bijection, Injection, Surjection
<1>9. IsFiniteSet(1 .. n) /\ Cardinality(1 .. n) = n
  BY FS_Interval
<1>10. IsFiniteSet(ToSet(s)) /\ Cardinality(ToSet(s)) = n
  BY <1>8, <1>9, FS_Bijection DEF ExistsBijection
<1>11. QED
  BY <1>4, <1>5, <1>7, <1>10

\* The sizes that connect() comes to.
LEMMA ClampBounds ==
  ASSUME NEW asked \in 0 .. MaxSize + 1
  PROVE  Clamp(asked) \in 1 .. MaxSize
BY SizesAssumption DEF Clamp

\* What is left of a queue from which the first was taken, and where that one went.
LEMMA HeadLeaves ==
  ASSUME NEW S, NEW s \in Seq(S), s # <<>>, IsInjective(s)
  PROVE  /\ Head(s) \in ToSet(s) /\ Tail(s) \in Seq(S) /\ Len(Tail(s)) + 1 = Len(s)
         /\ IsInjective(Tail(s)) /\ ToSet(Tail(s)) = ToSet(s) \ {Head(s)}
<1>1. /\ Len(s) \in Nat \ {0} /\ DOMAIN s = 1 .. Len(s)
      /\ Head(s) = s[1]
  BY EmptySeq, LenProperties
<1>2. /\ Tail(s) \in Seq(S) /\ Len(Tail(s)) = Len(s) - 1
      /\ \A i \in 1 .. Len(Tail(s)) : Tail(s)[i] = s[i + 1]
  BY HeadTailProperties
<1>3. DOMAIN Tail(s) = 1 .. Len(s) - 1
  BY <1>2, LenProperties
<1>4. IsInjective(Tail(s))
  <2>1. SUFFICES ASSUME NEW i \in 1 .. Len(s) - 1, NEW j \in 1 .. Len(s) - 1,
                        Tail(s)[i] = Tail(s)[j]
                 PROVE  i = j
    BY <1>3 DEF IsInjective
  <2>2. s[i + 1] = s[j + 1] /\ i + 1 \in 1 .. Len(s) /\ j + 1 \in 1 .. Len(s)
    BY <1>1, <1>2, <2>1
  <2>3. i + 1 = j + 1
    BY <1>1, <2>2 DEF IsInjective
  <2>4. QED
    BY <2>3
<1>5. ToSet(Tail(s)) = ToSet(s) \ {Head(s)}
  <2>1. \A i \in 1 .. Len(s) - 1 :
          i + 1 \in 1 .. Len(s) /\ i + 1 # 1 /\ Tail(s)[i] = s[i + 1]
    BY <1>1, <1>2
  <2>2. \A i \in 1 .. Len(s) : i # 1 => i - 1 \in 1 .. Len(s) - 1 /\ (i - 1) + 1 = i
    BY <1>1
  <2>3. \A i \in 1 .. Len(s) : i # 1 => s[i] # s[1]
    BY <1>1 DEF IsInjective
  <2>4. ToSet(Tail(s)) \subseteq ToSet(s) \ {Head(s)}
    BY <1>1, <1>3, <2>1, <2>3 DEF ToSet
  <2>5. ASSUME NEW h \in ToSet(s), h # Head(s) PROVE h \in ToSet(Tail(s))
    <3>1. PICK i \in 1 .. Len(s) : h = s[i]
      BY <1>1 DEF ToSet
    <3>2. i # 1
      BY <1>1, <2>5, <3>1
    <3>3. i - 1 \in 1 .. Len(s) - 1 /\ Tail(s)[i - 1] = s[i]
      BY <2>1, <2>2, <3>2
    <3>4. QED
      BY <1>3, <3>1, <3>3 DEF ToSet
  <2>6. QED
    BY <2>4, <2>5
<1>6. Head(s) \in ToSet(s)
  BY <1>1 DEF ToSet
<1>7. QED
  BY <1>1, <1>2, <1>4, <1>5, <1>6

\* A queue to which one was added that was not in it.
LEMMA AppendAdds ==
  ASSUME NEW S, NEW s \in Seq(S), NEW h \in S, IsInjective(s), h \notin ToSet(s)
  PROVE  /\ Append(s, h) \in Seq(S) /\ Len(Append(s, h)) = Len(s) + 1
         /\ IsInjective(Append(s, h)) /\ ToSet(Append(s, h)) = ToSet(s) \cup {h}
<1>1. Len(s) \in Nat /\ DOMAIN s = 1 .. Len(s)
  BY LenProperties
<1>2. /\ Append(s, h) \in Seq(S) /\ Len(Append(s, h)) = Len(s) + 1
      /\ \A i \in 1 .. Len(s) : Append(s, h)[i] = s[i]
      /\ Append(s, h)[Len(s) + 1] = h
  BY AppendProperties
<1>3. DOMAIN Append(s, h) = 1 .. Len(s) + 1
  BY <1>2, LenProperties
<1>4. \A i \in 1 .. Len(s) : s[i] # h
  BY <1>1 DEF ToSet
<1>5. \A i \in 1 .. Len(s) + 1 : i \in 1 .. Len(s) \/ i = Len(s) + 1
  BY <1>1
<1>6. IsInjective(Append(s, h))
  <2>1. SUFFICES ASSUME NEW i \in 1 .. Len(s) + 1, NEW j \in 1 .. Len(s) + 1,
                        Append(s, h)[i] = Append(s, h)[j]
                 PROVE  i = j
    BY <1>3 DEF IsInjective
  <2>2. CASE i \in 1 .. Len(s) /\ j \in 1 .. Len(s)
    BY <1>1, <1>2, <2>1, <2>2 DEF IsInjective
  <2>3. CASE i = Len(s) + 1 \/ j = Len(s) + 1
    BY <1>2, <1>4, <1>5, <2>1, <2>3
  <2>4. QED
    BY <1>5, <2>2, <2>3
<1>7. ToSet(Append(s, h)) = ToSet(s) \cup {h}
  <2>1. 1 .. Len(s) \subseteq 1 .. Len(s) + 1 /\ Len(s) + 1 \in 1 .. Len(s) + 1
    BY <1>1
  <2>2. QED
    BY <1>1, <1>2, <1>3, <1>5, <2>1 DEF ToSet
<1>8. QED
  BY <1>2, <1>6, <1>7

\* What becomes of the counts when the pool is filled anew.
LEMMA PoolConnectStep ==
  ASSUME PoolIInv, NEW d \in Databases, NEW asked \in 0 .. MaxSize + 1, PoolConnect(d, asked)
  PROVE  PoolIInv'
<1>1. Clamp(asked) \in 1 .. MaxSize /\ Clamp(asked) \in Nat
  BY ClampBounds, SizesAssumption
<1>2. PICK s \in Newcomers(Clamp(asked)) :
        /\ q' = s /\ counted' = ToSet(s)
        /\ base' = [h \in Handlers |-> IF h \in ToSet(s) THEN d
                                       ELSE IF h \in out THEN base[h] ELSE 0]
  BY DEF PoolConnect
<1>3. /\ s \in Seq(Handlers) /\ Len(s) = Clamp(asked) /\ IsInjective(s)
      /\ ToSet(s) \subseteq Handlers \ out
      /\ IsFiniteSet(ToSet(s)) /\ Cardinality(ToSet(s)) = Clamp(asked)
  BY <1>1, NewcomersDistinct
<1>4. /\ early' = Clamp(asked) /\ lost' = 0 /\ db' = d /\ out' = out /\ warned' = warned
      /\ spoiled' = spoiled \intersect out /\ outlived' = out
  BY DEF PoolConnect
<1>5. PoolTypeOK'
  <2>1. base' \in [Handlers -> Databases \union {0}]
    BY <1>2 DEF PoolIInv, Accounting, PoolTypeOK
  <2>2. /\ out' \in SUBSET Handlers /\ counted' \in SUBSET Handlers
        /\ warned' \in SUBSET out' /\ spoiled' \in SUBSET Alive'
        /\ outlived' \in SUBSET Alive'
    BY <1>2, <1>3, <1>4 DEF PoolIInv, Accounting, PoolTypeOK, Alive
  <2>3. q' \in Seq(Handlers) /\ Len(q') <= MaxSize /\ early' \in 0 .. MaxSize
        /\ lost' \in 0 .. MaxSize
    BY <1>1, <1>2, <1>3, <1>4, SizesAssumption
  <2>4. db' \in Databases \union {0}
    BY <1>4
  <2>5. QED
    BY <2>1, <2>2, <2>3, <2>4 DEF PoolTypeOK
<1>6. IsInjective(q') /\ InPool' \intersect out' = {} /\ counted' \subseteq Alive'
  BY <1>2, <1>3, <1>4 DEF InPool, Alive
<1>7. early' = Cardinality(counted') + lost' /\ IsFiniteSet(counted')
  BY <1>1, <1>2, <1>3, <1>4
<1>8. AnswersExplained'
  BY <1>2, <1>3, <1>4, SizesAssumption DEF AnswersExplained, Alive, InPool
<1>9. QED
  BY <1>5, <1>6, <1>7, <1>8 DEF PoolIInv, Accounting

LEMMA ConnectFailsStep ==
  ASSUME PoolIInv, NEW asked \in 0 .. MaxSize + 1, ConnectFails(asked)
  PROVE  PoolIInv'
<1>1. Clamp(asked) \in 1 .. MaxSize /\ Clamp(asked) \in Nat
  BY ClampBounds, SizesAssumption
<1>2. /\ q' = <<>> /\ early' = Clamp(asked) /\ lost' = Clamp(asked) /\ counted' = {}
      /\ spoiled' = spoiled \intersect out /\ outlived' = outlived \intersect out
      /\ UNCHANGED <<db, out, warned>>
      /\ base' = [h \in Handlers |-> IF h \in out THEN base[h] ELSE 0]
  BY DEF ConnectFails
<1>3. q' \in Seq(Handlers) /\ Len(q') = 0 /\ ToSet(q') = {} /\ IsInjective(q')
  BY <1>2 DEF ToSet, IsInjective
<1>4. PoolTypeOK'
  <2>1. base' \in [Handlers -> Databases \union {0}]
    BY <1>2 DEF PoolIInv, Accounting, PoolTypeOK
  <2>2. QED
    BY <1>1, <1>2, <1>3, <2>1, SizesAssumption
    DEF PoolIInv, Accounting, PoolTypeOK, Alive
<1>5. early' = Cardinality(counted') + lost' /\ IsFiniteSet(counted')
  BY <1>1, <1>2, FS_EmptySet
<1>6. InPool' \intersect out' = {} /\ counted' \subseteq Alive' /\ Alive' = out
  BY <1>2, <1>3 DEF InPool, Alive
<1>7. AnswersExplained'
  <2>1. \A h \in out : h \in Alive /\ h \in Handlers
    BY DEF Alive, PoolIInv, Accounting, PoolTypeOK
  <2>2. QED
    BY <1>2, <1>6, <2>1 DEF AnswersExplained, PoolIInv
<1>8. QED
  BY <1>3, <1>4, <1>5, <1>6, <1>7 DEF PoolIInv, Accounting

LEMMA AllocFromPoolStep ==
  ASSUME PoolIInv, AllocFromPool
  PROVE  PoolIInv'
<1>1. /\ q # <<>> /\ q' = Tail(q) /\ out' = out \union {Head(q)}
      /\ UNCHANGED <<early, db, base, warned, spoiled, outlived, counted, lost>>
  BY DEF AllocFromPool, kept
<1>2. q \in Seq(Handlers) /\ IsInjective(q)
  BY DEF PoolIInv, Accounting, PoolTypeOK
<1>3. /\ Head(q) \in ToSet(q) /\ q' \in Seq(Handlers) /\ Len(q') + 1 = Len(q)
      /\ IsInjective(q') /\ ToSet(q') = ToSet(q) \ {Head(q)}
  BY <1>1, <1>2, HeadLeaves
<1>4. Head(q) \in Handlers /\ Len(q') \in Nat
  BY <1>1, <1>2, <1>3, HeadTailProperties, LenProperties
<1>5. PoolTypeOK'
  <2>1. Len(q) \in Nat /\ Len(q) <= MaxSize
    BY <1>2, LenProperties DEF PoolIInv, Accounting, PoolTypeOK
  <2>2. Len(q') <= MaxSize
    BY <1>3, <1>4, <2>1, SizesAssumption
  <2>3. out' \in SUBSET Handlers
    BY <1>1, <1>4 DEF PoolIInv, Accounting, PoolTypeOK
  <2>4. Alive' = Alive
    BY <1>1, <1>3 DEF InPool, Alive
  <2>5. QED
    BY <1>1, <1>3, <2>2, <2>3, <2>4 DEF PoolIInv, Accounting, PoolTypeOK
<1>6. InPool' \intersect out' = {} /\ Alive' = Alive
  BY <1>1, <1>3 DEF InPool, Alive, PoolIInv, Accounting
<1>7. AnswersExplained'
  BY <1>1, <1>6 DEF PoolIInv, AnswersExplained
<1>8. QED
  BY <1>1, <1>3, <1>5, <1>6, <1>7 DEF PoolIInv, Accounting

\* What a handler that nobody had is made, apart from the counts.
LEMMA MadeForStep ==
  ASSUME PoolIInv, NEW h \in Fresh(Alive), MadeFor(h), UNCHANGED <<q, db, spoiled, outlived>>
  PROVE  /\ h \in Handlers /\ h \notin Alive /\ h \notin counted
         /\ base' \in [Handlers -> Databases \union {0}]
         /\ out' \in SUBSET Handlers /\ warned' \in SUBSET out'
         /\ InPool' \intersect out' = {} /\ Alive' = Alive \union {h}
         /\ AnswersExplained'
<1>1. h \in Handlers /\ h \notin Alive /\ h \notin counted
  BY DEF Fresh, PoolIInv, Accounting
<1>2. PICK d \in {0, db} :
        /\ base' = [base EXCEPT ![h] = d]
        /\ warned' = IF d = 0 THEN warned \union {h} ELSE warned
        /\ out' = out \union {h}
  BY DEF MadeFor
<1>3. /\ base \in [Handlers -> Databases \union {0}] /\ db \in Databases \union {0}
      /\ warned \in SUBSET out
  BY DEF PoolIInv, Accounting, PoolTypeOK
<1>4. base' \in [Handlers -> Databases \union {0}] /\ base'[h] = d
  BY <1>1, <1>2, <1>3
<1>5. out' \in SUBSET Handlers /\ warned' \in SUBSET out'
  BY <1>1, <1>2 DEF PoolIInv, Accounting, PoolTypeOK
<1>6. InPool' \intersect out' = {} /\ Alive' = Alive \union {h}
  BY <1>1, <1>2 DEF InPool, Alive, PoolIInv, Accounting
<1>7. \A k \in Alive : base'[k] = base[k] /\ (k \in warned' <=> k \in warned)
  BY <1>1, <1>2, <1>3
<1>8. (base'[h] = db /\ db # 0) \/ h \in warned'
  BY <1>2, <1>4
<1>9. AnswersExplained'
  BY <1>6, <1>7, <1>8 DEF AnswersExplained, PoolIInv
<1>10. QED
  BY <1>1, <1>4, <1>5, <1>6, <1>9

LEMMA AllocNewStep ==
  ASSUME PoolIInv, AllocNew
  PROVE  PoolIInv'
<1>1. PICK h \in Fresh(Alive) : MadeFor(h) /\ counted' = counted \union {h}
  BY DEF AllocNew
<1>2. early' = early + 1 /\ early < MaxSize /\ UNCHANGED <<q, db, spoiled, outlived, lost>>
  BY SizesAssumption DEF AllocNew, Refuses, PoolIInv, Accounting, PoolTypeOK
<1>3. /\ h \in Handlers /\ h \notin Alive /\ h \notin counted
      /\ base' \in [Handlers -> Databases \union {0}]
      /\ out' \in SUBSET Handlers /\ warned' \in SUBSET out'
      /\ InPool' \intersect out' = {} /\ Alive' = Alive \union {h}
      /\ AnswersExplained'
  BY <1>1, <1>2, MadeForStep
<1>4. IsFiniteSet(counted') /\ Cardinality(counted') = Cardinality(counted) + 1
  BY <1>1, <1>3, FS_AddElement DEF PoolIInv
<1>5. early' = Cardinality(counted') + lost' /\ early' \in 0 .. MaxSize
  <2>1. /\ Cardinality(counted) \in Nat /\ lost \in Nat /\ early \in Nat
        /\ early = Cardinality(counted) + lost
    BY FS_CardinalityType, SizesAssumption DEF PoolIInv, Accounting, PoolTypeOK
  <2>2. QED
    BY <1>2, <1>4, <2>1, SizesAssumption
<1>6. PoolTypeOK'
  <2>1. counted' \in SUBSET Handlers /\ spoiled' \in SUBSET Alive' /\ outlived' \in SUBSET Alive'
    BY <1>1, <1>2, <1>3 DEF PoolIInv, Accounting, PoolTypeOK
  <2>2. QED
    BY <1>2, <1>3, <1>5, <2>1 DEF PoolIInv, Accounting, PoolTypeOK
<1>7. IsInjective(q') /\ counted' \subseteq Alive'
  BY <1>1, <1>2, <1>3 DEF PoolIInv, Accounting
<1>8. QED
  BY <1>3, <1>4, <1>5, <1>6, <1>7 DEF PoolIInv, Accounting

LEMMA CompelStep ==
  ASSUME PoolIInv, Compel
  PROVE  PoolIInv'
<1>1. PICK h \in Fresh(Alive) : MadeFor(h)
  BY DEF Compel
<1>2. UNCHANGED <<q, early, db, spoiled, outlived, counted, lost>>
  BY DEF Compel
<1>3. /\ base' \in [Handlers -> Databases \union {0}]
      /\ out' \in SUBSET Handlers /\ warned' \in SUBSET out'
      /\ InPool' \intersect out' = {} /\ Alive' = Alive \union {h}
      /\ AnswersExplained'
  BY <1>1, <1>2, MadeForStep
<1>4. PoolTypeOK'
  BY <1>2, <1>3 DEF PoolIInv, Accounting, PoolTypeOK
<1>5. QED
  BY <1>2, <1>3, <1>4 DEF PoolIInv, Accounting

\* A handler that is gone counts on in early, and is lost.
LEMMA ForgetStep ==
  ASSUME PoolIInv, NEW h \in out, out' = out \ {h}, Forget(h), UNCHANGED <<q, early, db>>
  PROVE  PoolIInv'
<1>1. /\ base' = [base EXCEPT ![h] = 0]
      /\ warned' = warned \ {h} /\ spoiled' = spoiled \ {h} /\ outlived' = outlived \ {h}
      /\ counted' = counted \ {h}
      /\ lost' = lost + (IF h \in counted THEN 1 ELSE 0)
  BY DEF Forget
<1>2. /\ IsFiniteSet(counted')
      /\ Cardinality(counted') = IF h \in counted THEN Cardinality(counted) - 1
                                 ELSE Cardinality(counted)
  BY <1>1, FS_RemoveElement DEF PoolIInv
<1>3. Cardinality(counted) \in Nat /\ Cardinality(counted') \in Nat
  BY <1>2, FS_CardinalityType DEF PoolIInv
<1>4. early' = Cardinality(counted') + lost' /\ lost' \in 0 .. MaxSize
  <2>1. /\ early = Cardinality(counted) + lost /\ lost \in Nat /\ early \in 0 .. MaxSize
        /\ early' = early
    BY SizesAssumption DEF PoolIInv, Accounting, PoolTypeOK
  <2>2. QED
    BY <1>1, <1>2, <1>3, <2>1, SizesAssumption
<1>5. /\ IsInjective(q') /\ InPool' \intersect out' = {} /\ counted' \subseteq Alive'
      /\ Alive' = Alive \ {h}
  BY <1>1 DEF InPool, Alive, PoolIInv, Accounting
<1>6. PoolTypeOK'
  <2>1. base' \in [Handlers -> Databases \union {0}]
    BY <1>1 DEF PoolIInv, Accounting, PoolTypeOK
  <2>2. QED
    BY <1>1, <1>4, <1>5, <2>1 DEF PoolIInv, Accounting, PoolTypeOK
<1>7. AnswersExplained'
  <2>1. \A k \in Alive' : /\ k \in Alive /\ base'[k] = base[k]
                          /\ k \in warned' <=> k \in warned
                          /\ k \in spoiled' <=> k \in spoiled
                          /\ k \in outlived' <=> k \in outlived
    BY <1>1, <1>5 DEF PoolIInv, Accounting, PoolTypeOK
  <2>2. QED
    BY <2>1 DEF PoolIInv, AnswersExplained
<1>8. QED
  BY <1>2, <1>4, <1>5, <1>6, <1>7 DEF PoolIInv, Accounting

LEMMA ReleaseStep ==
  ASSUME PoolIInv, NEW h \in Handlers, Release(h)
  PROVE  PoolIInv'
<1>1. h \in out /\ out' = out \ {h} /\ UNCHANGED <<early, db>>
  BY DEF Release
<1>2. CASE Len(q) < MaxSize
  <2>1. /\ q' = Append(q, h) /\ warned' = warned \ {h}
        /\ spoiled' = IF h \in warned THEN spoiled \union {h} ELSE spoiled
        /\ UNCHANGED <<base, outlived, counted, lost>>
    BY <1>2 DEF Release, PutBack
  <2>2. q \in Seq(Handlers) /\ IsInjective(q) /\ h \notin ToSet(q)
    BY <1>1 DEF PoolIInv, Accounting, PoolTypeOK, InPool
  <2>3. /\ q' \in Seq(Handlers) /\ Len(q') = Len(q) + 1
        /\ IsInjective(q') /\ ToSet(q') = ToSet(q) \union {h}
    BY <2>1, <2>2, AppendAdds
  <2>4. Len(q') <= MaxSize
    BY <1>2, <2>2, <2>3, LenProperties, SizesAssumption
  <2>5. InPool' \intersect out' = {} /\ Alive' = Alive
    BY <1>1, <2>1, <2>3 DEF InPool, Alive, PoolIInv, Accounting
  <2>6. PoolTypeOK'
    <3>1. /\ warned' \in SUBSET out' /\ out' \in SUBSET Handlers
          /\ spoiled' \in SUBSET Alive' /\ outlived' \in SUBSET Alive'
      BY <1>1, <2>1, <2>5 DEF PoolIInv, Accounting, PoolTypeOK, Alive
    <3>2. QED
      BY <1>1, <2>1, <2>3, <2>4, <3>1 DEF PoolIInv, Accounting, PoolTypeOK
  <2>7. AnswersExplained'
    BY <1>1, <2>1, <2>5 DEF PoolIInv, AnswersExplained
  <2>8. QED
    BY <1>1, <2>1, <2>3, <2>5, <2>6, <2>7 DEF PoolIInv, Accounting
<1>3. CASE ~(Len(q) < MaxSize)
  <2>1. Forget(h) /\ UNCHANGED q
    BY <1>3 DEF Release
  <2>2. QED
    BY <1>1, <2>1, ForgetStep
<1>4. QED
  BY <1>2, <1>3

\* The pool accounts for its handlers, for any sizes and any number of callers.
THEOREM PoolInvariance == PoolSpec => []PoolIInv
<1>1. ASSUME PoolInit PROVE PoolIInv
  <2>1. IsInjective(q) /\ InPool = {} /\ q \in Seq(Handlers) /\ Len(q) = 0
    BY <1>1 DEF PoolInit, InPool, ToSet, IsInjective
  <2>2. PoolTypeOK
    BY <1>1, <2>1, SizesAssumption DEF PoolInit, PoolTypeOK, Alive
  <2>3. early = Cardinality(counted) + lost /\ IsFiniteSet(counted)
    BY <1>1, FS_EmptySet, SizesAssumption DEF PoolInit
  <2>4. QED
    BY <1>1, <2>1, <2>2, <2>3 DEF PoolInit, PoolIInv, Accounting, AnswersExplained, Alive
<1>2. ASSUME PoolIInv, [PoolNext]_poolVars PROVE PoolIInv'
  <2>1. CASE UNCHANGED poolVars
    BY <1>2, <2>1
    DEF poolVars, kept, PoolIInv, Accounting, AnswersExplained, PoolTypeOK, InPool, Alive
  <2>2. ASSUME NEW d \in Databases, NEW asked \in 0 .. MaxSize + 1, PoolConnect(d, asked)
        PROVE  PoolIInv'
    BY <1>2, <2>2, PoolConnectStep
  <2>3. ASSUME NEW asked \in 0 .. MaxSize + 1, ConnectFails(asked) PROVE PoolIInv'
    BY <1>2, <2>3, ConnectFailsStep
  <2>4. CASE AllocFromPool
    BY <1>2, <2>4, AllocFromPoolStep
  <2>5. CASE AllocNew
    BY <1>2, <2>5, AllocNewStep
  <2>6. CASE Compel
    BY <1>2, <2>6, CompelStep
  <2>7. ASSUME NEW h \in Handlers, Release(h) PROVE PoolIInv'
    BY <1>2, <2>7, ReleaseStep
  <2>8. ASSUME NEW h \in Handlers, Drop(h) PROVE PoolIInv'
    BY <1>2, <2>8, ForgetStep DEF Drop
  <2>9. QED
    BY <1>2, <2>1, <2>2, <2>3, <2>4, <2>5, <2>6, <2>7, <2>8 DEF PoolNext
<1>3. QED
  BY <1>1, <1>2, PTL DEF PoolSpec

\* A handler is in one place, and early is what the pool has made and lost.
THEOREM Accounted == PoolSpec => []Accounting
  BY PoolInvariance, PTL DEF PoolIInv

\* Who is given a handler as a good one gets a good one, but for the two ways in
\* which release_odbc_ptr takes back what is not.
THEOREM Answered == PoolSpec => []AnswersExplained
  BY PoolInvariance, PTL DEF PoolIInv

\* A refusal is explained by the callers and the losses, a full pool by handlers of
\* callers that went around it.
THEOREM Blame == PoolSpec => []BlameShared
<1>1. ASSUME PoolIInv PROVE BlameShared
  <2>1. /\ early = Cardinality(counted) + lost /\ early \in 0 .. MaxSize /\ lost \in Nat
        /\ Cardinality(counted) \in Nat /\ IsFiniteSet(counted)
    BY <1>1, FS_CardinalityType, SizesAssumption DEF PoolIInv, Accounting, PoolTypeOK
  <2>2. ASSUME Refuses
        PROVE  counted \subseteq out /\ Cardinality(counted) + lost = MaxSize
    <3>1. InPool = {}
      BY <2>2 DEF Refuses, InPool, ToSet
    <3>2. QED
      BY <1>1, <2>1, <2>2, <3>1, SizesAssumption DEF Refuses, PoolIInv, Accounting, Alive
  <2>3. ASSUME Len(q) = MaxSize, NEW h \in out, Alive \subseteq counted PROVE FALSE
    <3>1. IsFiniteSet(InPool) /\ Cardinality(InPool) = MaxSize
      <4>1. q \in Seq(Handlers) /\ IsInjective(q) /\ DOMAIN q = 1 .. MaxSize
        BY <1>1, <2>3, LenProperties DEF PoolIInv, Accounting, PoolTypeOK
      <4>2. q \in Bijection(1 .. MaxSize, InPool)
        BY <4>1 DEF Bijection, Injection, Surjection, InPool, ToSet
      <4>3. IsFiniteSet(1 .. MaxSize) /\ Cardinality(1 .. MaxSize) = MaxSize
        BY FS_Interval, SizesAssumption
      <4>4. QED
        BY <4>2, <4>3, FS_Bijection DEF ExistsBijection
    <3>2. h \notin InPool /\ InPool \union {h} \subseteq counted
      BY <1>1, <2>3 DEF PoolIInv, Accounting, Alive
    <3>3. Cardinality(InPool \union {h}) = MaxSize + 1
      BY <3>1, <3>2, FS_AddElement
    <3>4. Cardinality(InPool \union {h}) <= Cardinality(counted)
      BY <2>1, <3>2, FS_Subset
    <3>5. QED
      BY <2>1, <3>3, <3>4, SizesAssumption
  <2>4. QED
    BY <2>2, <2>3 DEF BlameShared
<1>2. QED
  BY <1>1, PoolInvariance, PTL
=============================================================================
