--------------------------- MODULE BridgeRpcProofs ---------------------------
(***************************************************************************)
(* Theorems of BridgeRpc, for any number of calls and faults.              *)
(***************************************************************************)
EXTENDS BridgeRpc, SequenceTheorems, TLAPS

(* What may wait in stdin: nothing is written twice.                       *)
Inputs ==
    {<<>>, <<"initialize">>, <<"eof">>, <<"initialize", "eof">>, <<"call">>, <<"call", "eof">>,
     <<"initialized", "call">>, <<"initialized", "call", "eof">>}

(* What a line in stdout says of the process that has written it.          *)
LineOK(t, s, line) ==
    /\ line \in Lines
    /\ line.id = 2 =>
          \/ line.body = "error" /\ t = "unknown"
          \/ line.body \in Answers /\ s.ran = 1 /\ s.said = line.body /\ s.pc # "tool"

(* The state of one call: its tool t, the bridge b, the process s, and the *)
(* messages i and lines o between them.                                    *)
TypesOK(t, b, s, i, o) ==
    /\ t \in Tools /\ b \in BridgeRecords /\ s \in ServerRecords
    /\ i \in Inputs /\ o \in Seq(Lines)
    /\ b.pending = IF b.pc = "init" THEN {1} ELSE IF b.pc = "call" THEN {2} ELSE {}

BridgeOK(b, s) ==
    /\ b.exited => s.pc \in {"absent", "dead"} /\ b.pc = "done"
    /\ b.pc = "idle" <=> s.pc = "none"
    /\ b.pc = "done" <=> b.result # "none"
    /\ b.closing # "no" => b.pc = "done"
    /\ b.broken => s.pc \in {"absent", "dead"}

ServerOK(t, s, i) ==
    /\ s.ran \in {0, 1}
    /\ s.pc = "tool" => s.ran = 1
    /\ s.pc = "absent" => s.ran = 0
    /\ s.ran = 1 => t # "unknown" /\ i \in {<<>>, <<"eof">>}

(* What the bridge has written, and what that lets the process do.         *)
PhaseOK(b, s, i, o) ==
    /\ b.pc = "idle" => i = <<>> /\ o = <<>> /\ s.ran = 0
    /\ b.pc = "init" => i \in {<<>>, <<"initialize">>} /\ s.ran = 0 /\ (i # <<>> => o = <<>>)
    /\ b.pc = "call" => i \in {<<>>, <<"call">>, <<"initialized", "call">>}

ResultOK(t, b, s, i) ==
    /\ b.result \in Answers => s.ran = 1 /\ s.said = b.result /\ s.pc # "tool"
    /\ b.result = "rpc_error" => t = "unknown"
    /\ b.result = "start_error" => s.pc = "absent"
    /\ b.result \in {"exited", "write_error"} => s.pc \in {"absent", "dead"}
    /\ b.result = "init_timeout" =>
          i \in {<<>>, <<"initialize">>, <<"eof">>, <<"initialize", "eof">>} /\ s.ran = 0
    /\ s.cut => b.result = "call_timeout"

CallOK(t, b, s, i, o) ==
    /\ TypesOK(t, b, s, i, o) /\ BridgeOK(b, s) /\ ServerOK(t, s, i)
    /\ PhaseOK(b, s, i, o) /\ ResultOK(t, b, s, i)
    /\ \A n \in DOMAIN o : LineOK(t, s, o[n])

BridgeInv ==
    /\ tool \in [Calls -> Tools] /\ bridge \in [Calls -> BridgeRecords]
    /\ server \in [Calls -> ServerRecords] /\ stdin \in [Calls -> Inputs]
    /\ stdout \in [Calls -> Seq(Lines)] /\ faults \in 0 .. MaxFaults
    /\ \A c \in Calls : CallOK(tool[c], bridge[c], server[c], stdin[c], stdout[c])

-----------------------------------------------------------------------------
(* Sequences                                                               *)

LEMMA InputRead ==
  ASSUME NEW i \in Inputs, i # <<>>
  PROVE  /\ Tail(i) \in Inputs
         /\ Head(i) \in {"initialize", "eof", "call", "initialized"}
         /\ Head(i) = "initialize" => Tail(i) \in {<<>>, <<"eof">>}
         /\ Head(i) = "initialized" => Tail(i) \in {<<"call">>, <<"call", "eof">>}
         /\ Head(i) = "call" => Tail(i) \in {<<>>, <<"eof">>} /\ i \in {<<"call">>, <<"call", "eof">>}
         /\ Head(i) = "eof" => Tail(i) = <<>> /\ i = <<"eof">>
         /\ i \in {<<"initialize">>, <<"call">>} => Tail(i) = <<>>
         /\ i = <<"initialize">> => Head(i) = "initialize"
         /\ i = <<"initialized", "call">> => Tail(i) = <<"call">>
         /\ i \in {<<"eof">>, <<"initialize">>, <<"initialize", "eof">>} =>
               Tail(i) \in {<<>>, <<"eof">>} /\ Head(i) \in {"initialize", "eof"}
<1>1. CASE i = <<"initialize">> BY <1>1 DEF Inputs
<1>2. CASE i = <<"eof">> BY <1>2 DEF Inputs
<1>3. CASE i = <<"initialize", "eof">> BY <1>3 DEF Inputs
<1>4. CASE i = <<"call">> BY <1>4 DEF Inputs
<1>5. CASE i = <<"call", "eof">> BY <1>5 DEF Inputs
<1>6. CASE i = <<"initialized", "call">> BY <1>6 DEF Inputs
<1>7. CASE i = <<"initialized", "call", "eof">> BY <1>7 DEF Inputs
<1> QED BY <1>1, <1>2, <1>3, <1>4, <1>5, <1>6, <1>7 DEF Inputs

LEMMA InputClosed ==
  /\ Append(<<>>, "eof") = <<"eof">>
  /\ Append(<<"initialize">>, "eof") = <<"initialize", "eof">>
  /\ Append(<<"call">>, "eof") = <<"call", "eof">>
  /\ Append(<<"initialized", "call">>, "eof") = <<"initialized", "call", "eof">>
  /\ <<>> \o <<"initialized", "call">> = <<"initialized", "call">>
<1> DEFINE S == {"initialize", "initialized", "call", "eof"}
<1>1. ASSUME NEW u \in Seq(S), NEW v \in Seq(S), Len(v) = Len(u) + 1,
             \A n \in 1 .. Len(u) : v[n] = u[n], v[Len(u) + 1] = "eof"
      PROVE  Append(u, "eof") = v
  <2>1. "eof" \in S OBVIOUS
  <2> HIDE DEF S
  <2>2. /\ Append(u, "eof") \in Seq(S) /\ Len(Append(u, "eof")) = Len(u) + 1
        /\ \A n \in 1 .. Len(u) + 1 : Append(u, "eof")[n] = v[n]
    BY <1>1, <2>1
  <2> QED BY <1>1, <2>2, SeqEqual
<1>2. <<"initialized", "call">> \in Seq(S) OBVIOUS
<1>3. Append(<<>>, "eof") = <<"eof">> OBVIOUS
<1>4. Append(<<"initialize">>, "eof") = <<"initialize", "eof">>
  <2> DEFINE u == <<"initialize">>
             v == <<"initialize", "eof">>
  <2>1. u \in Seq(S) /\ v \in Seq(S) /\ Len(u) = 1 /\ Len(v) = 2 OBVIOUS
  <2>2. v[1] = u[1] /\ v[2] = "eof" OBVIOUS
  <2> HIDE DEF S, u, v
  <2>3. /\ Len(v) = Len(u) + 1 /\ v[Len(u) + 1] = "eof"
        /\ \A n \in 1 .. Len(u) : v[n] = u[n]
    BY <2>1, <2>2
  <2>4. Append(u, "eof") = v BY <1>1, <2>1, <2>3, Zenon
  <2> QED BY <2>4 DEF u, v
<1>5. Append(<<"call">>, "eof") = <<"call", "eof">>
  <2> DEFINE u == <<"call">>
             v == <<"call", "eof">>
  <2>1. u \in Seq(S) /\ v \in Seq(S) /\ Len(u) = 1 /\ Len(v) = 2 OBVIOUS
  <2>2. v[1] = u[1] /\ v[2] = "eof" OBVIOUS
  <2> HIDE DEF S, u, v
  <2>3. /\ Len(v) = Len(u) + 1 /\ v[Len(u) + 1] = "eof"
        /\ \A n \in 1 .. Len(u) : v[n] = u[n]
    BY <2>1, <2>2
  <2>4. Append(u, "eof") = v BY <1>1, <2>1, <2>3, Zenon
  <2> QED BY <2>4 DEF u, v
<1>6. Append(<<"initialized", "call">>, "eof") = <<"initialized", "call", "eof">>
  <2> DEFINE u == <<"initialized", "call">>
             v == <<"initialized", "call", "eof">>
  <2>1. u \in Seq(S) /\ v \in Seq(S) /\ Len(u) = 2 /\ Len(v) = 3 OBVIOUS
  <2>2. v[1] = u[1] /\ v[2] = u[2] /\ v[3] = "eof" OBVIOUS
  <2> HIDE DEF S, u, v
  <2>3. /\ Len(v) = Len(u) + 1 /\ v[Len(u) + 1] = "eof"
        /\ \A n \in 1 .. Len(u) : v[n] = u[n]
    BY <2>1, <2>2
  <2>4. Append(u, "eof") = v BY <1>1, <2>1, <2>3, Zenon
  <2> QED BY <2>4 DEF u, v
<1> QED BY <1>2, <1>3, <1>4, <1>5, <1>6, ConcatEmptySeq

LEMMA LinesRead ==
  ASSUME NEW t, NEW s, NEW o \in Seq(Lines), o # <<>>, \A n \in DOMAIN o : LineOK(t, s, o[n])
  PROVE  /\ Tail(o) \in Seq(Lines) /\ LineOK(t, s, Head(o))
         /\ \A n \in DOMAIN Tail(o) : LineOK(t, s, Tail(o)[n])
<1>1. /\ Tail(o) \in Seq(Lines) /\ Head(o) = o[1] /\ 1 \in DOMAIN o
      /\ \A n \in DOMAIN Tail(o) : n + 1 \in DOMAIN o /\ Tail(o)[n] = o[n + 1]
  OBVIOUS
<1> QED BY <1>1

LEMMA LinesWritten ==
  ASSUME NEW t, NEW s, NEW o \in Seq(Lines), NEW line \in Lines, LineOK(t, s, line),
         \A n \in DOMAIN o : LineOK(t, s, o[n])
  PROVE  /\ Append(o, line) \in Seq(Lines)
         /\ \A n \in DOMAIN Append(o, line) : LineOK(t, s, Append(o, line)[n])
<1>1. \A n \in DOMAIN Append(o, line) :
         (n \in DOMAIN o /\ Append(o, line)[n] = o[n]) \/ Append(o, line)[n] = line
  OBVIOUS
<1> QED BY <1>1

-----------------------------------------------------------------------------
(* A step changes the state of one call.                                   *)
LEMMA OneCallKeeps ==
  ASSUME BridgeInv, NEW c \in Calls, NEW b, NEW s, NEW i, NEW o,
         bridge' = [bridge EXCEPT ![c] = b], server' = [server EXCEPT ![c] = s],
         stdin' = [stdin EXCEPT ![c] = i], stdout' = [stdout EXCEPT ![c] = o],
         UNCHANGED tool, faults' \in 0 .. MaxFaults, CallOK(tool[c], b, s, i, o)
  PROVE  BridgeInv'
<1>1. b \in BridgeRecords /\ s \in ServerRecords /\ i \in Inputs /\ o \in Seq(Lines)
  BY DEF CallOK, TypesOK
<1>2. \A d \in Calls : CallOK(tool'[d], bridge'[d], server'[d], stdin'[d], stdout'[d])
  <2> TAKE d \in Calls
  <2>1. CASE d = c BY <2>1 DEF BridgeInv
  <2>2. CASE d # c BY <2>2 DEF BridgeInv
  <2> QED BY <2>1, <2>2
<1>3. /\ tool' \in [Calls -> Tools] /\ bridge' \in [Calls -> BridgeRecords]
      /\ server' \in [Calls -> ServerRecords] /\ stdin' \in [Calls -> Inputs]
      /\ stdout' \in [Calls -> Seq(Lines)]
  BY <1>1 DEF BridgeInv
<1> QED BY <1>2, <1>3 DEF BridgeInv, CallOK, TypesOK, BridgeOK, ServerOK, PhaseOK, ResultOK, LineOK

LEMMA CallType ==
  ASSUME BridgeInv, NEW c \in Calls
  PROVE  /\ CallOK(tool[c], bridge[c], server[c], stdin[c], stdout[c])
         /\ bridge[c] \in BridgeRecords /\ server[c] \in ServerRecords
         /\ stdin[c] \in Inputs /\ stdout[c] \in Seq(Lines)
         /\ bridge = [bridge EXCEPT ![c] = bridge[c]] /\ server = [server EXCEPT ![c] = server[c]]
         /\ stdin = [stdin EXCEPT ![c] = stdin[c]] /\ stdout = [stdout EXCEPT ![c] = stdout[c]]
BY DEF BridgeInv

LEMMA FaultType ==
  ASSUME faults \in 0 .. MaxFaults, Fault \/ UNCHANGED faults
  PROVE  faults' \in 0 .. MaxFaults
BY BridgeAssumption DEF Fault

LEMMA BridgeInitInv == BridgeInit => BridgeInv
<1> SUFFICES ASSUME BridgeInit PROVE BridgeInv OBVIOUS
<1> DEFINE b == [pc |-> "idle", pending |-> {}, exited |-> FALSE, broken |-> FALSE,
                 closing |-> "no", result |-> "none", after |-> {}]
           s == [pc |-> "none", session |-> "none", ran |-> 0, said |-> "none", cut |-> FALSE]
<1>1. b \in BridgeRecords /\ s \in ServerRecords BY DEF BridgeRecords, ServerRecords
<1>2. <<>> \in Inputs /\ <<>> \in Seq(Lines) BY DEF Inputs
<1>3. ASSUME NEW t \in Tools PROVE CallOK(t, b, s, <<>>, <<>>)
  <2>1. TypesOK(t, b, s, <<>>, <<>>) BY <1>1, <1>2 DEF TypesOK
  <2>2. BridgeOK(b, s) BY DEF BridgeOK
  <2>3. ServerOK(t, s, <<>>) BY DEF ServerOK
  <2>4. PhaseOK(b, s, <<>>, <<>>) BY DEF PhaseOK
  <2>5. ResultOK(t, b, s, <<>>) BY DEF ResultOK, Answers
  <2> HIDE DEF b, s
  <2> QED BY <2>1, <2>2, <2>3, <2>4, <2>5 DEF CallOK
<1> HIDE DEF b, s
<1>4. /\ tool \in [Calls -> Tools] /\ bridge = [c \in Calls |-> b] /\ server = [c \in Calls |-> s]
      /\ stdin = [c \in Calls |-> <<>>] /\ stdout = [c \in Calls |-> <<>>] /\ faults = 0
  BY DEF BridgeInit, b, s
<1>5. faults \in 0 .. MaxFaults BY <1>4, BridgeAssumption
<1> QED BY <1>1, <1>2, <1>3, <1>4, <1>5 DEF BridgeInv

-----------------------------------------------------------------------------
(* The plugin                                                              *)

LEMMA SpawnKeeps ==
  ASSUME BridgeInv, NEW c \in Calls, Spawn(c)
  PROVE  BridgeInv'
<1> DEFINE b0 == bridge[c]
           s0 == server[c]
<1>1. /\ CallOK(tool[c], b0, s0, stdin[c], stdout[c]) /\ b0.pc = "idle"
      /\ b0 \in BridgeRecords /\ s0 \in ServerRecords
      /\ stdout[c] = <<>> /\ stdout' = [stdout EXCEPT ![c] = <<>>]
  BY CallType DEF Spawn, CallOK, PhaseOK
<1>2. PICK pc \in {"boot", "absent"} : server' = [server EXCEPT ![c] = [s0 EXCEPT !.pc = pc]]
  BY DEF Spawn
<1> DEFINE s == [s0 EXCEPT !.pc = pc]
           gone == pc = "absent"
           ended == {d \in Calls : bridge[d].pc = "done"}
           b == [b0 EXCEPT !.pc = "init", !.pending = {1}, !.broken = gone, !.after = ended]
<1>3. server'[c].pc = pc BY <1>1, <1>2 DEF BridgeInv, ServerRecords
<1>4. bridge' = [bridge EXCEPT ![c] = b] BY <1>3 DEF Spawn
<1>5. gone \in BOOLEAN /\ ended \in SUBSET Calls OBVIOUS
<1>6. gone <=> pc = "absent" OBVIOUS
<1> HIDE DEF gone, ended
<1>7. /\ b \in BridgeRecords /\ b.pc = "init" /\ b.pending = {1} /\ b.exited = b0.exited
      /\ b.broken = gone /\ b.closing = b0.closing /\ b.result = b0.result
  BY <1>1, <1>5 DEF BridgeRecords
<1>8. s \in ServerRecords /\ s.pc = pc /\ s.ran = s0.ran /\ s.said = s0.said /\ s.cut = s0.cut
  BY <1>1 DEF ServerRecords
<1> HIDE DEF b, s
<1>9. /\ ~b0.exited /\ b0.result = "none" /\ b0.closing = "no" /\ s0.ran = 0 /\ ~s0.cut
  BY <1>1 DEF CallOK, TypesOK, BridgeOK, PhaseOK, ResultOK, BridgeRecords
<1>10. TypesOK(tool[c], b, s, <<"initialize">>, <<>>)
  BY <1>1, <1>7, <1>8 DEF TypesOK, CallOK, Inputs
<1>11. BridgeOK(b, s) BY <1>6, <1>7, <1>8, <1>9 DEF BridgeOK
<1>12. ServerOK(tool[c], s, <<"initialize">>) BY <1>8, <1>9 DEF ServerOK
<1>13. PhaseOK(b, s, <<"initialize">>, <<>>) BY <1>7, <1>8, <1>9 DEF PhaseOK
<1>14. ResultOK(tool[c], b, s, <<"initialize">>) BY <1>7, <1>8, <1>9 DEF ResultOK, Answers
<1>15. CallOK(tool[c], b, s, <<"initialize">>, <<>>)
  BY <1>10, <1>11, <1>12, <1>13, <1>14 DEF CallOK
<1>16. server' = [server EXCEPT ![c] = s] BY <1>2 DEF s
<1>17. stdin' = [stdin EXCEPT ![c] = <<"initialize">>] /\ UNCHANGED tool
       /\ faults' \in 0 .. MaxFaults
  BY FaultType DEF Spawn, BridgeInv
<1> QED BY <1>1, <1>4, <1>15, <1>16, <1>17, OneCallKeeps

(* A call is settled once, and what it is told is so.                      *)
LEMMA SettleKeeps ==
  ASSUME BridgeInv, NEW c \in Calls, bridge[c].pc \in {"init", "call"},
         NEW result \in Answers \cup Failures, NEW exited \in BOOLEAN,
         Settle(c, result, exited), NEW o, stdout' = [stdout EXCEPT ![c] = o],
         o \in Seq(Lines), \A n \in DOMAIN o : LineOK(tool[c], server[c], o[n]),
         UNCHANGED <<tool, server, faults>>,
         exited \/ result \in {"exited", "write_error"} => server[c].pc \in {"absent", "dead"},
         result \in Answers =>
            server[c].ran = 1 /\ server[c].said = result /\ server[c].pc # "tool",
         result = "rpc_error" => tool[c] = "unknown",
         result = "start_error" => server[c].pc = "absent",
         result = "init_timeout" => bridge[c].pc = "init"
  PROVE  BridgeInv'
<1> DEFINE b0 == bridge[c]
           s == server[c]
           closing == IF exited THEN b0.closing ELSE "armed"
           b == [b0 EXCEPT !.pc = "done", !.pending = {}, !.result = result, !.exited = exited,
                           !.closing = closing]
           i == IF exited THEN stdin[c] ELSE Append(stdin[c], "eof")
<1>1. /\ CallOK(tool[c], b0, s, stdin[c], stdout[c])
      /\ b0 \in BridgeRecords /\ s \in ServerRecords
  BY CallType
<1>2. bridge' = [bridge EXCEPT ![c] = b] BY DEF Settle
<1>3. stdin' = [stdin EXCEPT ![c] = i] BY CallType DEF Settle
<1>4. closing \in {"no", "armed", "fired"} BY <1>1 DEF BridgeRecords
<1> HIDE DEF closing
<1>5. /\ b \in BridgeRecords /\ b.pc = "done" /\ b.pending = {} /\ b.result = result
      /\ b.exited = exited /\ b.broken = b0.broken
  BY <1>1, <1>4 DEF BridgeRecords
<1> HIDE DEF b
<1>6. stdin[c] \in {<<>>, <<"initialize">>, <<"call">>, <<"initialized", "call">>}
      /\ (b0.pc = "init" => stdin[c] \in {<<>>, <<"initialize">>} /\ s.ran = 0)
  BY <1>1 DEF CallOK, PhaseOK
<1>7. /\ i \in Inputs
      /\ stdin[c] \in {<<>>, <<"eof">>} => i \in {<<>>, <<"eof">>}
      /\ b0.pc = "init" =>
            i \in {<<>>, <<"initialize">>, <<"eof">>, <<"initialize", "eof">>}
  <2>1. CASE exited BY <1>6, <2>1 DEF Inputs
  <2>2. CASE ~exited
    <3>1. i = Append(stdin[c], "eof") BY <2>2
    <3> HIDE DEF i
    <3>2. CASE stdin[c] = <<>> BY <3>1, <3>2, InputClosed DEF Inputs
    <3>3. CASE stdin[c] = <<"initialize">>
      BY <3>1, <3>3, InputClosed DEF Inputs
    <3>4. CASE stdin[c] \in {<<"call">>, <<"initialized", "call">>}
      <4>1. stdin[c] \notin {<<>>, <<"initialize">>, <<"eof">>}
        <5>1. stdin[c][1] \in {"call", "initialized"} /\ Len(stdin[c]) > 0 BY <3>4
        <5>2. <<"initialize">>[1] = "initialize" /\ <<"eof">>[1] = "eof" OBVIOUS
        <5> QED BY <5>1, <5>2
      <4> QED BY <1>6, <3>1, <3>4, <4>1, InputClosed DEF Inputs
    <3> QED BY <1>6, <3>2, <3>3, <3>4
  <2> QED BY <2>1, <2>2
<1> HIDE DEF i
<1>8. ~s.cut /\ s.pc # "none" /\ result # "none"
  BY <1>1 DEF CallOK, BridgeOK, ResultOK, Answers, Failures
<1>9. TypesOK(tool[c], b, s, i, o) BY <1>1, <1>5, <1>7 DEF CallOK, TypesOK
<1>10. BridgeOK(b, s) BY <1>1, <1>5, <1>8 DEF CallOK, BridgeOK
<1>11. ServerOK(tool[c], s, i) BY <1>1, <1>7 DEF CallOK, ServerOK
<1>12. PhaseOK(b, s, i, o) BY <1>5 DEF PhaseOK
<1>13. ResultOK(tool[c], b, s, i) BY <1>5, <1>6, <1>7, <1>8 DEF ResultOK
<1>14. CallOK(tool[c], b, s, i, o) BY <1>9, <1>10, <1>11, <1>12, <1>13 DEF CallOK
<1>15. faults' \in 0 .. MaxFaults BY DEF BridgeInv
<1> HIDE DEF s
<1> QED BY <1>2, <1>3, <1>14, <1>15, CallType, OneCallKeeps DEF s

LEMMA TimeoutKeeps ==
  ASSUME BridgeInv, NEW c \in Calls, Timeout(c)
  PROVE  BridgeInv'
<1>1. CallOK(tool[c], bridge[c], server[c], stdin[c], stdout[c]) BY CallType
<1>2. bridge[c].pc \in {"init", "call"}
  BY <1>1 DEF Timeout, CallOK, TypesOK
<1> DEFINE result == IF bridge[c].pc = "init" THEN "init_timeout" ELSE "call_timeout"
<1>3. /\ result \in Failures /\ result \notin Answers
      /\ result \notin {"exited", "write_error", "rpc_error", "start_error"}
      /\ result = "init_timeout" => bridge[c].pc = "init"
  BY DEF Failures, Answers
<1>4. Settle(c, result, FALSE) /\ UNCHANGED <<tool, server, stdout, faults>> BY DEF Timeout
<1> HIDE DEF result
<1> QED BY <1>1, <1>2, <1>3, <1>4, CallType, SettleKeeps DEF CallOK

LEMMA WriteFailsKeeps ==
  ASSUME BridgeInv, NEW c \in Calls, WriteFails(c)
  PROVE  BridgeInv'
<1>1. CallOK(tool[c], bridge[c], server[c], stdin[c], stdout[c]) BY CallType
<1>2. bridge[c].pc \in {"init", "call"} /\ server[c].pc \in {"absent", "dead"}
  BY <1>1 DEF WriteFails, CallOK, TypesOK, BridgeOK
<1> DEFINE result == "write_error"
<1>3. /\ result \in Failures /\ result \notin Answers
      /\ result \notin {"rpc_error", "start_error", "init_timeout"}
  BY DEF Failures, Answers
<1>4. Settle(c, result, FALSE) /\ UNCHANGED <<tool, server, stdout, faults>>
  BY DEF WriteFails
<1> HIDE DEF result
<1> QED BY <1>1, <1>2, <1>3, <1>4, CallType, SettleKeeps DEF CallOK

LEMMA ExitEventKeeps ==
  ASSUME BridgeInv, NEW c \in Calls, ExitEvent(c)
  PROVE  BridgeInv'
<1>1. /\ CallOK(tool[c], bridge[c], server[c], stdin[c], stdout[c])
      /\ bridge[c] \in BridgeRecords /\ server[c] \in ServerRecords
  BY CallType
<1>2. server[c].pc \in {"absent", "dead"} /\ UNCHANGED <<tool, server, stdout, faults>>
  BY DEF ExitEvent, Gone
<1>3. CASE bridge[c].pending = {}
  <2> DEFINE b0 == bridge[c]
             b == [b0 EXCEPT !.exited = TRUE]
  <2>1. bridge' = [bridge EXCEPT ![c] = b] /\ UNCHANGED stdin BY <1>3 DEF ExitEvent
  <2>2. b0.pc = "done" BY <1>1, <1>2, <1>3 DEF CallOK, TypesOK, BridgeOK, BridgeRecords
  <2>3. /\ b \in BridgeRecords /\ b.pc = b0.pc /\ b.pending = b0.pending /\ b.exited
        /\ b.result = b0.result /\ b.broken = b0.broken /\ b.closing = b0.closing
    BY <1>1 DEF BridgeRecords
  <2> HIDE DEF b
  <2>4. CallOK(tool[c], b, server[c], stdin[c], stdout[c])
    BY <1>1, <1>2, <2>2, <2>3 DEF CallOK, TypesOK, BridgeOK, PhaseOK, ResultOK
  <2>5. faults' \in 0 .. MaxFaults BY <1>2 DEF BridgeInv
  <2>6. /\ server' = [server EXCEPT ![c] = server[c]] /\ stdin' = [stdin EXCEPT ![c] = stdin[c]]
        /\ stdout' = [stdout EXCEPT ![c] = stdout[c]] /\ UNCHANGED tool
    BY <1>2, <2>1, CallType
  <2> QED BY <2>1, <2>4, <2>5, <2>6, OneCallKeeps
<1>4. CASE bridge[c].pending # {}
  <2> DEFINE result == IF server[c].pc = "absent" THEN "start_error" ELSE "exited"
  <2>1. /\ result \in Failures /\ result \notin Answers
        /\ result \notin {"write_error", "rpc_error", "init_timeout"}
        /\ result = "start_error" => server[c].pc = "absent"
    BY DEF Failures, Answers
  <2>2. Settle(c, result, TRUE) BY <1>4 DEF ExitEvent
  <2> HIDE DEF result
  <2>3. bridge[c].pc \in {"init", "call"} BY <1>1, <1>4 DEF CallOK, TypesOK
  <2> QED BY <1>1, <1>2, <2>1, <2>2, <2>3, CallType, SettleKeeps DEF CallOK
<1> QED BY <1>3, <1>4

(* Nothing is told by the end of a process that was alive, or its start.   *)
LEMMA PcKeeps ==
  ASSUME NEW t, NEW b, NEW s, NEW i, NEW o, CallOK(t, b, s, i, o),
         s.pc \in {"boot", "read", "tool"}, NEW pc \in {"read", "dead"}, NEW cut \in BOOLEAN,
         cut => b.result = "call_timeout"
  PROVE  CallOK(t, b, [s EXCEPT !.pc = pc, !.cut = cut], i, o)
<1> DEFINE q == [s EXCEPT !.pc = pc, !.cut = cut]
<1>1. s \in ServerRecords BY DEF CallOK, TypesOK
<1>2. /\ q \in ServerRecords /\ q.pc = pc /\ q.ran = s.ran /\ q.said = s.said /\ q.cut = cut
  BY <1>1 DEF ServerRecords
<1> HIDE DEF q
<1>3. TypesOK(t, b, q, i, o) /\ BridgeOK(b, q) /\ ServerOK(t, q, i) /\ PhaseOK(b, q, i, o)
  BY <1>2 DEF CallOK, TypesOK, BridgeOK, ServerOK, PhaseOK
<1>4. ResultOK(t, b, q, i) BY <1>2 DEF CallOK, ResultOK
<1>5. \A n \in DOMAIN o : LineOK(t, q, o[n]) BY <1>2 DEF CallOK, LineOK
<1>6. CallOK(t, b, q, i, o) BY <1>3, <1>4, <1>5 DEF CallOK
<1> QED BY <1>6 DEF q

LEMMA CloseTimerKeeps ==
  ASSUME BridgeInv, NEW c \in Calls, CloseTimer(c)
  PROVE  BridgeInv'
<1> DEFINE b0 == bridge[c]
           s0 == server[c]
           b == [b0 EXCEPT !.closing = "fired"]
<1>1. /\ CallOK(tool[c], b0, s0, stdin[c], stdout[c])
      /\ b0 \in BridgeRecords /\ s0 \in ServerRecords /\ b0.pc = "done"
  BY CallType DEF CloseTimer, CallOK, BridgeOK
<1>2. bridge' = [bridge EXCEPT ![c] = b] BY DEF CloseTimer
<1>3. /\ b \in BridgeRecords /\ b.pc = b0.pc /\ b.pending = b0.pending /\ b.exited = b0.exited
      /\ b.result = b0.result /\ b.broken = b0.broken /\ b.closing = "fired"
  BY <1>1 DEF BridgeRecords
<1> HIDE DEF b
<1>4. CallOK(tool[c], b, s0, stdin[c], stdout[c])
  BY <1>1, <1>3 DEF CallOK, TypesOK, BridgeOK, PhaseOK, ResultOK
<1>5. /\ stdin' = [stdin EXCEPT ![c] = stdin[c]] /\ stdout' = [stdout EXCEPT ![c] = stdout[c]]
      /\ UNCHANGED tool /\ faults' \in 0 .. MaxFaults
  BY CallType DEF CloseTimer, BridgeInv
<1>6. CASE b0.exited \/ Gone(c)
  <2>1. server' = [server EXCEPT ![c] = s0] BY <1>6, CallType DEF CloseTimer
  <2> QED BY <1>2, <1>4, <1>5, <2>1, OneCallKeeps
<1>7. CASE ~b0.exited /\ ~Gone(c)
  <2> DEFINE cut == s0.pc = "tool"
             s == [s0 EXCEPT !.pc = "dead", !.cut = cut]
  <2>1. server' = [server EXCEPT ![c] = s] BY <1>7 DEF CloseTimer
  <2>2. cut \in BOOLEAN OBVIOUS
  <2>3. cut => b.result = "call_timeout"
    <3> SUFFICES ASSUME s0.pc = "tool" PROVE b0.result = "call_timeout" BY <1>3
    <3>1. b0.result \in Answers \cup Failures
      BY <1>1 DEF CallOK, BridgeOK, BridgeRecords
    <3>2. s0.ran = 1 /\ tool[c] # "unknown" BY <1>1 DEF CallOK, ServerOK
    <3>3. b0.result \notin Answers \cup {"rpc_error", "start_error", "exited", "write_error",
                                        "init_timeout"}
      BY <1>1, <3>2 DEF CallOK, ResultOK
    <3> QED BY <3>1, <3>3 DEF Failures
  <2>4. s0.pc \in {"boot", "read", "tool"}
    BY <1>1, <1>7 DEF Gone, CallOK, BridgeOK, ServerRecords
  <2> HIDE DEF cut
  <2>5. CallOK(tool[c], b, s, stdin[c], stdout[c]) BY <1>4, <2>2, <2>3, <2>4, PcKeeps
  <2> HIDE DEF s
  <2> QED BY <1>2, <1>5, <2>1, <2>5, OneCallKeeps
<1> QED BY <1>6, <1>7

LEMMA LineKeeps ==
  ASSUME BridgeInv, NEW c \in Calls, Line(c)
  PROVE  BridgeInv'
<1> DEFINE b0 == bridge[c]
           s == server[c]
           line == Head(stdout[c])
           o == Tail(stdout[c])
<1>1. /\ CallOK(tool[c], b0, s, stdin[c], stdout[c]) /\ b0 \in BridgeRecords
      /\ server' = [server EXCEPT ![c] = s] /\ stdout' = [stdout EXCEPT ![c] = o]
      /\ UNCHANGED <<tool, server, faults>> /\ faults' \in 0 .. MaxFaults
  BY CallType DEF Line, BridgeInv
<1>2. /\ stdout[c] # <<>> /\ o \in Seq(Lines) /\ LineOK(tool[c], s, line)
      /\ \A n \in DOMAIN o : LineOK(tool[c], s, o[n])
  BY <1>1, LinesRead, CallType DEF Line, CallOK
<1>3. b0.pc # "idle" /\ (b0.pc = "init" => stdin[c] = <<>>)
  BY <1>1, <1>2 DEF CallOK, PhaseOK
<1> HIDE DEF o
<1>4. CASE line.id \notin b0.pending /\ UNCHANGED <<bridge, stdin>>
  <2>1. CallOK(tool[c], b0, s, stdin[c], o)
    BY <1>1, <1>2, <1>3 DEF CallOK, TypesOK, PhaseOK
  <2>2. bridge' = [bridge EXCEPT ![c] = b0] /\ stdin' = [stdin EXCEPT ![c] = stdin[c]]
    BY <1>4, CallType
  <2> QED BY <1>1, <2>1, <2>2, OneCallKeeps
<1>5. CASE /\ line.id = 1 /\ 1 \in b0.pending
           /\ bridge' = [bridge EXCEPT ![c].pc = "call", ![c].pending = {2}, ![c].broken = Gone(c)]
           /\ stdin' = [stdin EXCEPT ![c] = @ \o <<"initialized", "call">>]
  <2> DEFINE gone == Gone(c)
             b == [b0 EXCEPT !.pc = "call", !.pending = {2}, !.broken = gone]
             i == <<"initialized", "call">>
  <2>1. b0.pc = "init" BY <1>1, <1>5 DEF CallOK, TypesOK
  <2>2. stdin' = [stdin EXCEPT ![c] = i] BY <1>3, <1>5, <2>1, InputClosed DEF BridgeInv
  <2>3. bridge' = [bridge EXCEPT ![c] = b] BY <1>5
  <2>4. gone \in BOOLEAN /\ (gone => s.pc \in {"absent", "dead"}) BY DEF Gone
  <2> HIDE DEF gone
  <2>5. /\ b \in BridgeRecords /\ b.pc = "call" /\ b.pending = {2} /\ b.exited = b0.exited
        /\ b.result = b0.result /\ b.broken = gone /\ b.closing = b0.closing
    BY <1>1, <2>4 DEF BridgeRecords
  <2> HIDE DEF b
  <2>6. b0.result = "none" /\ s.ran = 0 /\ i \in Inputs
    BY <1>1, <2>1 DEF CallOK, BridgeOK, PhaseOK, Inputs
  <2>7. PhaseOK(b, s, i, o) BY <2>5 DEF PhaseOK
  <2> HIDE DEF i
  <2>8. TypesOK(tool[c], b, s, i, o) /\ BridgeOK(b, s)
    BY <1>1, <1>2, <2>1, <2>4, <2>5, <2>6 DEF CallOK, TypesOK, BridgeOK
  <2>9. ServerOK(tool[c], s, i) BY <1>1, <2>6 DEF CallOK, ServerOK
  <2>10. ResultOK(tool[c], b, s, i) BY <1>1, <2>5, <2>6 DEF CallOK, ResultOK, Answers
  <2>11. CallOK(tool[c], b, s, i, o) BY <1>2, <2>7, <2>8, <2>9, <2>10 DEF CallOK
  <2> QED BY <1>1, <2>2, <2>3, <2>11, OneCallKeeps
<1>6. CASE /\ line.id = 2 /\ 2 \in b0.pending
           /\ Settle(c, IF line.body = "error" THEN "rpc_error" ELSE line.body, FALSE)
  <2> DEFINE result == IF line.body = "error" THEN "rpc_error" ELSE line.body
  <2>1. b0.pc = "call" BY <1>1, <1>6 DEF CallOK, TypesOK
  <2>2. \/ result = "rpc_error" /\ tool[c] = "unknown"
        \/ result \in Answers /\ s.ran = 1 /\ s.said = result /\ s.pc # "tool"
    BY <1>2, <1>6 DEF LineOK, Answers
  <2>3. Settle(c, result, FALSE) BY <1>6
  <2> HIDE DEF result
  <2>4. /\ result \in Answers \cup Failures
        /\ result \notin {"exited", "write_error", "start_error", "init_timeout"}
    BY <2>2 DEF Answers, Failures
  <2>5. "rpc_error" \notin Answers BY DEF Answers
  <2>6. /\ bridge[c].pc \in {"init", "call"} /\ stdout' = [stdout EXCEPT ![c] = o]
        /\ o \in Seq(Lines) /\ \A n \in DOMAIN o : LineOK(tool[c], server[c], o[n])
    BY <1>1, <1>2, <2>1
  <2>7. /\ result \in Answers =>
              server[c].ran = 1 /\ server[c].said = result /\ server[c].pc # "tool"
        /\ result = "rpc_error" => tool[c] = "unknown"
    BY <2>2, <2>5
  <2>8. UNCHANGED <<tool, server, faults>> BY <1>1
  <2> QED BY <2>3, <2>4, <2>6, <2>7, <2>8, SettleKeeps
<1> QED BY <1>4, <1>5, <1>6 DEF Line

-----------------------------------------------------------------------------
(* The process                                                             *)

LEMMA EndKeeps ==
  ASSUME BridgeInv, NEW c \in Calls, server[c].pc \in {"boot", "read", "tool"},
         NEW pc \in {"read", "dead"}, server' = [server EXCEPT ![c].pc = pc],
         UNCHANGED tool, bridge' = [bridge EXCEPT ![c] = bridge[c]],
         stdin' = [stdin EXCEPT ![c] = stdin[c]], stdout' = [stdout EXCEPT ![c] = stdout[c]],
         faults' \in 0 .. MaxFaults
  PROVE  BridgeInv'
<1> DEFINE s0 == server[c]
           s == [s0 EXCEPT !.pc = pc, !.cut = s0.cut]
<1>1. CallOK(tool[c], bridge[c], s0, stdin[c], stdout[c]) /\ s0 \in ServerRecords BY CallType
<1>2. s = [s0 EXCEPT !.pc = pc] BY <1>1 DEF ServerRecords
<1>3. server' = [server EXCEPT ![c] = [s0 EXCEPT !.pc = pc]] OBVIOUS
<1>4. s0.cut \in BOOLEAN /\ (s0.cut => bridge[c].result = "call_timeout")
  BY <1>1 DEF CallOK, ResultOK, ServerRecords
<1>5. CallOK(tool[c], bridge[c], s, stdin[c], stdout[c]) BY <1>1, <1>4, PcKeeps
<1> HIDE DEF s
<1>6. server' = [server EXCEPT ![c] = s] BY <1>2, <1>3
<1> QED BY <1>5, <1>6, OneCallKeeps

LEMMA BootKeeps ==
  ASSUME BridgeInv, NEW c \in Calls, Boot(c) \/ Die(c)
  PROVE  BridgeInv'
<1>1. /\ server[c].pc \in {"boot", "read", "tool"} /\ faults' \in 0 .. MaxFaults
      /\ bridge' = [bridge EXCEPT ![c] = bridge[c]] /\ stdin' = [stdin EXCEPT ![c] = stdin[c]]
      /\ stdout' = [stdout EXCEPT ![c] = stdout[c]] /\ UNCHANGED tool
  BY FaultType, CallType DEF Boot, Die, BridgeInv
<1>2. PICK pc \in {"read", "dead"} : server' = [server EXCEPT ![c].pc = pc]
  BY DEF Boot, Die
<1> QED BY <1>1, <1>2, EndKeeps

(* A message is read.                                                      *)
LEMMA ReadOK ==
  ASSUME NEW t, NEW b, NEW s, NEW i, NEW o, CallOK(t, b, s, i, o), i # <<>>
  PROVE  /\ CallOK(t, b, s, Tail(i), o) /\ b.pc # "idle"
         /\ b.pc = "init" => Head(i) = "initialize" /\ Tail(i) = <<>>
<1> DEFINE k == Tail(i)
<1>1. i \in Inputs BY DEF CallOK, TypesOK
<1>2. /\ k \in Inputs
      /\ i \in {<<"initialize">>, <<"call">>} => k = <<>>
      /\ i = <<"initialize">> => Head(i) = "initialize"
      /\ i = <<"initialized", "call">> => k = <<"call">>
      /\ i \in {<<"eof">>, <<"initialize">>, <<"initialize", "eof">>} => k \in {<<>>, <<"eof">>}
  BY <1>1, InputRead
<1> HIDE DEF k
<1>3. TypesOK(t, b, s, k, o) BY <1>2 DEF CallOK, TypesOK
<1>4. ServerOK(t, s, k) BY <1>2 DEF CallOK, ServerOK
<1>5. b.pc # "idle" /\ PhaseOK(b, s, k, o) BY <1>2 DEF CallOK, PhaseOK
<1>6. ResultOK(t, b, s, k)
  <2>1. b.result = "init_timeout" =>
           k \in {<<>>, <<"initialize">>, <<"eof">>, <<"initialize", "eof">>} /\ s.ran = 0
    BY <1>2 DEF CallOK, ResultOK
  <2> QED BY <2>1 DEF CallOK, ResultOK
<1>7. CallOK(t, b, s, k, o) BY <1>3, <1>4, <1>5, <1>6 DEF CallOK
<1>8. b.pc = "init" => i = <<"initialize">> BY DEF CallOK, PhaseOK
<1> QED BY <1>2, <1>5, <1>7, <1>8 DEF k

(* A line is written.                                                      *)
LEMMA WriteOK ==
  ASSUME NEW t, NEW b, NEW s, NEW i, NEW o, CallOK(t, b, s, i, o),
         b.pc # "idle", b.pc = "init" => i = <<>>, NEW line \in Lines, LineOK(t, s, line)
  PROVE  CallOK(t, b, s, i, Append(o, line))
<1> DEFINE p == Append(o, line)
<1>1. p \in Seq(Lines) /\ \A n \in DOMAIN p : LineOK(t, s, p[n])
  BY LinesWritten DEF CallOK, TypesOK
<1> HIDE DEF p
<1>2. TypesOK(t, b, s, i, p) /\ PhaseOK(b, s, i, p)
  BY <1>1 DEF CallOK, TypesOK, PhaseOK
<1>3. CallOK(t, b, s, i, p) BY <1>1, <1>2 DEF CallOK
<1> QED BY <1>3 DEF p

LEMMA ServeKeeps ==
  ASSUME BridgeInv, NEW c \in Calls, Serve(c)
  PROVE  BridgeInv'
<1> DEFINE t == tool[c]
           b == bridge[c]
           s0 == server[c]
           i == Tail(stdin[c])
           o0 == stdout[c]
<1>1. /\ CallOK(t, b, s0, stdin[c], o0) /\ stdin[c] # <<>> /\ s0.pc = "read"
      /\ s0 \in ServerRecords /\ stdin[c] \in Inputs
  BY CallType DEF Serve
<1>2. /\ CallOK(t, b, s0, i, o0) /\ b.pc # "idle"
      /\ b.pc = "init" => Head(stdin[c]) = "initialize" /\ i = <<>>
  BY <1>1, ReadOK
<1>3. /\ stdin' = [stdin EXCEPT ![c] = i] /\ bridge' = [bridge EXCEPT ![c] = b]
      /\ UNCHANGED tool /\ faults' \in 0 .. MaxFaults
  BY CallType DEF Serve, BridgeInv
<1>4. CASE Head(stdin[c]) = "initialized"
  <2>1. server' = [server EXCEPT ![c] = s0] /\ stdout' = [stdout EXCEPT ![c] = o0]
    BY <1>4, CallType DEF Serve
  <2> QED BY <1>2, <1>3, <2>1, OneCallKeeps
<1>5. ASSUME NEW line \in Lines, LineOK(t, s0, line), UNCHANGED server,
             stdout' = [stdout EXCEPT ![c] = Append(@, line)]
      PROVE  BridgeInv'
  <2> DEFINE o == Append(o0, line)
  <2>1. CallOK(t, b, s0, i, o) BY <1>2, <1>5, WriteOK
  <2>2. server' = [server EXCEPT ![c] = s0] /\ stdout' = [stdout EXCEPT ![c] = o]
    BY <1>5, CallType
  <2> HIDE DEF o, i
  <2> QED BY <1>3, <2>1, <2>2, OneCallKeeps
<1>6. CASE Head(stdin[c]) = "initialize"
  <2> DEFINE line == [id |-> 1, body |-> "ready"]
  <2>1. line \in Lines /\ LineOK(t, s0, line) BY DEF Lines, LineOK
  <2>2. UNCHANGED server /\ stdout' = [stdout EXCEPT ![c] = Append(@, line)]
    BY <1>6 DEF Serve, Says
  <2> HIDE DEF line
  <2> QED BY <1>5, <2>1, <2>2
<1>7. CASE Head(stdin[c]) = "call" /\ t = "unknown"
  <2> DEFINE line == [id |-> 2, body |-> "error"]
  <2>1. line \in Lines /\ LineOK(t, s0, line) BY <1>7 DEF Lines, LineOK
  <2>2. UNCHANGED server /\ stdout' = [stdout EXCEPT ![c] = Append(@, line)]
    BY <1>7 DEF Serve, Says
  <2> HIDE DEF line
  <2> QED BY <1>5, <2>1, <2>2
<1>8. CASE Head(stdin[c]) = "call" /\ t # "unknown"
  <2> DEFINE ran == s0.ran + 1
             s == [s0 EXCEPT !.pc = "tool", !.ran = ran]
  <2>1. server' = [server EXCEPT ![c] = s] /\ stdout' = [stdout EXCEPT ![c] = o0]
    BY <1>8, CallType DEF Serve
  <2>2. stdin[c] \in {<<"call">>, <<"call", "eof">>} /\ i \in {<<>>, <<"eof">>}
    BY <1>1, <1>8, InputRead
  <2>3. stdin[c] \notin {<<>>, <<"initialize">>, <<"eof">>, <<"initialize", "eof">>}
    BY <1>1, <1>8, InputRead
  <2>4. s0.ran = 0 BY <1>1, <2>3 DEF CallOK, ServerOK
  <2>5. ran = 1 /\ ran \in 0 .. 2 BY <2>4
  <2> HIDE DEF ran
  <2>6. /\ s \in ServerRecords /\ s.pc = "tool" /\ s.ran = 1 /\ s.said = s0.said
        /\ s.cut = s0.cut
    BY <1>1, <2>5 DEF ServerRecords
  <2> HIDE DEF s
  <2>7. TypesOK(t, b, s, i, o0) BY <1>2, <2>6 DEF CallOK, TypesOK
  <2>8. BridgeOK(b, s) BY <1>1, <2>6 DEF CallOK, BridgeOK
  <2>9. ServerOK(t, s, i) BY <1>8, <2>2, <2>6 DEF ServerOK
  <2>10. b.pc # "init" BY <1>2, <1>8
  <2>11. PhaseOK(b, s, i, o0) BY <1>2, <2>10 DEF CallOK, PhaseOK
  <2>12. ResultOK(t, b, s, i)
    BY <1>1, <2>3, <2>4, <2>6 DEF CallOK, ResultOK
  <2>13. \A n \in DOMAIN o0 : LineOK(t, s, o0[n])
    BY <1>2, <1>8, <2>4 DEF CallOK, LineOK
  <2>14. CallOK(t, b, s, i, o0)
    BY <2>7, <2>8, <2>9, <2>11, <2>12, <2>13 DEF CallOK
  <2> QED BY <1>3, <2>1, <2>14, OneCallKeeps
<1>9. CASE Head(stdin[c]) = "eof"
  <2> DEFINE s == [s0 EXCEPT !.pc = "dead", !.cut = s0.cut]
  <2>1. s = [s0 EXCEPT !.pc = "dead"] BY <1>1 DEF ServerRecords
  <2>2. server' = [server EXCEPT ![c] = s] /\ stdout' = [stdout EXCEPT ![c] = o0]
    BY <1>9, <2>1, CallType DEF Serve
  <2>3. s0.cut \in BOOLEAN /\ (s0.cut => b.result = "call_timeout")
    BY <1>1 DEF CallOK, ResultOK, ServerRecords
  <2>4. CallOK(t, b, s, i, o0) BY <1>1, <1>2, <2>3, PcKeeps
  <2> HIDE DEF s
  <2> QED BY <1>3, <2>2, <2>4, OneCallKeeps
<1>10. Head(stdin[c]) \in {"initialize", "eof", "call", "initialized"} BY <1>1, InputRead
<1> QED BY <1>4, <1>6, <1>7, <1>8, <1>9, <1>10

(* The handler returns: its answer is the first of the call.               *)
LEMMA FinishToolKeeps ==
  ASSUME BridgeInv, NEW c \in Calls, FinishTool(c)
  PROVE  BridgeInv'
<1> DEFINE t == tool[c]
           b == bridge[c]
           s0 == server[c]
           i == stdin[c]
           o0 == stdout[c]
           session == SessionAfter(c)
           said == AnswerOf(c)
           s == [s0 EXCEPT !.pc = "read", !.session = session, !.said = said]
           line == [id |-> 2, body |-> said]
           o == Append(o0, line)
<1>1. /\ CallOK(t, b, s0, i, o0) /\ s0 \in ServerRecords /\ s0.pc = "tool"
      /\ t \in Tools /\ s0.ran = 1 /\ t # "unknown"
  BY CallType DEF FinishTool, CallOK, TypesOK, ServerOK
<1>2. /\ bridge' = [bridge EXCEPT ![c] = b] /\ server' = [server EXCEPT ![c] = s]
      /\ stdin' = [stdin EXCEPT ![c] = i] /\ stdout' = [stdout EXCEPT ![c] = o]
      /\ UNCHANGED tool /\ faults' \in 0 .. MaxFaults
  BY CallType DEF FinishTool, Says, BridgeInv
<1>3. session \in {"none", "given", "env"} /\ said \in Answers
  <2>1. s0.session \in {"none", "given", "env"} BY <1>1 DEF ServerRecords
  <2>2. t = "configure" \/ t = "status" BY <1>1 DEF Tools
  <2>3. CASE t = "configure" BY <2>3 DEF SessionAfter, AnswerOf, Answers
  <2>4. CASE t = "status"
    <3>1. session = IF s0.session = "none" /\ EnvToken THEN "env" ELSE s0.session
      BY <2>4 DEF SessionAfter
    <3>2. said = IF session # "none" THEN session ELSE "unconfigured"
      BY <2>4 DEF AnswerOf
    <3> QED BY <2>1, <3>1, <3>2 DEF Answers
  <2> QED BY <2>2, <2>3, <2>4
<1> HIDE DEF session, said
<1>4. /\ s \in ServerRecords /\ s.pc = "read" /\ s.ran = 1 /\ s.said = said /\ s.cut = s0.cut
  BY <1>1, <1>3 DEF ServerRecords
<1>5. line \in Lines /\ line.id = 2 /\ line.body = said BY <1>3 DEF Lines
<1> HIDE DEF s, line
<1>6. TypesOK(t, b, s, i, o0) /\ ServerOK(t, s, i)
  BY <1>1, <1>4 DEF CallOK, TypesOK, ServerOK
<1>7. BridgeOK(b, s) BY <1>1, <1>4 DEF CallOK, BridgeOK
<1>8. b.pc \notin {"idle", "init"} /\ PhaseOK(b, s, i, o0)
  BY <1>1 DEF CallOK, PhaseOK
<1>9. ResultOK(t, b, s, i) BY <1>1, <1>4 DEF CallOK, ResultOK
<1>10. \A n \in DOMAIN o0 : LineOK(t, s, o0[n])
  BY <1>1 DEF CallOK, LineOK
<1>11. CallOK(t, b, s, i, o0)
  BY <1>6, <1>7, <1>8, <1>9, <1>10 DEF CallOK
<1>12. LineOK(t, s, line) BY <1>3, <1>4, <1>5 DEF LineOK
<1>13. CallOK(t, b, s, i, o) BY <1>5, <1>8, <1>11, <1>12, WriteOK
<1> HIDE DEF o
<1> QED BY <1>2, <1>13, OneCallKeeps

LEMMA BridgeStep ==
  ASSUME BridgeInv, [BridgeNext]_bridgeVars
  PROVE  BridgeInv'
<1>1. CASE BridgeNext
  <2> PICK c \in Calls :
        \/ Spawn(c) \/ ExitEvent(c) \/ Line(c) \/ Timeout(c) \/ WriteFails(c) \/ CloseTimer(c)
        \/ Boot(c) \/ Serve(c) \/ FinishTool(c) \/ Die(c)
    BY <1>1 DEF BridgeNext
  <2> QED BY SpawnKeeps, ExitEventKeeps, LineKeeps, TimeoutKeeps, WriteFailsKeeps,
             CloseTimerKeeps, BootKeeps, ServeKeeps, FinishToolKeeps
<1>2. CASE UNCHANGED bridgeVars
  BY <1>2 DEF bridgeVars, BridgeInv, CallOK, TypesOK, BridgeOK, ServerOK, PhaseOK, ResultOK, LineOK
<1> QED BY <1>1, <1>2

-----------------------------------------------------------------------------
LEMMA BridgeInvariant == BridgeSpec => []BridgeInv
<1>1. BridgeInv /\ [BridgeNext]_bridgeVars => BridgeInv' BY BridgeStep
<1> QED BY BridgeInitInv, <1>1, PTL DEF BridgeSpec

(* The bridge keeps one entry in its map while a call waits and none after *)
(* it; it knows of the end of a process only if the process has ended; and *)
(* nothing but the messages of one call ever passes.                       *)
THEOREM BridgeTypeCorrect == BridgeSpec => []BridgeTypeOK
<1>1. BridgeInv => BridgeTypeOK
  <2> SUFFICES ASSUME BridgeInv PROVE BridgeTypeOK OBVIOUS
  <2>1. Inputs \subseteq Seq(Messages)
    <3>1. /\ <<>> \in Seq(Messages) /\ <<"initialize">> \in Seq(Messages)
          /\ <<"eof">> \in Seq(Messages) /\ <<"initialize", "eof">> \in Seq(Messages)
          /\ <<"call">> \in Seq(Messages) /\ <<"call", "eof">> \in Seq(Messages)
      BY DEF Messages
    <3>2. /\ <<"initialized", "call">> \in Seq(Messages)
          /\ <<"initialized", "call", "eof">> \in Seq(Messages)
      BY DEF Messages
    <3> QED BY <3>1, <3>2, Zenon DEF Inputs
  <2>2. ASSUME NEW c \in Calls
        PROVE  /\ bridge[c].pending = (CASE bridge[c].pc = "init" -> {1}
                                         [] bridge[c].pc = "call" -> {2}
                                         [] OTHER -> {})
               /\ bridge[c].exited => server[c].pc \in {"absent", "dead"} /\ bridge[c].pc = "done"
    BY CallType DEF CallOK, TypesOK, BridgeOK
  <2> QED BY <2>1, <2>2 DEF BridgeInv, BridgeTypeOK
<1> QED BY <1>1, BridgeInvariant, PTL

(* However the events of the process interleave, a call runs its tool at   *)
(* most once, answers with what the tool said, and an early failure means  *)
(* that the tool has not run.                                              *)
THEOREM BridgeToolRunsAsTold == BridgeSpec => []ToolRunsAsTold
<1>1. BridgeInv => ToolRunsAsTold
  <2> SUFFICES ASSUME BridgeInv, NEW c \in Calls
               PROVE  /\ server[c].ran <= 1
                      /\ bridge[c].result \in Answers =>
                            server[c].ran = 1 /\ server[c].said = bridge[c].result
                      /\ bridge[c].result \in {"start_error", "init_timeout", "rpc_error"} =>
                            server[c].ran = 0
    BY DEF ToolRunsAsTold
  <2> QED BY CallType DEF CallOK, ServerOK, ResultOK
<1> QED BY <1>1, BridgeInvariant, PTL

(* The timer of close can stop a tool half way only after a call whose own *)
(* timer had run out.                                                      *)
THEOREM BridgeOnlyTimeoutsCut == BridgeSpec => []OnlyTimeoutsCutTools
<1>1. BridgeInv => OnlyTimeoutsCutTools
  BY CallType DEF OnlyTimeoutsCutTools, CallOK, ResultOK
<1> QED BY <1>1, BridgeInvariant, PTL
=============================================================================
