------------------------------ MODULE UartProofs ------------------------------
(***************************************************************************)
(* Theorems about Uart, for FIFOs of every size, any number of bytes and   *)
(* any number of tasks that print, whatever crossings of them are followed.*)
(***************************************************************************)
EXTENDS Uart, SequenceTheorems, TLAPS

-----------------------------------------------------------------------------
(* The inductive invariant *)

ReadingPCs == {"rd_avail", "rd_data", "rd_head", "rd_wrap", "rd_on", "rd_on_w"}
WritingPCs == {"wr_free", "wr_data", "wr_data_w", "wr_tail", "wr_tail_w",
               "wr_wrap", "wr_wrap_w", "wr_on", "wr_on_w"}

\* The points at which a task has stored RIE as disabled and not yet as enabled
RdMasked == ReadingPCs \cup {"rd_off_v"}

\* The points of a task that does not read
PrintPCs == WritingPCs \cup {"ready", "wr_off", "wr_off_w", "wr_off_v", "wr_on_v"}

\* Between the two halves of a step of uart_fifo_add the tail is in a local.
AddPCs == {"wr_data", "wr_data_w", "wr_tail", "wr_tail_w", "wr_wrap", "wr_wrap_w"}

\* Only the reader reads, and the counts of a uart_write that is under way
CallsOK ==
    /\ rx.head = N => At(reader, "rd_wrap")
    /\ \A t \in Tasks :
        /\ t # reader => task[t].pc \in PrintPCs
        /\ task[t].pc \in {"wr_off", "wr_off_w", "wr_off_v", "wr_free"} => task[t].left >= 1
        /\ task[t].pc \in AddPCs => 1 <= task[t].len /\ task[t].len <= task[t].left

\* While uart_write was never entered by two tasks, the tail is where the one that
\* is in it has left it.
TailOK ==
    "tx" \notin crossed =>
        /\ \A t, u \in Tasks : Writing(t) /\ Writing(u) => t = u
        /\ (\A t \in Tasks : task[t].pc \notin {"wr_wrap", "wr_wrap_w"}) => tx.tail < N
        /\ \A t \in Tasks :
            /\ task[t].pc \in {"wr_data_w", "wr_tail_w"} => task[t].idx = tx.tail
            /\ task[t].pc = "wr_wrap_w" => tx.tail = N

\* The interrupt-enable bits, and the copies of them that are yet to be stored.
\* The handler may have taken TIE away since a copy was loaded. While no copy went
\* stale by the store of another task, the bits are those of the tasks' program
\* points, and a copy is right about the bit that its task does not mean to set.
CtrlOK ==
    "ctrl" \notin crossed =>
        /\ "RIE" \in ctrl <=> task[reader].pc \notin RdMasked
        /\ TxArmed
        /\ \A t \in Tasks :
            /\ Writing(t) /\ "TIE" \in ctrl => "tx" \in crossed
            /\ task[t].pc \in {"wr_off_w", "wr_off_v", "wr_on_w", "wr_on_v"} =>
                  ("RIE" \in task[t].reg <=> "RIE" \in ctrl)
            /\ task[t].pc \in {"rd_off_w", "rd_off_v", "rd_on_w", "rd_on_v"} =>
                  /\ "TIE" \in ctrl => "TIE" \in task[t].reg
                  /\ "TIE" \in task[t].reg /\ (\E u \in Tasks : Writing(u)) => "tx" \in crossed
            /\ task[t].pc = "wr_on_v" /\ (\E u \in Tasks : Writing(u)) => "tx" \in crossed

UInv == TypeOK /\ CallsOK /\ TailOK /\ CtrlOK

\* Slot of the i-th byte from the head
Slot(f, i) == IF f.head + i - 1 >= N THEN f.head + i - 1 - N ELSE f.head + i - 1

\* Bytes that uart_read has returned and removed
Removed == IF At(reader, "rd_head") THEN Len(got) - 1 ELSE Len(got)

\* While nothing disturbed the receive FIFO: what was returned, what is in the FIFO
\* and what is in the holding register are the bytes that arrived, in order.
RxOK ==
    ~RxBroken =>
        /\ got \in Seq(Nat) /\ \A i \in 1 .. Len(got) : got[i] = i
        /\ \A i \in 1 .. FifoAvailable(rx) : rx.data[Slot(rx, i)] = Removed + i
        /\ hwrx # <<>> => hwrx[1] = Removed + FifoAvailable(rx) + 1
        /\ arrived = Removed + FifoAvailable(rx) + Len(hwrx)
        /\ task[reader].pc \in {"rd_data", "rd_head"} => FifoAvailable(rx) > 0
        /\ At(reader, "rd_head") => Len(got) > 0

\* Bytes that left the transmit FIFO
Taken == Len(sent) + Len(hwtx)

\* Likewise for the transmit FIFO. Between two steps of uart_fifo_add the byte is
\* in its slot and not yet counted, or counted and the tail not yet wrapped.
TxOK ==
    ~TxBroken =>
        /\ sent \in Seq(Nat) /\ \A i \in 1 .. Len(sent) : sent[i] = i
        /\ hwtx # <<>> => hwtx[1] = Len(sent) + 1
        /\ \A i \in 1 .. FifoAvailable(tx) : tx.data[Slot(tx, i)] = Taken + i
        /\ tx.tail = N => tx.head # 0
        /\ (\A t \in Tasks : task[t].pc \notin {"wr_tail", "wr_tail_w"}) =>
              written = Taken + FifoAvailable(tx)
        /\ \A t \in Tasks : task[t].pc \in {"wr_tail", "wr_tail_w"} =>
              /\ written = Taken + FifoAvailable(tx) + 1
              /\ tx.data[tx.tail] = written

-----------------------------------------------------------------------------
(* Steps of a task *)

TaskType == [pc : PCs, reg : SUBSET {"RIE", "TIE"}, idx : Nat, len : 0 .. MaxOut,
             left : 0 .. MaxOut, got : BOOLEAN]

RxType == [data : [0 .. N - 1 -> 0 .. MaxIn], head : 0 .. N, tail : 0 .. N - 1]
TxType == [data : [0 .. N - 1 -> Nat], head : 0 .. N - 1, tail : Nat]

\* The parts of UInv, one record of a task at a time, with the constants' types.
LEMMA UInvFacts ==
    ASSUME UInv
    PROVE  /\ TypeOK /\ CallsOK /\ TailOK /\ CtrlOK
           /\ rx \in RxType /\ tx \in TxType /\ task \in [Tasks -> TaskType]
           /\ \A t \in Tasks : task[t] \in TaskType
           /\ ctrl \subseteq {"RIE", "TIE"} /\ written \in Nat
           /\ hwrx = <<>> \/ \E b \in 1 .. MaxIn : hwrx = <<b>>
           /\ N \in Nat /\ N > 1 /\ MaxIn \in Nat /\ MaxOut \in Nat /\ reader \in Tasks
<1>1. TypeOK /\ CallsOK /\ TailOK /\ CtrlOK  BY DEF UInv
<1>2. task \in [Tasks -> TaskType]  BY <1>1 DEF TypeOK, TaskType
<1>3. rx \in RxType /\ tx \in TxType  BY <1>1 DEF TypeOK, RxType, TxType
<1>4. ctrl \subseteq {"RIE", "TIE"} /\ written \in Nat
      /\ (hwrx = <<>> \/ \E b \in 1 .. MaxIn : hwrx = <<b>>)
      BY <1>1 DEF TypeOK
<1>5. N \in Nat /\ N > 1 /\ MaxIn \in Nat /\ MaxOut \in Nat /\ reader \in Tasks
      BY UartAssumption
<1> QED  BY <1>1, <1>2, <1>3, <1>4, <1>5

\* Task t goes on with the locals r, the others stay where they are.
Moves(t, r) ==
    /\ r \in TaskType
    /\ task' = [task EXCEPT ![t] = r]

LEMMA MovesOne ==
    ASSUME task \in [Tasks -> TaskType], NEW t \in Tasks, NEW r, Moves(t, r)
    PROVE  /\ task' \in [Tasks -> TaskType]
           /\ task'[t] = r
           /\ \A u \in Tasks : u # t => task'[u] = task[u]
BY DEF Moves

LEMMA GotoMoves ==
    ASSUME task \in [Tasks -> TaskType], NEW t \in Tasks, NEW pc \in PCs, Goto(t, pc)
    PROVE  \E r : /\ Moves(t, r)
                  /\ r.pc = pc /\ r.reg = task[t].reg /\ r.idx = task[t].idx
                  /\ r.len = task[t].len /\ r.left = task[t].left
<1> DEFINE r == [task[t] EXCEPT !.pc = pc]
<1>1. /\ r \in TaskType /\ r.pc = pc /\ r.reg = task[t].reg /\ r.idx = task[t].idx
      /\ r.len = task[t].len /\ r.left = task[t].left
      BY DEF TaskType
<1>2. task' = [task EXCEPT ![t] = r]  BY DEF Goto
<1> HIDE DEF r
<1> QED  BY <1>1, <1>2 DEF Moves

\* The load of a read-modify-write of UART1Ctrl.
LEMMA LoadCtrlMoves ==
    ASSUME task \in [Tasks -> TaskType], ctrl \subseteq {"RIE", "TIE"},
           NEW t \in Tasks, NEW pc, NEW next \in PCs, LoadCtrl(t, pc, next)
    PROVE  /\ task[t].pc = pc
           /\ \E r : /\ Moves(t, r)
                     /\ r.pc = next /\ r.reg = ctrl /\ r.idx = task[t].idx
                     /\ r.len = task[t].len /\ r.left = task[t].left
<1> DEFINE r == [task[t] EXCEPT !.pc = next, !.reg = ctrl]
<1>1. /\ r \in TaskType /\ r.pc = next /\ r.reg = ctrl /\ r.idx = task[t].idx
      /\ r.len = task[t].len /\ r.left = task[t].left
      BY DEF TaskType
<1>2. task' = [task EXCEPT ![t] = r] /\ task[t].pc = pc  BY DEF LoadCtrl, At
<1> HIDE DEF r
<1> QED  BY <1>1, <1>2 DEF Moves

\* A store of it.
LEMMA StoreCtrlMoves ==
    ASSUME task \in [Tasks -> TaskType],
           NEW t \in Tasks, NEW pc, NEW next \in PCs, NEW value,
           StoreCtrl(t, pc, next, value)
    PROVE  /\ task[t].pc = pc
           /\ \E r : /\ Moves(t, r)
                     /\ r.pc = next
                     /\ next \in Copied => r.reg = task[t].reg
                     /\ next \notin {"ready", "empty"} => /\ r.len = task[t].len
                                                           /\ r.left = task[t].left
<1> DEFINE reg == IF next \in Copied THEN task[t].reg ELSE {}
           r == IF next \in {"ready", "empty"} THEN [Idle EXCEPT !.pc = next]
                ELSE [task[t] EXCEPT !.pc = next, !.reg = reg]
<1>1. r \in TaskType /\ r.pc = next /\ (next \in Copied => r.reg = task[t].reg)
      /\ (next \notin {"ready", "empty"} => r.len = task[t].len /\ r.left = task[t].left)
  <2>1. CASE next \in {"ready", "empty"}
    <3>1. r = [pc |-> next, reg |-> {}, idx |-> 0, len |-> 0, left |-> 0, got |-> FALSE]
          BY <2>1 DEF Idle
    <3>2. next \notin Copied  BY <2>1 DEF Copied
    <3>3. MaxOut \in Nat  BY UartAssumption
    <3> HIDE DEF r
    <3> QED  BY <2>1, <3>1, <3>2, <3>3 DEF TaskType
  <2>2. CASE next \notin {"ready", "empty"}
    <3>1. r = [task[t] EXCEPT !.pc = next, !.reg = reg]  BY <2>2
    <3>2. reg \in SUBSET {"RIE", "TIE"} /\ (next \in Copied => reg = task[t].reg)
          BY DEF TaskType
    <3> HIDE DEF reg, r
    <3> QED  BY <3>1, <3>2 DEF TaskType
  <2> QED  BY <2>1, <2>2
<1>2. task' = [task EXCEPT ![t] = r] /\ task[t].pc = pc
  <2>1. Leave(t, next) /\ task[t].pc = pc  BY DEF StoreCtrl, At
  <2>2. CASE next \in {"ready", "empty"}
        BY <2>1, <2>2 DEF Leave
  <2>3. CASE next \notin {"ready", "empty"}
        BY <2>1, <2>3 DEF Leave
  <2> QED  BY <2>1, <2>2, <2>3
<1> HIDE DEF r
<1> QED  BY <1>1, <1>2 DEF Moves

\* The load of the tail.
LEMMA LoadTailMoves ==
    ASSUME task \in [Tasks -> TaskType], tx.tail \in Nat,
           NEW t \in Tasks, NEW pc, NEW next \in PCs, LoadTail(t, pc, next)
    PROVE  /\ task[t].pc = pc
           /\ \E r : /\ Moves(t, r)
                     /\ r.pc = next /\ r.idx = tx.tail
                     /\ r.len = task[t].len /\ r.left = task[t].left
<1> DEFINE r == [task[t] EXCEPT !.pc = next, !.idx = tx.tail]
<1>1. /\ r \in TaskType /\ r.pc = next /\ r.idx = tx.tail
      /\ r.len = task[t].len /\ r.left = task[t].left
      BY DEF TaskType
<1>2. task' = [task EXCEPT ![t] = r] /\ task[t].pc = pc  BY DEF LoadTail, At
<1> HIDE DEF r
<1> QED  BY <1>1, <1>2 DEF Moves

LEMMA StoredMoves ==
    ASSUME task \in [Tasks -> TaskType], NEW t \in Tasks, NEW next \in PCs, Stored(t, next)
    PROVE  \E r : /\ Moves(t, r) /\ r.pc = next
                  /\ r.len = task[t].len /\ r.left = task[t].left
<1> DEFINE r == [task[t] EXCEPT !.pc = next, !.idx = 0]
<1>1. /\ r \in TaskType /\ r.pc = next
      /\ r.len = task[t].len /\ r.left = task[t].left
      BY DEF TaskType
<1>2. task' = [task EXCEPT ![t] = r]  BY DEF Stored
<1> HIDE DEF r
<1> QED  BY <1>1, <1>2 DEF Moves

LEMMA NextByteMoves ==
    ASSUME task \in [Tasks -> TaskType], MaxOut \in Nat, NEW t \in Tasks, NextByte(t),
           1 <= task[t].len, task[t].len <= task[t].left
    PROVE  \E r : /\ Moves(t, r) /\ r.pc \in {"wr_data", "wr_on"}
                  /\ r.pc = "wr_data" => 1 <= r.len /\ r.len <= r.left
<1> DEFINE pc == IF task[t].len > 1 THEN "wr_data" ELSE "wr_on"
           r == [task[t] EXCEPT !.pc = pc, !.len = @ - 1, !.left = @ - 1]
<1>1. /\ task[t].len \in 0 .. MaxOut /\ task[t].left \in 0 .. MaxOut
      /\ task[t].len - 1 \in 0 .. MaxOut /\ task[t].left - 1 \in 0 .. MaxOut
      BY DEF TaskType
<1>2. pc \in {"wr_data", "wr_on"} /\ (pc = "wr_data" => task[t].len > 1)  OBVIOUS
<1> HIDE DEF pc
<1>3. r \in TaskType /\ r.pc = pc /\ r.len = task[t].len - 1 /\ r.left = task[t].left - 1
      BY <1>1, <1>2 DEF TaskType, PCs
<1>4. r.pc = "wr_data" => 1 <= r.len /\ r.len <= r.left  BY <1>1, <1>2, <1>3
<1>5. task' = [task EXCEPT ![t] = r]  BY DEF NextByte, pc
<1> HIDE DEF r
<1> QED  BY <1>2, <1>3, <1>4, <1>5 DEF Moves

-----------------------------------------------------------------------------
(* What a step of a task keeps *)

LEMMA TypeMoves ==
    ASSUME UInv, NEW t \in Tasks, NEW r, Moves(t, r),
           UNCHANGED <<rx, tx, hwrx, hwtx, arrived, written, over>>,
           ctrl' \subseteq {"RIE", "TIE"},
           crossed \subseteq crossed', crossed' \subseteq {"ctrl", "tx", "wild"}
    PROVE  TypeOK'
<1>1. TypeOK  BY UInvFacts
<1>2. task' \in [Tasks -> TaskType]  BY UInvFacts, MovesOne
<1>3. "tx" \notin crossed' => tx'.tail <= N  BY <1>1 DEF TypeOK
<1>4. /\ rx' \in [data : [0 .. N - 1 -> 0 .. MaxIn], head : 0 .. N, tail : 0 .. N - 1]
      /\ tx' \in [data : [0 .. N - 1 -> Nat], head : 0 .. N - 1, tail : Nat]
      /\ hwrx' \in {<<>>} \cup {<<b>> : b \in 1 .. MaxIn}
      /\ hwtx' \in Seq(Nat) /\ Len(hwtx') <= 1
      /\ arrived' \in 0 .. MaxIn /\ written' \in Nat /\ over' \subseteq {"rx", "tx"}
      BY <1>1 DEF TypeOK
<1> QED  BY <1>2, <1>3, <1>4 DEF TypeOK, TaskType

LEMMA CallsMoves ==
    ASSUME UInv, NEW t \in Tasks, NEW r, Moves(t, r), rx' = rx, task[t].pc # "rd_wrap",
           t # reader => r.pc \in PrintPCs,
           r.pc \in {"wr_off", "wr_off_w", "wr_off_v", "wr_free"} => r.left >= 1,
           r.pc \in AddPCs => 1 <= r.len /\ r.len <= r.left
    PROVE  CallsOK'
<1> USE UInvFacts, MovesOne
<1>1. ASSUME NEW u \in Tasks
      PROVE  /\ u # reader => task'[u].pc \in PrintPCs
             /\ task'[u].pc \in {"wr_off", "wr_off_w", "wr_off_v", "wr_free"}
                   => task'[u].left >= 1
             /\ task'[u].pc \in AddPCs
                   => 1 <= task'[u].len /\ task'[u].len <= task'[u].left
  <2>1. CASE u = t  BY <2>1
  <2>2. CASE u # t  BY <2>2 DEF CallsOK
  <2> QED  BY <2>1, <2>2
<1>2. rx'.head = N => task'[reader].pc = "rd_wrap"  BY DEF CallsOK, At
<1> QED  BY <1>1, <1>2 DEF CallsOK, At

LEMMA TailMovesOn ==
    ASSUME UInv, NEW t \in Tasks, NEW r, Moves(t, r), tx'.tail = tx.tail,
           crossed \subseteq crossed',
           r.pc \in WritingPCs => task[t].pc \in WritingPCs,
           r.pc \notin {"wr_data_w", "wr_tail_w", "wr_wrap", "wr_wrap_w"},
           task[t].pc \notin {"wr_wrap", "wr_wrap_w"}
    PROVE  TailOK'
<1> USE UInvFacts, MovesOne
<1> SUFFICES ASSUME "tx" \notin crossed' PROVE TailOK'
    BY DEF TailOK
<1>0. "tx" \notin crossed  OBVIOUS
<1>1. ASSUME NEW u \in Tasks PROVE Writing(u)' => Writing(u)
      BY DEF Writing, WritingPCs
<1>2. \A u, v \in Tasks : Writing(u)' /\ Writing(v)' => u = v
      BY <1>0, <1>1 DEF TailOK
<1>3. (\A u \in Tasks : task'[u].pc \notin {"wr_wrap", "wr_wrap_w"}) => tx'.tail < N
  <2> SUFFICES ASSUME \A u \in Tasks : task'[u].pc \notin {"wr_wrap", "wr_wrap_w"}
      PROVE  tx'.tail < N
      OBVIOUS
  <2>1. \A u \in Tasks : task[u].pc \notin {"wr_wrap", "wr_wrap_w"}  OBVIOUS
  <2> QED  BY <2>1, <1>0 DEF TailOK
<1>4. ASSUME NEW u \in Tasks
      PROVE  /\ task'[u].pc \in {"wr_data_w", "wr_tail_w"} => task'[u].idx = tx'.tail
             /\ task'[u].pc = "wr_wrap_w" => tx'.tail = N
  <2>1. CASE u = t  BY <2>1
  <2>2. CASE u # t  BY <2>2, <1>0 DEF TailOK
  <2> QED  BY <2>1, <2>2
<1> QED  BY <1>2, <1>3, <1>4 DEF TailOK

\* A step that does not touch UART1Ctrl
LEMMA CtrlMoves ==
    ASSUME UInv, NEW t \in Tasks, NEW r, Moves(t, r), ctrl' = ctrl,
           "ctrl" \in crossed' <=> "ctrl" \in crossed, "tx" \in crossed' <=> "tx" \in crossed,
           r.pc \notin Copied, task[t].pc \notin {"wr_off_w", "wr_off_v"},
           r.pc \in WritingPCs <=> task[t].pc \in WritingPCs,
           t = reader => (r.pc \in RdMasked <=> task[t].pc \in RdMasked),
           tx' = tx \/ r.pc \in WritingPCs
    PROVE  CtrlOK'
<1> USE UInvFacts, MovesOne
<1> SUFFICES ASSUME "ctrl" \notin crossed' PROVE CtrlOK'
    BY DEF CtrlOK
<1>0. "ctrl" \notin crossed  OBVIOUS
<1>1. ASSUME NEW u \in Tasks PROVE Writing(u)' <=> Writing(u)
      BY DEF Writing, WritingPCs
<1>2. "RIE" \in ctrl' <=> task'[reader].pc \notin RdMasked
      BY <1>0 DEF CtrlOK
<1>3. TxArmed'
  <2> SUFFICES ASSUME \A u \in Tasks : /\ ~Writing(u)'
                                       /\ task'[u].pc \notin {"wr_off_w", "wr_off_v"},
                      tx'.head # tx'.tail
      PROVE  "TIE" \in ctrl'
      BY DEF TxArmed
  <2>1. tx' = tx  BY DEF Writing, WritingPCs
  <2>2. \A u \in Tasks : ~Writing(u) /\ task[u].pc \notin {"wr_off_w", "wr_off_v"}
        BY <1>1
  <2> QED  BY <2>1, <2>2, <1>0 DEF CtrlOK, TxArmed
<1>4. ASSUME NEW u \in Tasks
      PROVE  /\ Writing(u)' /\ "TIE" \in ctrl' => "tx" \in crossed'
             /\ task'[u].pc \in {"wr_off_w", "wr_off_v", "wr_on_w", "wr_on_v"} =>
                   ("RIE" \in task'[u].reg <=> "RIE" \in ctrl')
             /\ task'[u].pc \in {"rd_off_w", "rd_off_v", "rd_on_w", "rd_on_v"} =>
                   /\ "TIE" \in ctrl' => "TIE" \in task'[u].reg
                   /\ "TIE" \in task'[u].reg /\ (\E v \in Tasks : Writing(v)')
                         => "tx" \in crossed'
             /\ task'[u].pc = "wr_on_v" /\ (\E v \in Tasks : Writing(v)') => "tx" \in crossed'
  <2>1. Writing(u)' /\ "TIE" \in ctrl' => "tx" \in crossed'  BY <1>0, <1>1 DEF CtrlOK
  <2>2. CASE u = t  BY <2>1, <2>2 DEF Copied
  <2>3. CASE u # t
    <3>1. /\ task'[u] = task[u] /\ ctrl' = ctrl
          /\ "tx" \in crossed' <=> "tx" \in crossed
          BY <2>3
    <3>2. (\E v \in Tasks : Writing(v)') => (\E v \in Tasks : Writing(v))  BY <1>1
    <3> HIDE UInvFacts, MovesOne
    <3> QED  BY <3>1, <3>2, <2>1, <1>0, UInvFacts DEF CtrlOK
  <2> QED  BY <2>2, <2>3
<1> QED  BY <1>2, <1>3, <1>4 DEF CtrlOK

\* A load of UART1Ctrl: the copy is the register.
LEMMA CtrlLoaded ==
    ASSUME UInv, NEW t \in Tasks, NEW r, Moves(t, r), UNCHANGED <<tx, ctrl, crossed>>,
           r.reg = ctrl,
           <<task[t].pc, r.pc>> \in {<<"rd_off", "rd_off_w">>, <<"rd_on", "rd_on_w">>,
                                     <<"wr_off", "wr_off_w">>, <<"wr_on", "wr_on_w">>}
    PROVE  CtrlOK'
<1> USE UInvFacts, MovesOne
<1> SUFFICES ASSUME "ctrl" \notin crossed' PROVE CtrlOK'
    BY DEF CtrlOK
<1>0. "ctrl" \notin crossed  OBVIOUS
<1>1. ASSUME NEW u \in Tasks PROVE Writing(u)' <=> Writing(u)
      BY DEF Writing
<1>2. "RIE" \in ctrl' <=> task'[reader].pc \notin RdMasked
      BY <1>0 DEF CtrlOK, RdMasked, ReadingPCs
<1>3. TxArmed'
  <2> SUFFICES ASSUME \A u \in Tasks : /\ ~Writing(u)'
                                       /\ task'[u].pc \notin {"wr_off_w", "wr_off_v"},
                      tx'.head # tx'.tail
      PROVE  "TIE" \in ctrl'
      BY DEF TxArmed
  <2>2. \A u \in Tasks : ~Writing(u) /\ task[u].pc \notin {"wr_off_w", "wr_off_v"}
        BY <1>1
  <2> QED  BY <2>2, <1>0 DEF CtrlOK, TxArmed
<1>4. ASSUME NEW u \in Tasks
      PROVE  /\ Writing(u)' /\ "TIE" \in ctrl' => "tx" \in crossed'
             /\ task'[u].pc \in {"wr_off_w", "wr_off_v", "wr_on_w", "wr_on_v"} =>
                   ("RIE" \in task'[u].reg <=> "RIE" \in ctrl')
             /\ task'[u].pc \in {"rd_off_w", "rd_off_v", "rd_on_w", "rd_on_v"} =>
                   /\ "TIE" \in ctrl' => "TIE" \in task'[u].reg
                   /\ "TIE" \in task'[u].reg /\ (\E v \in Tasks : Writing(v)')
                         => "tx" \in crossed'
             /\ task'[u].pc = "wr_on_v" /\ (\E v \in Tasks : Writing(v)') => "tx" \in crossed'
  <2>1. \A v \in Tasks : Writing(v)' /\ "TIE" \in ctrl' => "tx" \in crossed'
        BY <1>0, <1>1 DEF CtrlOK
  <2>2. CASE u = t  BY <2>1, <2>2
  <2>3. CASE u # t
    <3>1. task'[u] = task[u] /\ ctrl' = ctrl /\ crossed' = crossed  BY <2>3
    <3>2. (\E v \in Tasks : Writing(v)') => (\E v \in Tasks : Writing(v))  BY <1>1
    <3> HIDE UInvFacts, MovesOne
    <3> QED  BY <3>1, <3>2, <2>1, <1>0, UInvFacts DEF CtrlOK
  <2> QED  BY <2>2, <2>3
<1> QED  BY <1>2, <1>3, <1>4 DEF CtrlOK

\* The eight stores of UART1Ctrl: where from, where to, and what
StoreRow(t, pc, next, value) ==
    \/ pc = "rd_off_w" /\ next = "rd_off_v" /\ value = task[t].reg \ {"RIE"}
    \/ pc = "rd_off_v" /\ next = "rd_avail" /\ value = task[t].reg \ {"RIE"}
    \/ pc = "rd_on_w" /\ next = "rd_on_v" /\ value = task[t].reg \cup {"RIE"}
    \/ pc = "rd_on_v" /\ next \in {"ready", "empty"} /\ value = task[t].reg \cup {"RIE"}
    \/ pc = "wr_off_w" /\ next = "wr_off_v" /\ value = task[t].reg \ {"TIE"}
    \/ pc = "wr_off_v" /\ next = "wr_free" /\ value = task[t].reg \ {"TIE"}
    \/ pc = "wr_on_w" /\ next = "wr_on_v" /\ value = task[t].reg \cup {"TIE"}
    \/ pc = "wr_on_v" /\ next = (IF task[t].left > 0 THEN "wr_off" ELSE "ready")
          /\ value = task[t].reg \cup {"TIE"}

LEMMA Stores ==
    ASSUME NEW t,
           ReadOffStore(t) \/ ReadOnStore(t) \/ WriteOffStore(t) \/ WriteOnStore(t)
    PROVE  \E pc, next, value : StoreRow(t, pc, next, value) /\ StoreCtrl(t, pc, next, value)
<1>1. CASE ReadOffStore(t)   BY <1>1 DEF ReadOffStore, StoreRow
<1>2. CASE ReadOnStore(t)
  <2> DEFINE end == IF task[t].got THEN "ready" ELSE "empty"
  <2>1. end \in {"ready", "empty"}  OBVIOUS
  <2>2. \/ StoreCtrl(t, "rd_on_w", "rd_on_v", task[t].reg \cup {"RIE"})
        \/ StoreCtrl(t, "rd_on_v", end, task[t].reg \cup {"RIE"})
        BY <1>2 DEF ReadOnStore
  <2> HIDE DEF end
  <2> QED  BY <2>1, <2>2 DEF StoreRow
<1>3. CASE WriteOffStore(t)  BY <1>3 DEF WriteOffStore, StoreRow
<1>4. CASE WriteOnStore(t)   BY <1>4 DEF WriteOnStore, StoreRow
<1> QED  BY <1>1, <1>2, <1>3, <1>4

\* What UART1Ctrl is after a store by t, and where t and the others are. Unless the
\* store crosses another task there, no other task holds a copy of the register.
LEMMA CtrlStored ==
    ASSUME UInv, NEW t \in Tasks, NEW r, Moves(t, r), NEW next, NEW value,
           StoreRow(t, task[t].pc, next, value), r.pc = next,
           next \in Copied => r.reg = task[t].reg,
           tx' = tx, ctrl' = value, crossed' = crossed \cup Crossing(t, next)
    PROVE  CtrlOK'
<1> USE UInvFacts, MovesOne
<1> SUFFICES ASSUME "ctrl" \notin crossed' PROVE CtrlOK'
    BY DEF CtrlOK
<1>0. /\ "ctrl" \notin crossed
      /\ \A u \in Tasks : u # t => task[u].pc \notin Copied
      BY DEF Crossing, Holding
<1>1. \A u \in Tasks : u # t => (Writing(u)' <=> Writing(u)) /\ task'[u] = task[u]
      BY DEF Writing
<1>2. ASSUME NEW u \in Tasks, u # t, Writing(u), next = "wr_free" PROVE "tx" \in crossed'
      BY <1>2 DEF Crossing
<1>3. "RIE" \in ctrl' <=> task'[reader].pc \notin RdMasked
  <2>1. CASE t = reader
        BY <2>1, <1>0 DEF CtrlOK, StoreRow, RdMasked, ReadingPCs, CallsOK
  <2>2. CASE t # reader
    <3>1. task[t].pc \in {"wr_off_w", "wr_off_v", "wr_on_w", "wr_on_v"}
          BY <2>2 DEF CallsOK, StoreRow, PrintPCs, WritingPCs
    <3>2. "RIE" \in task[t].reg <=> "RIE" \in ctrl  BY <3>1, <1>0 DEF CtrlOK
    <3>3. "RIE" \in value <=> "RIE" \in task[t].reg  BY <3>1 DEF StoreRow
    <3>4. task'[reader] = task[reader]  BY <2>2
    <3> QED  BY <3>2, <3>3, <3>4, <1>0 DEF CtrlOK
  <2> QED  BY <2>1, <2>2
<1>4. \A u \in Tasks : Writing(u)' /\ "TIE" \in ctrl' => "tx" \in crossed'
  <2> SUFFICES ASSUME NEW u \in Tasks, Writing(u)', "TIE" \in value PROVE "tx" \in crossed'
      OBVIOUS
  <2>1. CASE u = t
    <3>1. task[t].pc \in {"rd_off_v"} \/ next = "wr_free"
          BY <2>1 DEF Writing, StoreRow
    <3> QED  BY <2>1, <3>1 DEF StoreRow, Writing
  <2>2. CASE u # t
    <3>1. Writing(u)  BY <2>2, <1>1
    <3>2. CASE task[t].pc \in {"rd_off_w", "rd_off_v", "rd_on_w", "rd_on_v"}
      <4>1. "TIE" \in task[t].reg  BY <3>2 DEF StoreRow
      <4> QED  BY <4>1, <3>1, <3>2, <1>0 DEF CtrlOK
    <3>3. CASE task[t].pc \in {"wr_off_w", "wr_off_v"}  BY <3>3 DEF StoreRow
    <3>4. CASE task[t].pc = "wr_on_v"  BY <3>1, <3>4, <1>0 DEF CtrlOK
    <3>5. CASE task[t].pc = "wr_on_w"
      <4>1. Writing(t)  BY <3>5 DEF Writing
      <4> QED  BY <4>1, <3>1, <2>2 DEF TailOK
    <3> QED  BY <3>2, <3>3, <3>4, <3>5 DEF StoreRow
  <2> QED  BY <2>1, <2>2
<1>5. TxArmed'
  <2> SUFFICES ASSUME \A u \in Tasks : /\ ~Writing(u)'
                                       /\ task'[u].pc \notin {"wr_off_w", "wr_off_v"},
                      tx'.head # tx'.tail
      PROVE  "TIE" \in value
      BY DEF TxArmed
  <2>1. next \notin {"wr_off_v", "wr_free"}  BY DEF Writing
  <2>2. CASE task[t].pc \in {"wr_on_w", "wr_on_v"}  BY <2>2 DEF StoreRow
  <2>3. CASE task[t].pc \in {"rd_off_w", "rd_off_v", "rd_on_w", "rd_on_v"}
    <3>1. \A u \in Tasks : ~Writing(u) /\ task[u].pc \notin {"wr_off_w", "wr_off_v"}
          BY <1>1, <2>3 DEF Writing
    <3>2. "TIE" \in ctrl  BY <3>1, <1>0 DEF CtrlOK, TxArmed
    <3>3. "TIE" \in task[t].reg  BY <3>2, <2>3, <1>0 DEF CtrlOK
    <3> QED  BY <3>3, <2>3 DEF StoreRow
  <2> QED  BY <2>1, <2>2, <2>3 DEF StoreRow
<1>6. ASSUME NEW u \in Tasks
      PROVE  /\ task'[u].pc \in {"wr_off_w", "wr_off_v", "wr_on_w", "wr_on_v"} =>
                   ("RIE" \in task'[u].reg <=> "RIE" \in ctrl')
             /\ task'[u].pc \in {"rd_off_w", "rd_off_v", "rd_on_w", "rd_on_v"} =>
                   /\ "TIE" \in ctrl' => "TIE" \in task'[u].reg
                   /\ "TIE" \in task'[u].reg /\ (\E v \in Tasks : Writing(v)')
                         => "tx" \in crossed'
             /\ task'[u].pc = "wr_on_v" /\ (\E v \in Tasks : Writing(v)') => "tx" \in crossed'
  <2>1. CASE u # t
    <3>1. task'[u].pc \notin Copied  BY <2>1, <1>0
    <3> QED  BY <3>1 DEF Copied
  <2>2. CASE u = t
    <3>1. r.pc \in {"wr_off_w", "wr_off_v", "wr_on_w", "wr_on_v"} =>
             ("RIE" \in r.reg <=> "RIE" \in value)
          BY DEF StoreRow, Copied
    <3>2. r.pc \in {"rd_off_w", "rd_off_v", "rd_on_w", "rd_on_v"} =>
             ("TIE" \in r.reg <=> "TIE" \in value)
          BY DEF StoreRow, Copied
    <3>3. r.pc = "wr_on_v" => "TIE" \in value
          BY DEF StoreRow
    <3>4. task'[u] = r /\ ctrl' = value  BY <2>2
    <3> HIDE UInvFacts, MovesOne
    <3> QED  BY <3>1, <3>2, <3>3, <3>4, <1>4
  <2> QED  BY <2>1, <2>2
<1> HIDE UInvFacts, MovesOne
<1> QED  BY <1>3, <1>4, <1>5, <1>6 DEF CtrlOK

-----------------------------------------------------------------------------
(* UInv is inductive *)

LEMMA UInvLine ==
    ASSUME UInv, ByteArrives \/ ByteLeaves PROVE UInv'
<1> USE UInvFacts
<1>1. TypeOK'
  <2>1. CASE ByteArrives
    <3> arrived \in 0 .. MaxIn  BY DEF TypeOK
    <3>1. arrived + 1 \in 1 .. MaxIn /\ hwrx' = <<arrived + 1>> /\ arrived' = arrived + 1
          BY <2>1 DEF ByteArrives
    <3>2. hwrx' \in {<<b>> : b \in 1 .. MaxIn} /\ arrived' \in 0 .. MaxIn  BY <3>1
    <3>3. UNCHANGED <<rx, tx, ctrl, hwtx, task, written, over, crossed>>
          BY <2>1 DEF ByteArrives
    <3> QED  BY <3>2, <3>3 DEF TypeOK
  <2>2. CASE ByteLeaves
    <3>1. /\ hwtx' = <<>>
          /\ UNCHANGED <<rx, tx, ctrl, hwrx, task, arrived, written, over, crossed>>
          BY <2>2 DEF ByteLeaves
    <3>2. hwtx' \in Seq(Nat) /\ Len(hwtx') <= 1  BY <3>1
    <3> QED  BY <3>1, <3>2 DEF TypeOK
  <2> QED  BY <2>1, <2>2
<1>2. UNCHANGED <<rx, tx, ctrl, task, crossed>>  BY DEF ByteArrives, ByteLeaves
<1>3. CallsOK' /\ TailOK' /\ CtrlOK'
      BY <1>2 DEF CallsOK, TailOK, CtrlOK, TxArmed, Writing, At
<1> QED  BY <1>1, <1>3 DEF UInv

\* What a step of the handler does to the tasks: nothing, but wake them.
LEMMA IsrTask ==
    ASSUME task \in [Tasks -> TaskType], Isr
    PROVE  /\ task' \in [Tasks -> TaskType]
           /\ \A t \in Tasks :
                /\ task'[t].pc = IF RxPending /\ task[t].pc = "asleep" THEN "woken"
                                 ELSE task[t].pc
                /\ task'[t].reg = task[t].reg /\ task'[t].idx = task[t].idx
                /\ task'[t].len = task[t].len /\ task'[t].left = task[t].left
<1>1. CASE RxPending
      <2>1. task' = Woken  BY <1>1 DEF Isr
      <2> QED  BY <1>1, <2>1 DEF Woken, TaskType, PCs
<1>2. CASE ~RxPending  BY <1>2 DEF Isr
<1> QED  BY <1>1, <1>2

\* Where an index goes
LEMMA WrapRange ==
    ASSUME NEW i \in 0 .. N PROVE Wrap(i) \in 0 .. N - 1
BY UartAssumption DEF Wrap

\* A byte is put in, or taken out.
LEMMA PushFields ==
    ASSUME NEW f, f = [data |-> f.data, head |-> f.head, tail |-> f.tail],
           f.tail \in 0 .. N - 1, NEW b
    PROVE  /\ Push(f, b) = [data |-> Push(f, b).data, head |-> f.head, tail |-> Push(f, b).tail]
           /\ Push(f, b).data = [f.data EXCEPT ![f.tail] = b]
           /\ Push(f, b).head = f.head
           /\ Push(f, b).tail = Wrap(f.tail + 1) /\ Push(f, b).tail \in 0 .. N - 1
<1> DEFINE d == [f.data EXCEPT ![f.tail] = b]
           w == Wrap(f.tail + 1)
<1>1. w \in 0 .. N - 1  BY WrapRange, UartAssumption
<1>2. Push(f, b) = [f EXCEPT !.data = d, !.tail = w]  BY DEF Push
<1> HIDE DEF d, w
<1>3. Push(f, b) = [data |-> d, head |-> f.head, tail |-> w]  BY <1>2
<1>4. Push(f, b).data = d /\ Push(f, b).head = f.head /\ Push(f, b).tail = w  BY <1>3
<1> QED  BY <1>1, <1>3, <1>4 DEF d, w

LEMMA PopFields ==
    ASSUME NEW f, f = [data |-> f.data, head |-> f.head, tail |-> f.tail],
           f.head \in 0 .. N - 1
    PROVE  /\ Pop(f) = [data |-> f.data, head |-> Pop(f).head, tail |-> f.tail]
           /\ Pop(f).data = f.data /\ Pop(f).tail = f.tail
           /\ Pop(f).head = Wrap(f.head + 1)
           /\ Pop(f).head \in 0 .. N - 1
<1>1. Wrap(f.head + 1) \in 0 .. N - 1  BY WrapRange, UartAssumption
<1> DEFINE w == Wrap(f.head + 1)
<1>2. Pop(f) = [f EXCEPT !.head = w]  BY DEF Pop
<1> HIDE DEF w
<1>3. Pop(f) = [data |-> f.data, head |-> w, tail |-> f.tail]  BY <1>2
<1>4. Pop(f).data = f.data /\ Pop(f).tail = f.tail /\ Pop(f).head = w  BY <1>3
<1> QED  BY <1>1, <1>3, <1>4 DEF w

LEMMA UInvIsr ==
    ASSUME UInv, Isr PROVE UInv'
<1> USE UInvFacts
<1>1. rx' \in RxType /\ rx'.head = rx.head /\ over' \subseteq {"rx", "tx"}
      /\ hwrx' \in {<<>>} \cup {<<b>> : b \in 1 .. MaxIn}
  <2>1. CASE RxPending /\ FifoFree(rx) > 0
    <3>1. rx' = Push(rx, hwrx[1]) /\ hwrx' = <<>>  BY <2>1 DEF Isr, IsrRx
    <3> PICK b \in 1 .. MaxIn : hwrx = <<b>>  BY <2>1 DEF RxPending
    <3>2. hwrx[1] \in 0 .. MaxIn  OBVIOUS
    <3>3. over' \subseteq {"rx", "tx"}  BY <2>1 DEF Isr, IsrRx, TypeOK
    <3>4. /\ rx = [data |-> rx.data, head |-> rx.head, tail |-> rx.tail]
          /\ rx.tail \in 0 .. N - 1 /\ rx.data \in [0 .. N - 1 -> 0 .. MaxIn]
          BY DEF RxType
    <3> DEFINE d == Push(rx, hwrx[1]).data
               w == Push(rx, hwrx[1]).tail
    <3>5. /\ rx' = [data |-> d, head |-> rx.head, tail |-> w]
          /\ d = [rx.data EXCEPT ![rx.tail] = hwrx[1]] /\ w \in 0 .. N - 1
          BY <3>1, <3>4, PushFields
    <3> HIDE DEF d, w
    <3>6. d \in [0 .. N - 1 -> 0 .. MaxIn]  BY <3>2, <3>4, <3>5
    <3>7. rx' \in RxType /\ rx'.head = rx.head  BY <3>4, <3>5, <3>6 DEF RxType
    <3> QED  BY <3>1, <3>3, <3>7
  <2>2. CASE ~(RxPending /\ FifoFree(rx) > 0)
        BY <2>2 DEF Isr, IsrRx, TypeOK
  <2> QED  BY <2>1, <2>2
<1>2. /\ tx' \in TxType /\ tx'.tail = tx.tail
      /\ hwtx' \in Seq(Nat) /\ Len(hwtx') <= 1
  <2>1. CASE TxPending /\ ~TxDisable
    <3>1. hwtx' = <<tx.data[tx.head]>> /\ tx' = Pop(tx)
          BY <2>1 DEF Isr, IsrTx
    <3>2. tx.data[tx.head] \in Nat  BY DEF TxType
    <3>3. tx = [data |-> tx.data, head |-> tx.head, tail |-> tx.tail]  BY DEF TxType
    <3>4. tx.head \in 0 .. N - 1  BY DEF TxType
    <3>5. /\ tx' = [data |-> tx.data, head |-> Pop(tx).head, tail |-> tx.tail]
          /\ Pop(tx).head \in 0 .. N - 1
          BY <3>1, <3>3, <3>4, PopFields
    <3>6. tx' \in TxType /\ tx'.tail = tx.tail  BY <3>5 DEF TxType
    <3>7. <<tx.data[tx.head]>> \in Seq(Nat) /\ Len(<<tx.data[tx.head]>>) = 1  BY <3>2
    <3> QED  BY <3>1, <3>6, <3>7
  <2>2. CASE ~(TxPending /\ ~TxDisable)
        BY <2>2 DEF Isr, IsrTx, TypeOK
  <2> QED  BY <2>1, <2>2
<1>3. UNCHANGED <<arrived, written, crossed>>  BY DEF Isr
<1>4. TypeOK'
  <2>1. task' \in [Tasks -> TaskType]  BY IsrTask
  <2>2. ctrl' \subseteq {"RIE", "TIE"}  BY DEF Isr
  <2> QED  BY <1>1, <1>2, <1>3, <2>1, <2>2 DEF TypeOK, TaskType, RxType, TxType
<1>5. /\ ctrl' \subseteq ctrl
      /\ "RIE" \in ctrl' <=> "RIE" \in ctrl
      /\ "TIE" \in ctrl /\ "TIE" \notin ctrl' => tx.head = tx.tail /\ tx' = tx
      /\ "TIE" \notin ctrl => tx' = tx
      BY DEF Isr, IsrTx, TxDisable, TxPending
<1>6. /\ \A t \in Tasks : /\ Writing(t)' <=> Writing(t)
                          /\ task'[t].reg = task[t].reg /\ task'[t].idx = task[t].idx
                          /\ task'[t].len = task[t].len /\ task'[t].left = task[t].left
      /\ \A t \in Tasks : \/ task'[t].pc = task[t].pc
                          \/ task[t].pc = "asleep" /\ task'[t].pc = "woken"
      BY IsrTask DEF Writing
<1>7. CallsOK'
  <2>1. rx'.head = N => At(reader, "rd_wrap")'  BY <1>1, <1>6 DEF CallsOK, At
  <2>2. ASSUME NEW t \in Tasks
        PROVE  /\ t # reader => task'[t].pc \in PrintPCs
               /\ task'[t].pc \in {"wr_off", "wr_off_w", "wr_off_v", "wr_free"}
                     => task'[t].left >= 1
               /\ task'[t].pc \in AddPCs
                     => 1 <= task'[t].len /\ task'[t].len <= task'[t].left
        BY <1>6 DEF CallsOK, AddPCs, PrintPCs, WritingPCs
  <2> QED  BY <2>1, <2>2 DEF CallsOK
<1>8. TailOK'
      BY <1>2, <1>3, <1>6 DEF TailOK
<1>9. CtrlOK'
  <2> SUFFICES ASSUME "ctrl" \notin crossed PROVE CtrlOK'
      BY <1>3 DEF CtrlOK
  <2>1. "RIE" \in ctrl' <=> task'[reader].pc \notin RdMasked
        BY <1>5, <1>6 DEF CtrlOK, RdMasked, ReadingPCs
  <2>2. TxArmed'
    <3> SUFFICES ASSUME \A u \in Tasks : /\ ~Writing(u)'
                                         /\ task'[u].pc \notin {"wr_off_w", "wr_off_v"},
                        tx'.head # tx'.tail
        PROVE  "TIE" \in ctrl'
        BY DEF TxArmed
    <3>1. \A u \in Tasks : ~Writing(u) /\ task[u].pc \notin {"wr_off_w", "wr_off_v"}
          BY <1>6
    <3>2. "TIE" \in ctrl \/ tx.head = tx.tail  BY <3>1 DEF CtrlOK, TxArmed
    <3> QED  BY <3>2, <1>5
  <2>3. ASSUME NEW t \in Tasks
        PROVE  /\ Writing(t)' /\ "TIE" \in ctrl' => "tx" \in crossed'
               /\ task'[t].pc \in {"wr_off_w", "wr_off_v", "wr_on_w", "wr_on_v"} =>
                     ("RIE" \in task'[t].reg <=> "RIE" \in ctrl')
               /\ task'[t].pc \in {"rd_off_w", "rd_off_v", "rd_on_w", "rd_on_v"} =>
                     /\ "TIE" \in ctrl' => "TIE" \in task'[t].reg
                     /\ "TIE" \in task'[t].reg /\ (\E u \in Tasks : Writing(u)')
                           => "tx" \in crossed'
               /\ task'[t].pc = "wr_on_v" /\ (\E u \in Tasks : Writing(u)')
                     => "tx" \in crossed'
    <3>1. task'[t].pc \in Copied => task'[t].pc = task[t].pc  BY <1>6 DEF Copied
    <3>2. (\E u \in Tasks : Writing(u)') => (\E u \in Tasks : Writing(u))  BY <1>6
    <3> QED  BY <3>1, <3>2, <1>3, <1>5, <1>6 DEF CtrlOK, Copied
  <2> QED  BY <2>1, <2>2, <2>3 DEF CtrlOK
<1> QED  BY <1>4, <1>7, <1>8, <1>9 DEF UInv

\* The steps that only move the program point
LEMMA UInvGoto ==
    ASSUME UInv, NEW t \in Tasks,
           StartRead(t) \/ ReadData(t) \/ Wait(t) \/ Resume(t)
    PROVE  UInv'
<1> USE UInvFacts
<1>1. PICK pc \in PCs : /\ Goto(t, pc)
                        /\ t = reader
                        /\ \/ task[t].pc \in {"ready", "woken"} /\ pc = "rd_off"
                           \/ task[t].pc = "rd_data" /\ pc = "rd_head"
                           \/ task[t].pc = "empty" /\ pc = "asleep"
                           \/ task[t].pc = "woken" /\ pc = "ready"
  <2>0. t # reader => task[t].pc \in PrintPCs  BY DEF CallsOK
  <2>1. CASE StartRead(t)  BY <2>1 DEF StartRead, At, PCs
  <2>2. CASE ReadData(t)   BY <2>0, <2>2 DEF ReadData, At, PCs, PrintPCs, WritingPCs
  <2>3. CASE Wait(t)       BY <2>0, <2>3 DEF Wait, At, PCs, PrintPCs, WritingPCs
  <2>4. CASE Resume(t)     BY <2>0, <2>4 DEF Resume, At, PCs, PrintPCs, WritingPCs
  <2> QED  BY <2>1, <2>2, <2>3, <2>4
<1>2. UNCHANGED <<rx, tx, ctrl, hwrx, hwtx, arrived, written, over, crossed>>
      BY DEF StartRead, ReadData, Wait, Resume
<1>3. PICK r : Moves(t, r) /\ r.pc = pc  BY <1>1, GotoMoves
<1>4. TypeOK'
  <2>1. crossed \subseteq {"ctrl", "tx", "wild"}  BY DEF TypeOK
  <2> QED  BY <1>2, <1>3, <2>1, TypeMoves
<1>5. CallsOK'  BY <1>1, <1>2, <1>3, CallsMoves DEF AddPCs
<1>6. TailOK'   BY <1>1, <1>2, <1>3, TailMovesOn DEF WritingPCs
<1>7. CtrlOK'   BY <1>1, <1>2, <1>3, CtrlMoves DEF WritingPCs, RdMasked, ReadingPCs, Copied
<1> QED  BY <1>4, <1>5, <1>6, <1>7 DEF UInv

LEMMA UInvLoad ==
    ASSUME UInv, NEW t \in Tasks, ReadOff(t) \/ ReadOn(t) \/ WriteOff(t) \/ WriteOn(t)
    PROVE  UInv'
<1> USE UInvFacts
<1>1. PICK pc, next \in PCs :
        /\ LoadCtrl(t, pc, next)
        /\ <<pc, next>> \in {<<"rd_off", "rd_off_w">>, <<"rd_on", "rd_on_w">>,
                             <<"wr_off", "wr_off_w">>, <<"wr_on", "wr_on_w">>}
      BY DEF ReadOff, ReadOn, WriteOff, WriteOn, PCs
<1>2. UNCHANGED <<rx, tx, ctrl, hwrx, hwtx, arrived, written, over, crossed>>
      BY <1>1 DEF LoadCtrl
<1>3. /\ task[t].pc = pc
      /\ \E r : Moves(t, r) /\ r.pc = next /\ r.reg = ctrl /\ r.left = task[t].left
      BY <1>1, LoadCtrlMoves
<1>4. PICK r : Moves(t, r) /\ r.pc = next /\ r.reg = ctrl /\ r.left = task[t].left
      BY <1>3
<1>5. TypeOK'
  <2>1. crossed \subseteq {"ctrl", "tx", "wild"}  BY DEF TypeOK
  <2> QED  BY <1>2, <1>4, <2>1, TypeMoves
<1>6. CallsOK'
  <2>1. t # reader => r.pc \in PrintPCs
        BY <1>1, <1>3, <1>4 DEF CallsOK, PrintPCs, WritingPCs
  <2>2. r.pc \in {"wr_off", "wr_off_w", "wr_off_v", "wr_free"} => r.left >= 1
        BY <1>1, <1>3, <1>4 DEF CallsOK
  <2>3. r.pc \notin AddPCs /\ task[t].pc # "rd_wrap"  BY <1>1, <1>3, <1>4 DEF AddPCs
  <2> QED  BY <1>2, <1>4, <2>1, <2>2, <2>3, CallsMoves
<1>7. TailOK'   BY <1>1, <1>2, <1>3, <1>4, TailMovesOn DEF WritingPCs
<1>8. CtrlOK'   BY <1>1, <1>2, <1>3, <1>4, CtrlLoaded
<1> QED  BY <1>5, <1>6, <1>7, <1>8 DEF UInv

LEMMA UInvStore ==
    ASSUME UInv, NEW t \in Tasks,
           ReadOffStore(t) \/ ReadOnStore(t) \/ WriteOffStore(t) \/ WriteOnStore(t)
    PROVE  UInv'
<1> USE UInvFacts
<1>1. PICK pc, next, value : StoreRow(t, pc, next, value) /\ StoreCtrl(t, pc, next, value)
      BY Stores
<1>2. /\ UNCHANGED <<rx, tx, hwrx, hwtx, arrived, written, over>>
      /\ ctrl' = value /\ crossed' = crossed \cup Crossing(t, next)
      BY <1>1 DEF StoreCtrl
<1>3. next \in PCs /\ value \subseteq {"RIE", "TIE"} /\ Crossing(t, next) \subseteq {"ctrl", "tx"}
  <2>1. task[t].reg \subseteq {"RIE", "TIE"}  BY DEF TaskType
  <2>2. value \subseteq {"RIE", "TIE"}  BY <2>1, <1>1 DEF StoreRow
  <2>3. next \in PCs  BY <1>1 DEF StoreRow, PCs
  <2> QED  BY <2>2, <2>3 DEF Crossing
<1>4. /\ task[t].pc = pc
      /\ \E r : /\ Moves(t, r)
                /\ r.pc = next
                /\ next \in Copied => r.reg = task[t].reg
                /\ next \notin {"ready", "empty"} => r.left = task[t].left
      BY <1>1, <1>3, StoreCtrlMoves
<1>5. PICK r : /\ Moves(t, r)
               /\ r.pc = next
               /\ next \in Copied => r.reg = task[t].reg
               /\ next \notin {"ready", "empty"} => r.left = task[t].left
      BY <1>4
<1>6. TypeOK'
  <2>1. crossed \subseteq {"ctrl", "tx", "wild"}  BY DEF TypeOK
  <2>2. crossed \subseteq crossed' /\ crossed' \subseteq {"ctrl", "tx", "wild"}
        BY <1>2, <1>3, <2>1
  <2>3. ctrl' \subseteq {"RIE", "TIE"}  BY <1>2, <1>3
  <2> QED  BY <1>2, <1>5, <2>2, <2>3, TypeMoves
<1>7. CallsOK'
  <2>1. t # reader => r.pc \in PrintPCs
        BY <1>1, <1>4, <1>5 DEF CallsOK, PrintPCs, WritingPCs, StoreRow
  <2>2. r.pc \in {"wr_off", "wr_off_w", "wr_off_v", "wr_free"} => r.left >= 1
    <3>1. task[t].left \in Nat  BY DEF TaskType
    <3>2. pc \in {"wr_off_w", "wr_off_v"} => task[t].left >= 1  BY <1>4 DEF CallsOK
    <3> QED  BY <1>1, <1>5, <3>1, <3>2 DEF StoreRow
  <2>3. r.pc \notin AddPCs /\ task[t].pc # "rd_wrap"
        BY <1>1, <1>4, <1>5 DEF AddPCs, StoreRow
  <2> QED  BY <1>2, <1>5, <2>1, <2>2, <2>3, CallsMoves
<1>8. TailOK'
  <2>1. CASE next = "wr_free"
    <3> SUFFICES ASSUME "tx" \notin crossed' PROVE TailOK'
        BY DEF TailOK
    <3>1. "tx" \notin crossed /\ \A u \in Tasks : u # t => ~Writing(u)
          BY <1>2, <2>1 DEF Crossing
    <3>2. \A u \in Tasks : u # t => task'[u] = task[u]  BY <1>5, MovesOne
    <3>3. task'[t].pc = "wr_free"  BY <1>5, <2>1, MovesOne
    <3>4. \A u \in Tasks : u # t => task'[u].pc \notin WritingPCs
          BY <3>1, <3>2 DEF Writing, WritingPCs
    <3>5. \A u \in Tasks : task[u].pc \notin {"wr_wrap", "wr_wrap_w"}
      <4>1. task[t].pc = "wr_off_v"  BY <1>1, <1>4, <2>1 DEF StoreRow
      <4> QED  BY <4>1, <3>1 DEF Writing
    <3>6. tx'.tail < N  BY <3>1, <3>5, <1>2 DEF TailOK
    <3>7. \A u, v \in Tasks : Writing(u)' /\ Writing(v)' => u = v
          BY <3>4 DEF Writing, WritingPCs
    <3>8. \A u \in Tasks : task'[u].pc \notin {"wr_data_w", "wr_tail_w", "wr_wrap_w"}
          BY <3>3, <3>4 DEF WritingPCs
    <3> QED  BY <3>6, <3>7, <3>8 DEF TailOK
  <2>2. CASE next # "wr_free"
    <3>1. /\ r.pc \in WritingPCs => task[t].pc \in WritingPCs
          /\ r.pc \notin {"wr_data_w", "wr_tail_w", "wr_wrap", "wr_wrap_w"}
          /\ task[t].pc \notin {"wr_wrap", "wr_wrap_w"}
          BY <1>1, <1>4, <1>5, <2>2 DEF StoreRow, WritingPCs
    <3>2. tx'.tail = tx.tail /\ crossed \subseteq crossed'  BY <1>2
    <3> QED  BY <1>5, <3>1, <3>2, TailMovesOn
  <2> QED  BY <2>1, <2>2
<1>9. CtrlOK'
  <2>1. StoreRow(t, task[t].pc, next, value)  BY <1>1, <1>4
  <2> QED  BY <1>2, <1>5, <2>1, CtrlStored
<1> QED  BY <1>6, <1>7, <1>8, <1>9 DEF UInv

\* The steps of uart_read on its FIFO
LEMMA UInvRead ==
    ASSUME UInv, NEW t \in Tasks, ReadAvail(t) \/ ReadHead(t) \/ ReadWrap(t)
    PROVE  UInv'
<1> USE UInvFacts
<1>0. crossed \subseteq {"ctrl", "tx", "wild"}  BY DEF TypeOK
<1>1. t = reader
  <2>1. task[t].pc \notin PrintPCs
        BY DEF ReadAvail, ReadHead, ReadWrap, At, PrintPCs, WritingPCs
  <2> QED  BY <2>1 DEF CallsOK
<1>2. CASE ReadAvail(t)
  <2>1. PICK any \in BOOLEAN :
          task' = [task EXCEPT ![t].pc = IF any THEN "rd_data" ELSE "rd_on", ![t].got = any]
    <3> DEFINE some == FifoAvailable(rx) > 0
    <3>1. some \in BOOLEAN  OBVIOUS
    <3>2. \E any \in IF "RIE" \in ctrl THEN BOOLEAN ELSE {some} :
            task' = [task EXCEPT ![t].pc = IF any THEN "rd_data" ELSE "rd_on",
                                 ![t].got = any]
          BY <1>2 DEF ReadAvail
    <3> HIDE DEF some
    <3>3. (IF "RIE" \in ctrl THEN BOOLEAN ELSE {some}) \subseteq BOOLEAN  BY <3>1
    <3> QED  BY <3>2, <3>3
  <2> DEFINE pc == IF any THEN "rd_data" ELSE "rd_on"
             r == [task[t] EXCEPT !.pc = pc, !.got = any]
  <2>2. pc \in {"rd_data", "rd_on"}  OBVIOUS
  <2>3. task' = [task EXCEPT ![t] = r]  BY <2>1
  <2> HIDE DEF pc
  <2>4. r \in TaskType /\ r.pc = pc  BY <2>2 DEF TaskType, PCs
  <2> HIDE DEF r
  <2>5. Moves(t, r) /\ task[t].pc = "rd_avail"
        BY <1>2, <2>3, <2>4 DEF Moves, ReadAvail, At
  <2>6. UNCHANGED <<rx, tx, ctrl, hwrx, hwtx, arrived, written, over, crossed>>
        BY <1>2 DEF ReadAvail
  <2>7. TypeOK'   BY <1>0, <2>5, <2>6, TypeMoves
  <2>8. CallsOK'  BY <1>1, <2>2, <2>4, <2>5, <2>6, CallsMoves DEF AddPCs
  <2>9. TailOK'   BY <2>2, <2>4, <2>5, <2>6, TailMovesOn DEF WritingPCs
  <2>10. CtrlOK'
         BY <2>2, <2>4, <2>5, <2>6, CtrlMoves DEF WritingPCs, RdMasked, ReadingPCs, Copied
  <2> QED  BY <2>7, <2>8, <2>9, <2>10 DEF UInv
<1>3. CASE ReadHead(t) \/ ReadWrap(t)
  <2>1. PICK pc \in PCs, h \in {rx.head + 1, Wrap(rx.head)} :
            /\ Goto(t, pc)
            /\ rx' = [rx EXCEPT !.head = h]
            /\ \/ /\ task[t].pc = "rd_head" /\ pc = "rd_wrap"
                  /\ h = rx.head + 1
               \/ /\ task[t].pc = "rd_wrap" /\ pc = "rd_on"
                  /\ h = Wrap(rx.head)
        BY <1>3 DEF ReadHead, ReadWrap, At, PCs
  <2>2. PICK r : Moves(t, r) /\ r.pc = pc  BY <2>1, GotoMoves
  <2>3. UNCHANGED <<tx, ctrl, hwrx, hwtx, arrived, written, over, crossed>>
        BY <1>3 DEF ReadHead, ReadWrap
  <2>4. h \in 0 .. N /\ (h = N => pc = "rd_wrap")
    <3>1. rx.head \in 0 .. N  BY DEF RxType
    <3>2. Wrap(rx.head) \in 0 .. N - 1  BY <3>1, WrapRange
    <3>3. task[t].pc = "rd_head" => rx.head # N  BY <1>1 DEF CallsOK, At
    <3> QED  BY <2>1, <3>1, <3>2, <3>3
  <2>5. rx' \in RxType /\ rx'.head = h  BY <2>1, <2>4 DEF RxType
  <2>6. task' \in [Tasks -> TaskType] /\ task'[t] = r
        /\ \A u \in Tasks : u # t => task'[u] = task[u]
        BY <2>2, MovesOne
  <2>7. TypeOK'
        BY <2>3, <2>5, <2>6 DEF TypeOK, TaskType, RxType
  <2>8. CallsOK'
    <3>1. r.pc \notin AddPCs \cup {"wr_off", "wr_off_w", "wr_off_v", "wr_free"}
          BY <2>1, <2>2 DEF AddPCs
    <3>2. ASSUME NEW u \in Tasks
          PROVE  /\ u # reader => task'[u].pc \in PrintPCs
                 /\ task'[u].pc \in {"wr_off", "wr_off_w", "wr_off_v", "wr_free"}
                       => task'[u].left >= 1
                 /\ task'[u].pc \in AddPCs
                       => 1 <= task'[u].len /\ task'[u].len <= task'[u].left
      <4>1. CASE u = t  BY <4>1, <1>1, <2>6, <3>1
      <4>2. CASE u # t  BY <4>2, <2>6 DEF CallsOK
      <4> QED  BY <4>1, <4>2
    <3>3. rx'.head = N => task'[reader].pc = "rd_wrap"  BY <1>1, <2>2, <2>4, <2>5, <2>6
    <3> QED  BY <3>2, <3>3 DEF CallsOK, At
  <2>9. TailOK'   BY <2>1, <2>2, <2>3, TailMovesOn DEF WritingPCs
  <2>10. CtrlOK'
         BY <2>1, <2>2, <2>3, CtrlMoves DEF WritingPCs, RdMasked, ReadingPCs, Copied
  <2> QED  BY <2>7, <2>8, <2>9, <2>10 DEF UInv
<1> QED  BY <1>2, <1>3

\* A length is accepted.
LEMMA UInvStartWrite ==
    ASSUME UInv, NEW t \in Tasks, NEW len \in Lens, StartWrite(t, len)
    PROVE  UInv'
<1> USE UInvFacts
<1>0. crossed \subseteq {"ctrl", "tx", "wild"}  BY DEF TypeOK
<1>1. len \in Nat \ {0} /\ len \in 0 .. MaxOut
  <2>1. task[t].left \in Nat  BY DEF TaskType
  <2>2. written + task[t].left + len <= MaxOut  BY DEF StartWrite
  <2>3. len \in Nat \ {0}  BY UartAssumption
  <2> QED  BY <2>1, <2>2, <2>3
<1> DEFINE r == [task[t] EXCEPT !.pc = "wr_off", !.left = len]
<1>2. r \in TaskType /\ r.pc = "wr_off" /\ r.left = len  BY <1>1 DEF TaskType, PCs
<1>3. task' = [task EXCEPT ![t] = r] /\ task[t].pc = "ready"
      /\ UNCHANGED <<rx, tx, ctrl, hwrx, hwtx, arrived, written, over, crossed>>
      BY DEF StartWrite, At
<1> HIDE DEF r
<1>4. Moves(t, r)  BY <1>2, <1>3 DEF Moves
<1>5. TypeOK'   BY <1>0, <1>3, <1>4, TypeMoves
<1>6. CallsOK'  BY <1>1, <1>2, <1>3, <1>4, CallsMoves DEF AddPCs, PrintPCs
<1>7. TailOK'   BY <1>2, <1>3, <1>4, TailMovesOn DEF WritingPCs
<1>8. CtrlOK'
      BY <1>2, <1>3, <1>4, CtrlMoves DEF WritingPCs, RdMasked, ReadingPCs, Copied
<1> QED  BY <1>5, <1>6, <1>7, <1>8 DEF UInv

\* What a FIFO has room for is never nothing, wherever the tail is.
LEMMA FreePositive ==
    ASSUME NEW f, f.head \in 0 .. N - 1, f.tail \in Nat
    PROVE  FifoFree(f) \in Nat \ {0}
BY UartAssumption DEF FifoFree

\* uart_write looks how many bytes fit.
LEMMA UInvWriteFree ==
    ASSUME UInv, NEW t \in Tasks, WriteFree(t) PROVE UInv'
<1> USE UInvFacts
<1>0. crossed \subseteq {"ctrl", "tx", "wild"}  BY DEF TypeOK
<1>1. /\ task[t].pc = "wr_free"
      /\ \E room \in IF Alone(t) THEN {FifoFree(tx)} ELSE 0 .. task[t].left :
           task' = [task EXCEPT ![t].pc = IF room > 0 THEN "wr_data" ELSE "wr_on",
                                ![t].len = IF task[t].left > room THEN room
                                           ELSE task[t].left]
      /\ UNCHANGED <<rx, tx, ctrl, hwrx, hwtx, arrived, written, over, crossed>>
      BY DEF WriteFree, At
<1>2. task[t].left \in 0 .. MaxOut /\ task[t].left >= 1
      BY <1>1 DEF CallsOK, TaskType
<1>3. PICK room \in Nat :
         task' = [task EXCEPT ![t].pc = IF room > 0 THEN "wr_data" ELSE "wr_on",
                              ![t].len = IF task[t].left > room THEN room ELSE task[t].left]
  <2> DEFINE S == IF Alone(t) THEN {FifoFree(tx)} ELSE 0 .. task[t].left
  <2>1. FifoFree(tx) \in Nat  BY FreePositive DEF TxType
  <2>2. S \subseteq Nat  BY <1>2, <2>1
  <2>3. \E room \in S :
          task' = [task EXCEPT ![t].pc = IF room > 0 THEN "wr_data" ELSE "wr_on",
                               ![t].len = IF task[t].left > room THEN room
                                          ELSE task[t].left]
        BY <1>1
  <2> HIDE DEF S
  <2> QED  BY <2>2, <2>3
<1> DEFINE pc == IF room > 0 THEN "wr_data" ELSE "wr_on"
           len == IF task[t].left > room THEN room ELSE task[t].left
           r == [task[t] EXCEPT !.pc = pc, !.len = len]
<1>4. /\ pc \in {"wr_data", "wr_on"} /\ len \in 0 .. MaxOut
      /\ pc = "wr_data" => 1 <= len /\ len <= task[t].left
      BY <1>2
<1>5. task' = [task EXCEPT ![t] = r]  BY <1>3
<1> HIDE DEF pc, len
<1>6. r \in TaskType /\ r.pc = pc /\ r.left = task[t].left /\ r.len = len
      BY <1>4 DEF TaskType, PCs
<1> HIDE DEF r
<1>7. Moves(t, r)  BY <1>5, <1>6 DEF Moves
<1>8. TypeOK'   BY <1>0, <1>1, <1>7, TypeMoves
<1>9. CallsOK'  BY <1>1, <1>4, <1>6, <1>7, CallsMoves DEF AddPCs, PrintPCs, WritingPCs
<1>10. TailOK'  BY <1>1, <1>4, <1>6, <1>7, TailMovesOn DEF WritingPCs
<1>11. CtrlOK'
       BY <1>1, <1>4, <1>6, <1>7, CtrlMoves DEF WritingPCs, RdMasked, ReadingPCs, Copied
<1> QED  BY <1>8, <1>9, <1>10, <1>11 DEF UInv

\* Where the tail is while t is in uart_write, and nobody else
LEMMA TailAt ==
    ASSUME UInv, NEW t \in Tasks, Writing(t), "tx" \notin crossed
    PROVE  /\ tx.tail \in 0 .. N
           /\ task[t].pc \notin {"wr_wrap", "wr_wrap_w"} => tx.tail \in 0 .. N - 1
           /\ task[t].pc \in {"wr_data_w", "wr_tail_w"} => task[t].idx = tx.tail
           /\ task[t].pc = "wr_wrap_w" => tx.tail = N
           /\ \A u \in Tasks : u # t => ~Writing(u)
<1> USE UInvFacts
<1>1. \A u \in Tasks : u # t => ~Writing(u)  BY DEF TailOK
<1>2. tx.tail \in 0 .. N  BY DEF TypeOK, TxType
<1>3. ASSUME task[t].pc \notin {"wr_wrap", "wr_wrap_w"} PROVE tx.tail \in 0 .. N - 1
  <2>1. \A u \in Tasks : task[u].pc \notin {"wr_wrap", "wr_wrap_w"}
        BY <1>1, <1>3 DEF Writing
  <2>2. tx.tail < N  BY <2>1 DEF TailOK
  <2> QED  BY <2>2, <1>2
<1> QED  BY <1>1, <1>2, <1>3 DEF TailOK

LEMMA TailAdd ==
    ASSUME UInv, NEW t \in Tasks, NEW r, Moves(t, r), Writing(t), crossed \subseteq crossed',
           "tx" \notin crossed' =>
              /\ r.pc \notin {"wr_wrap", "wr_wrap_w"} => tx'.tail < N
              /\ r.pc \in {"wr_data_w", "wr_tail_w"} => r.idx = tx'.tail
              /\ r.pc = "wr_wrap_w" => tx'.tail = N
    PROVE  TailOK'
<1> USE UInvFacts, MovesOne
<1> SUFFICES ASSUME "tx" \notin crossed' PROVE TailOK'
    BY DEF TailOK
<1>1. \A u \in Tasks : u # t => ~Writing(u)' /\ task'[u].pc \notin WritingPCs
      BY TailAt DEF Writing, WritingPCs
<1>2. \A u, v \in Tasks : Writing(u)' /\ Writing(v)' => u = v
      BY <1>1
<1>3. \A u \in Tasks : /\ task'[u].pc \in {"wr_data_w", "wr_tail_w"} => task'[u].idx = tx'.tail
                       /\ task'[u].pc = "wr_wrap_w" => tx'.tail = N
      BY <1>1 DEF WritingPCs
<1> QED  BY <1>2, <1>3 DEF TailOK

\* The steps of uart_fifo_add that do not move the tail, but WriteDataStore
LEMMA UInvLoadTail ==
    ASSUME UInv, NEW t \in Tasks, WriteData(t) \/ WriteTail(t) PROVE UInv'
<1> USE UInvFacts
<1>0. crossed \subseteq {"ctrl", "tx", "wild"}  BY DEF TypeOK
<1>1. PICK pc, next \in PCs :
        /\ LoadTail(t, pc, next)
        /\ <<pc, next>> \in {<<"wr_data", "wr_data_w">>, <<"wr_tail", "wr_tail_w">>}
      BY DEF WriteData, WriteTail, PCs
<1>2. UNCHANGED <<rx, tx, ctrl, hwrx, hwtx, arrived, written, over, crossed>>
      BY <1>1 DEF LoadTail
<1>3. tx.tail \in Nat  BY DEF TxType
<1>4. /\ task[t].pc = pc
      /\ \E r : /\ Moves(t, r) /\ r.pc = next /\ r.idx = tx.tail
                /\ r.len = task[t].len /\ r.left = task[t].left
      BY <1>1, <1>3, LoadTailMoves
<1>5. PICK r : /\ Moves(t, r) /\ r.pc = next /\ r.idx = tx.tail
               /\ r.len = task[t].len /\ r.left = task[t].left
      BY <1>4
<1>6. /\ task[t].pc \in AddPCs /\ r.pc \in AddPCs
      /\ task[t].pc \in WritingPCs /\ r.pc \in WritingPCs /\ Writing(t)
      BY <1>1, <1>4, <1>5 DEF AddPCs, WritingPCs, Writing
<1>7. TypeOK'   BY <1>0, <1>2, <1>5, TypeMoves
<1>8. CallsOK'
  <2>1. 1 <= r.len /\ r.len <= r.left  BY <1>5, <1>6 DEF CallsOK
  <2>2. r.pc \in PrintPCs /\ r.pc \notin {"wr_off", "wr_off_w", "wr_off_v", "wr_free"}
        BY <1>1, <1>5 DEF PrintPCs, WritingPCs
  <2>3. task[t].pc # "rd_wrap"  BY <1>6 DEF AddPCs
  <2> QED  BY <1>2, <1>5, <2>1, <2>2, <2>3, CallsMoves
<1>9. TailOK'
  <2>1. "tx" \notin crossed => tx.tail < N
        BY <1>1, <1>4, <1>6, TailAt
  <2>2. r.pc \notin {"wr_wrap", "wr_wrap_w"}  BY <1>1, <1>5
  <2>3. crossed \subseteq crossed' /\ tx' = tx /\ crossed' = crossed  BY <1>2
  <2> QED  BY <1>5, <1>6, <2>1, <2>2, <2>3, TailAdd
<1>10. CtrlOK'
  <2>1. r.pc \notin Copied /\ task[t].pc \notin {"wr_off_w", "wr_off_v"}
        BY <1>1, <1>4, <1>5 DEF Copied
  <2>2. r.pc \notin RdMasked /\ task[t].pc \notin RdMasked
        BY <1>1, <1>4, <1>5 DEF RdMasked, ReadingPCs
  <2> QED  BY <1>2, <1>5, <1>6, <2>1, <2>2, CtrlMoves
<1> QED  BY <1>7, <1>8, <1>9, <1>10 DEF UInv

\* The step that puts the byte in its slot
LEMMA UInvDataStore ==
    ASSUME UInv, NEW t \in Tasks, WriteDataStore(t) PROVE UInv'
<1> USE UInvFacts
<1>1. /\ task[t].pc = "wr_data_w" /\ Stored(t, "wr_tail") /\ "wr_tail" \in PCs
      /\ written' = written + 1
      /\ UNCHANGED <<rx, ctrl, hwrx, hwtx, arrived, over>>
      BY DEF WriteDataStore, At, PCs
<1>2. PICK r : /\ Moves(t, r) /\ r.pc = "wr_tail"
               /\ r.len = task[t].len /\ r.left = task[t].left
      BY <1>1, StoredMoves
<1>3. Writing(t) /\ task[t].idx \in Nat  BY <1>1 DEF Writing, TaskType
<1>4. /\ tx' \in TxType /\ tx'.tail = tx.tail
      /\ crossed \subseteq crossed' /\ crossed' \subseteq {"ctrl", "tx", "wild"}
      /\ "tx" \in crossed' <=> "tx" \in crossed
      /\ "ctrl" \in crossed' <=> "ctrl" \in crossed
  <2>1. CASE task[t].idx < N
    <3> DEFINE d == [tx.data EXCEPT ![task[t].idx] = written + 1]
    <3>1. d \in [0 .. N - 1 -> Nat]  BY <2>1, <1>3 DEF TxType
    <3>2. tx' = [tx EXCEPT !.data = d] /\ crossed' = crossed
          BY <2>1 DEF WriteDataStore
    <3> HIDE DEF d
    <3>3. tx' \in TxType /\ tx'.tail = tx.tail  BY <3>1, <3>2 DEF TxType
    <3> QED  BY <3>2, <3>3 DEF TypeOK
  <2>2. CASE ~(task[t].idx < N)
    <3>1. tx' = tx /\ crossed' = crossed \cup {"wild"}  BY <2>2 DEF WriteDataStore
    <3>2. crossed \subseteq {"ctrl", "tx", "wild"}  BY DEF TypeOK
    <3> QED  BY <3>1, <3>2
  <2> QED  BY <2>1, <2>2
<1>5. TypeOK'
  <2>1. task' \in [Tasks -> TaskType]  BY <1>2, MovesOne
  <2>2. written' \in Nat  BY <1>1
  <2>3. "tx" \notin crossed' => tx'.tail <= N  BY <1>4 DEF TypeOK
  <2> QED  BY <1>1, <1>4, <2>1, <2>2, <2>3 DEF TypeOK, TaskType, TxType
<1>6. CallsOK'
  <2>1. 1 <= r.len /\ r.len <= r.left  BY <1>1, <1>2 DEF CallsOK, AddPCs
  <2>2. r.pc \in PrintPCs  BY <1>2 DEF PrintPCs, WritingPCs
  <2> QED  BY <1>1, <1>2, <2>1, <2>2, CallsMoves
<1>7. TailOK'
  <2>1. "tx" \notin crossed => tx.tail < N  BY <1>1, <1>3, TailAt
  <2> QED  BY <1>2, <1>3, <1>4, <2>1, TailAdd
<1>8. CtrlOK'
  <2>1. r.pc \in WritingPCs /\ task[t].pc \in WritingPCs  BY <1>1, <1>2 DEF WritingPCs
  <2>2. r.pc \notin RdMasked /\ task[t].pc \notin RdMasked
        BY <1>1, <1>2 DEF RdMasked, ReadingPCs
  <2>3. r.pc \notin Copied /\ task[t].pc \notin {"wr_off_w", "wr_off_v"}
        BY <1>1, <1>2 DEF Copied
  <2> QED  BY <1>1, <1>2, <1>4, <2>1, <2>2, <2>3, CtrlMoves
<1> QED  BY <1>5, <1>6, <1>7, <1>8 DEF UInv

\* The steps that move the tail, or go on to the next byte
LEMMA UInvTail ==
    ASSUME UInv, NEW t \in Tasks, WriteTailStore(t) \/ WriteWrap(t) \/ WriteWrapStore(t)
    PROVE  UInv'
<1> USE UInvFacts
<1>1. /\ task[t].pc \in {"wr_tail_w", "wr_wrap", "wr_wrap_w"} /\ Writing(t)
      /\ UNCHANGED <<rx, ctrl, hwrx, hwtx, arrived, written, crossed>>
      BY DEF WriteTailStore, WriteWrap, WriteWrapStore, At, Writing
<1>2. 1 <= task[t].len /\ task[t].len <= task[t].left
      BY <1>1 DEF CallsOK, AddPCs
<1>3. PICK r : /\ Moves(t, r)
               /\ r.pc \in {"wr_wrap", "wr_wrap_w", "wr_data", "wr_on"}
               /\ r.pc # "wr_on" => 1 <= r.len /\ r.len <= r.left
               /\ \/ WriteTailStore(t) /\ r.pc = "wr_wrap"
                  \/ WriteWrap(t) /\ tx.tail >= N /\ r.pc = "wr_wrap_w"
                  \/ WriteWrap(t) /\ ~(tx.tail >= N) /\ r.pc \in {"wr_data", "wr_on"}
                  \/ WriteWrapStore(t) /\ r.pc \in {"wr_data", "wr_on"}
  <2>1. CASE WriteTailStore(t)
    <3>1. Stored(t, "wr_wrap") /\ "wr_wrap" \in PCs  BY <2>1 DEF WriteTailStore, PCs
    <3>2. PICK r : Moves(t, r) /\ r.pc = "wr_wrap" /\ r.len = task[t].len /\ r.left = task[t].left
          BY <3>1, StoredMoves
    <3> QED  BY <2>1, <3>2, <1>2
  <2>2. CASE WriteWrap(t) /\ tx.tail >= N
    <3>1. Goto(t, "wr_wrap_w") /\ "wr_wrap_w" \in PCs  BY <2>2 DEF WriteWrap, PCs
    <3>2. PICK r : Moves(t, r) /\ r.pc = "wr_wrap_w" /\ r.len = task[t].len /\ r.left = task[t].left
          BY <3>1, GotoMoves
    <3> QED  BY <2>2, <3>2, <1>2
  <2>3. CASE \/ WriteWrap(t) /\ ~(tx.tail >= N)
             \/ WriteWrapStore(t)
    <3>1. NextByte(t)  BY <2>3 DEF WriteWrap, WriteWrapStore
    <3>2. PICK r : /\ Moves(t, r) /\ r.pc \in {"wr_data", "wr_on"}
                   /\ r.pc = "wr_data" => 1 <= r.len /\ r.len <= r.left
          BY <3>1, <1>2, NextByteMoves
    <3>3. r.pc # "wr_on" => 1 <= r.len /\ r.len <= r.left  BY <3>2
    <3> QED  BY <2>3, <3>2, <3>3
  <2>4. WriteWrap(t) => (WriteWrap(t) /\ tx.tail >= N) \/ (WriteWrap(t) /\ ~(tx.tail >= N))
        OBVIOUS
  <2> QED  BY <2>1, <2>2, <2>3, <2>4
<1>4. /\ r.pc \in PrintPCs /\ r.pc \in WritingPCs /\ task[t].pc \in WritingPCs
      /\ r.pc \notin RdMasked /\ task[t].pc \notin RdMasked /\ r.pc \notin Copied
      /\ task[t].pc \notin {"wr_off_w", "wr_off_v"}
      BY <1>1, <1>3 DEF PrintPCs, WritingPCs, RdMasked, ReadingPCs, Copied
<1>5. /\ tx' \in TxType /\ over' \subseteq {"rx", "tx"}
      /\ "tx" \notin crossed => /\ tx'.tail <= N
                                /\ r.pc \notin {"wr_wrap", "wr_wrap_w"} => tx'.tail < N
                                /\ r.pc = "wr_wrap_w" => tx'.tail = N
  <2>1. CASE WriteTailStore(t) /\ r.pc = "wr_wrap"
    <3>1. task[t].idx \in Nat /\ task[t].pc = "wr_tail_w"
          BY <2>1 DEF TaskType, WriteTailStore, At
    <3>2. tx' \in TxType /\ tx'.tail = task[t].idx + 1
          BY <2>1, <3>1 DEF WriteTailStore, TxType
    <3>3. "tx" \notin crossed => task[t].idx \in 0 .. N - 1  BY <1>1, <3>1, TailAt
    <3>4. over' \subseteq {"rx", "tx"}  BY <2>1 DEF WriteTailStore, TypeOK
    <3> QED  BY <2>1, <3>2, <3>3, <3>4
  <2>2. CASE WriteWrap(t) /\ (tx.tail >= N <=> r.pc = "wr_wrap_w")
                          /\ r.pc \in {"wr_wrap_w", "wr_data", "wr_on"}
    <3>1. tx' = tx /\ over' = over  BY <2>2 DEF WriteWrap
    <3>2. "tx" \notin crossed => tx.tail \in 0 .. N  BY <1>1, TailAt
    <3>3. over \subseteq {"rx", "tx"} /\ tx.tail \in Nat  BY DEF TypeOK, TxType
    <3> QED  BY <2>2, <3>1, <3>2, <3>3
  <2>3. CASE WriteWrapStore(t) /\ r.pc \in {"wr_data", "wr_on"}
    <3>1. tx' = [tx EXCEPT !.tail = 0] /\ over' = over  BY <2>3 DEF WriteWrapStore
    <3>2. tx' \in TxType /\ tx'.tail = 0  BY <3>1 DEF TxType
    <3>3. over \subseteq {"rx", "tx"}  BY DEF TypeOK
    <3> QED  BY <2>3, <3>1, <3>2, <3>3
  <2> QED  BY <1>3, <2>1, <2>2, <2>3
<1>6. TypeOK'
  <2>1. task' \in [Tasks -> TaskType]  BY <1>3, MovesOne
  <2> QED  BY <1>1, <1>5, <2>1 DEF TypeOK, TaskType, TxType
<1>7. CallsOK'
  <2>1. r.pc \in AddPCs => 1 <= r.len /\ r.len <= r.left  BY <1>3 DEF AddPCs
  <2>2. r.pc \notin {"wr_off", "wr_off_w", "wr_off_v", "wr_free"} /\ task[t].pc # "rd_wrap"
        BY <1>1, <1>3
  <2> QED  BY <1>1, <1>3, <1>4, <2>1, <2>2, CallsMoves
<1>8. TailOK'
  <2>1. r.pc \notin {"wr_data_w", "wr_tail_w"} /\ crossed' = crossed  BY <1>1, <1>3
  <2> QED  BY <1>1, <1>3, <1>5, <2>1, TailAdd
<1>9. CtrlOK'  BY <1>1, <1>3, <1>4, CtrlMoves
<1> QED  BY <1>6, <1>7, <1>8, <1>9 DEF UInv

\* The steps of the program
LEMMA NextCases ==
    ASSUME [Next]_vars
    PROVE  \/ ByteArrives \/ ByteLeaves \/ Isr \/ UNCHANGED vars
           \/ \E t \in Tasks :
                \/ StartRead(t) \/ ReadData(t) \/ Wait(t) \/ Resume(t)
                \/ ReadOff(t) \/ ReadOn(t) \/ WriteOff(t) \/ WriteOn(t)
                \/ ReadOffStore(t) \/ ReadOnStore(t) \/ WriteOffStore(t) \/ WriteOnStore(t)
                \/ ReadAvail(t) \/ ReadHead(t) \/ ReadWrap(t)
                \/ (\E len \in Lens : StartWrite(t, len)) \/ WriteFree(t)
                \/ WriteData(t) \/ WriteDataStore(t) \/ WriteTail(t) \/ WriteTailStore(t)
                \/ WriteWrap(t) \/ WriteWrapStore(t)
BY DEF Next, Read, Write

LEMMA UInvInit ==
    ASSUME Init PROVE UInv
<1>1. Empty \in [data : [0 .. N - 1 -> {0}], head : {0}, tail : {0}]
      BY DEF Empty
<1>2. Idle \in TaskType  BY UartAssumption DEF Idle, TaskType, PCs
<1>3. hwtx \in Seq(Nat) /\ Len(hwtx) <= 1  BY DEF Init
<1>4. TypeOK
      BY <1>1, <1>2, <1>3, UartAssumption DEF Init, TypeOK, TaskType
<1>5. /\ \A t \in Tasks : task[t].pc = "ready"
      /\ rx.head = 0 /\ tx.head = 0 /\ tx.tail = 0
      BY <1>1 DEF Init, Idle
<1>6. CallsOK
      BY <1>5, UartAssumption DEF CallsOK, AddPCs, PrintPCs, WritingPCs
<1>7. TailOK
      BY <1>5, UartAssumption DEF TailOK, Writing
<1>8. CtrlOK
      BY <1>5, UartAssumption DEF Init, CtrlOK, TxArmed, Writing, RdMasked, ReadingPCs
<1> QED  BY <1>4, <1>6, <1>7, <1>8 DEF UInv

LEMMA UInvStep ==
    ASSUME UInv, [Next]_vars PROVE UInv'
<1>1. CASE UNCHANGED vars
      BY <1>1 DEF vars, UInv, TypeOK, CallsOK, TailOK, CtrlOK, TxArmed, Writing, At
<1> QED  BY <1>1, NextCases, UInvLine, UInvIsr, UInvGoto, UInvLoad, UInvStore, UInvRead,
            UInvStartWrite, UInvWriteFree, UInvLoadTail, UInvDataStore, UInvTail

LEMMA UInvAlways == Spec => []UInv
<1>1. Init => UInv  BY UInvInit
<1>2. UInv /\ [Next]_vars => UInv'  BY UInvStep
<1> QED  BY <1>1, <1>2, PTL DEF Spec

-----------------------------------------------------------------------------
(* The interrupts *)

LEMMA CtrlSuffices ==
    ASSUME UInv PROVE KeptOut /\ Armed
<1> USE UInvFacts
<1>1. KeptOut
  <2> SUFFICES ASSUME NEW t \in Tasks
      PROVE  /\ Reading(t) /\ "RIE" \in ctrl => "ctrl" \in crossed
             /\ Writing(t) /\ "TIE" \in ctrl => crossed \intersect {"ctrl", "tx"} # {}
      BY DEF KeptOut
  <2>1. Reading(t) => t = reader /\ task[reader].pc \in RdMasked
        BY DEF CallsOK, Reading, RdMasked, ReadingPCs, PrintPCs, WritingPCs
  <2> QED  BY <2>1 DEF CtrlOK
<1>2. Armed
  <2>1. At(reader, "asleep") => task[reader].pc \notin RdMasked
        BY DEF At, RdMasked, ReadingPCs
  <2> QED  BY <2>1 DEF CtrlOK, Armed, RxArmed
<1> QED  BY <1>1, <1>2

-----------------------------------------------------------------------------
(* The bytes *)

\* Task t goes from one program point to another, and the others stay.
Steps(t, from, to) ==
    /\ task[t].pc = from /\ task'[t].pc = to
    /\ \A u \in Tasks : u # t => task'[u] = task[u]

LEMMA MovesSteps ==
    ASSUME task \in [Tasks -> TaskType], NEW t \in Tasks, NEW r, Moves(t, r)
    PROVE  Steps(t, task[t].pc, r.pc)
BY MovesOne DEF Steps

LEMMA GotoSteps ==
    ASSUME task \in [Tasks -> TaskType], NEW t \in Tasks, NEW from, NEW to \in PCs,
           At(t, from), Goto(t, to)
    PROVE  Steps(t, from, to)
<1>1. PICK r : Moves(t, r) /\ r.pc = to  BY GotoMoves
<1> QED  BY <1>1, MovesSteps DEF At

RxPoints == {"rd_data", "rd_head"}
TxPoints == {"wr_tail", "wr_tail_w"}

\* What a step of a task does to the receive and to the transmit side: nothing, or
\* it is one of those that move a byte.
RxSame(t) ==
    /\ UNCHANGED <<rx, hwrx, arrived, got>>
    /\ "rx" \in over => "rx" \in over'
    /\ crossed \subseteq crossed'
    /\ \E from, to : Steps(t, from, to) /\ from \notin RxPoints /\ to \notin RxPoints

TxSame(t) ==
    /\ UNCHANGED <<tx, hwtx, written, sent, over>>
    /\ crossed \subseteq crossed'
    /\ \E from, to : Steps(t, from, to) /\ (from \in TxPoints <=> to \in TxPoints)

LEMMA SmallSteps ==
    ASSUME UInv, NEW t \in Tasks,
           \/ StartRead(t) \/ Wait(t) \/ Resume(t)
           \/ ReadOff(t) \/ ReadOn(t) \/ WriteOff(t) \/ WriteOn(t)
           \/ ReadOffStore(t) \/ ReadOnStore(t) \/ WriteOffStore(t) \/ WriteOnStore(t)
    PROVE  RxSame(t) /\ TxSame(t)
<1> USE UInvFacts
<1>1. CASE StartRead(t) \/ Wait(t) \/ Resume(t)
  <2>1. PICK from, to \in PCs : /\ At(t, from) /\ Goto(t, to)
                                /\ from \in {"ready", "empty", "woken"}
                                /\ to \in {"rd_off", "asleep", "ready"}
        BY <1>1 DEF StartRead, Wait, Resume, PCs
  <2>2. Steps(t, from, to)  BY <2>1, GotoSteps
  <2>3. UNCHANGED <<rx, tx, ctrl, hwrx, hwtx, arrived, written, got, sent, over, crossed>>
        BY <1>1 DEF StartRead, Wait, Resume
  <2> QED  BY <2>1, <2>2, <2>3 DEF RxSame, TxSame, RxPoints, TxPoints
<1>2. CASE ReadOff(t) \/ ReadOn(t) \/ WriteOff(t) \/ WriteOn(t)
  <2>1. PICK pc, next \in PCs :
           /\ LoadCtrl(t, pc, next)
           /\ <<pc, next>> \in {<<"rd_off", "rd_off_w">>, <<"rd_on", "rd_on_w">>,
                                <<"wr_off", "wr_off_w">>, <<"wr_on", "wr_on_w">>}
        BY <1>2 DEF ReadOff, ReadOn, WriteOff, WriteOn, PCs
  <2>2. /\ task[t].pc = pc
        /\ \E r : Moves(t, r) /\ r.pc = next
        BY <2>1, LoadCtrlMoves
  <2>3. Steps(t, pc, next)  BY <2>2, MovesSteps
  <2>4. UNCHANGED <<rx, tx, ctrl, hwrx, hwtx, arrived, written, got, sent, over, crossed>>
        BY <2>1 DEF LoadCtrl
  <2> QED  BY <2>1, <2>3, <2>4 DEF RxSame, TxSame, RxPoints, TxPoints
<1>3. CASE ReadOffStore(t) \/ ReadOnStore(t) \/ WriteOffStore(t) \/ WriteOnStore(t)
  <2>1. PICK pc, next, value : StoreRow(t, pc, next, value) /\ StoreCtrl(t, pc, next, value)
        BY <1>3, Stores
  <2>2. next \in PCs  BY <2>1 DEF StoreRow, PCs
  <2>3. /\ task[t].pc = pc
        /\ \E r : Moves(t, r) /\ r.pc = next
        BY <2>1, <2>2, StoreCtrlMoves
  <2>4. Steps(t, pc, next)  BY <2>3, MovesSteps
  <2>5. /\ UNCHANGED <<rx, tx, hwrx, hwtx, arrived, written, got, sent, over>>
        /\ crossed \subseteq crossed'
        BY <2>1 DEF StoreCtrl
  <2>6. pc \notin RxPoints \cup TxPoints /\ next \notin RxPoints \cup TxPoints
        BY <2>1 DEF StoreRow, RxPoints, TxPoints
  <2> QED  BY <2>4, <2>5, <2>6 DEF RxSame, TxSame
<1> QED  BY <1>1, <1>2, <1>3

LEMMA ReadSteps ==
    ASSUME UInv, NEW t \in Tasks, ReadAvail(t) \/ ReadData(t) \/ ReadHead(t) \/ ReadWrap(t)
    PROVE  TxSame(t)
<1> USE UInvFacts
<1>1. UNCHANGED <<tx, hwtx, written, sent, over, crossed>>
      BY DEF ReadAvail, ReadData, ReadHead, ReadWrap
<1>2. CASE ReadAvail(t)
  <2>1. task'[t].pc \in {"rd_data", "rd_on"} /\ Steps(t, "rd_avail", task'[t].pc)
    <3>1. PICK any : task' = [task EXCEPT ![t].pc = IF any THEN "rd_data" ELSE "rd_on",
                                          ![t].got = any]
          BY <1>2 DEF ReadAvail
    <3> DEFINE pc == IF any THEN "rd_data" ELSE "rd_on"
    <3>2. pc \in {"rd_data", "rd_on"}  OBVIOUS
    <3>3. task' = [task EXCEPT ![t].pc = pc, ![t].got = any]  BY <3>1
    <3> HIDE DEF pc
    <3>4. task'[t].pc = pc /\ \A u \in Tasks : u # t => task'[u] = task[u]
          BY <3>3 DEF TaskType
    <3>5. task[t].pc = "rd_avail"  BY <1>2 DEF ReadAvail, At
    <3> QED  BY <3>2, <3>4, <3>5 DEF Steps
  <2> QED  BY <1>1, <2>1 DEF TxSame, TxPoints
<1>3. CASE ReadData(t) \/ ReadHead(t) \/ ReadWrap(t)
  <2>1. PICK from, to \in PCs : /\ At(t, from) /\ Goto(t, to)
                                /\ from \notin TxPoints /\ to \notin TxPoints
        BY <1>3 DEF ReadData, ReadHead, ReadWrap, PCs, TxPoints
  <2>2. Steps(t, from, to)  BY <2>1, GotoSteps
  <2> QED  BY <1>1, <2>1, <2>2 DEF TxSame
<1> QED  BY <1>2, <1>3

LEMMA WriteSteps ==
    ASSUME UInv, NEW t \in Tasks,
           \/ (\E len \in Lens : StartWrite(t, len)) \/ WriteFree(t)
           \/ WriteData(t) \/ WriteDataStore(t) \/ WriteTail(t) \/ WriteTailStore(t)
           \/ WriteWrap(t) \/ WriteWrapStore(t)
    PROVE  /\ RxSame(t)
           /\ WriteDataStore(t) \/ WriteTailStore(t) \/ WriteWrapStore(t) \/ TxSame(t)
<1> USE UInvFacts
<1>1. UNCHANGED <<rx, hwrx, arrived, got>>
      BY DEF StartWrite, WriteFree, WriteData, WriteDataStore, WriteTail, WriteTailStore,
             WriteWrap, WriteWrapStore, LoadTail
<1>2. ("rx" \in over => "rx" \in over') /\ crossed \subseteq crossed'
      BY DEF StartWrite, WriteFree, WriteData, WriteDataStore, WriteTail, WriteTailStore,
             WriteWrap, WriteWrapStore, LoadTail
<1>3. CASE WriteDataStore(t) \/ WriteTailStore(t) \/ WriteWrapStore(t) \/ WriteWrap(t)
  <2>1. \E from, to : Steps(t, from, to) /\ from \notin RxPoints /\ to \notin RxPoints
                      /\ (WriteWrap(t) => from \notin TxPoints /\ to \notin TxPoints)
    <3>1. CASE WriteDataStore(t)
      <4>1. At(t, "wr_data_w") /\ Stored(t, "wr_tail") /\ "wr_tail" \in PCs
            BY <3>1 DEF WriteDataStore, PCs
      <4>2. \E r : Moves(t, r) /\ r.pc = "wr_tail"  BY <4>1, StoredMoves
      <4>3. ~WriteWrap(t)  BY <4>1 DEF WriteWrap, At
      <4> QED  BY <4>1, <4>2, <4>3, MovesSteps DEF At, RxPoints
    <3>2. CASE WriteTailStore(t)
      <4>1. At(t, "wr_tail_w") /\ Stored(t, "wr_wrap") /\ "wr_wrap" \in PCs
            BY <3>2 DEF WriteTailStore, PCs
      <4>2. \E r : Moves(t, r) /\ r.pc = "wr_wrap"  BY <4>1, StoredMoves
      <4>3. ~WriteWrap(t)  BY <4>1 DEF WriteWrap, At
      <4> QED  BY <4>1, <4>2, <4>3, MovesSteps DEF At, RxPoints
    <3>3. CASE WriteWrap(t) \/ WriteWrapStore(t)
      <4>1. task[t].pc \in {"wr_wrap", "wr_wrap_w"}
            BY <3>3 DEF WriteWrap, WriteWrapStore, At
      <4>2. 1 <= task[t].len /\ task[t].len <= task[t].left  BY <4>1 DEF CallsOK, AddPCs
      <4>3. Goto(t, "wr_wrap_w") \/ NextByte(t)
            BY <3>3 DEF WriteWrap, WriteWrapStore
      <4>4. \E r : Moves(t, r) /\ r.pc \in {"wr_wrap_w", "wr_data", "wr_on"}
            BY <4>2, <4>3, GotoMoves, NextByteMoves DEF PCs
      <4> QED  BY <4>1, <4>4, MovesSteps DEF RxPoints, TxPoints
    <3> QED  BY <1>3, <3>1, <3>2, <3>3
  <2>2. WriteWrap(t) => UNCHANGED <<tx, hwtx, written, sent, over>>
        BY DEF WriteWrap
  <2> QED  BY <1>1, <1>2, <1>3, <2>1, <2>2 DEF RxSame, TxSame
<1>4. CASE (\E len \in Lens : StartWrite(t, len)) \/ WriteFree(t)
  <2>1. /\ task[t].pc \in {"ready", "wr_free"}
        /\ task'[t].pc \in {"wr_off", "wr_data", "wr_on"}
        /\ Steps(t, task[t].pc, task'[t].pc)
    <3>1. task[t].pc \in {"ready", "wr_free"}  BY <1>4 DEF StartWrite, WriteFree, At
    <3>2. \E to \in {"wr_off", "wr_data", "wr_on"} : Steps(t, task[t].pc, to)
      <4>1. CASE \E len \in Lens : StartWrite(t, len)
        <5>1. PICK len : task' = [task EXCEPT ![t].pc = "wr_off", ![t].left = len]
              BY <4>1 DEF StartWrite
        <5> DEFINE r == [task[t] EXCEPT !.pc = "wr_off", !.left = len]
        <5>2. task' = [task EXCEPT ![t] = r] /\ r.pc = "wr_off"  BY <5>1 DEF TaskType
        <5> HIDE DEF r
        <5>3. Steps(t, task[t].pc, "wr_off")  BY <5>2 DEF Steps
        <5> QED  BY <5>3
      <4>2. CASE WriteFree(t)
        <5>1. PICK room : task' = [task EXCEPT
                            ![t].pc = IF room > 0 THEN "wr_data" ELSE "wr_on",
                            ![t].len = IF task[t].left > room THEN room ELSE task[t].left]
              BY <4>2 DEF WriteFree
        <5> DEFINE pc == IF room > 0 THEN "wr_data" ELSE "wr_on"
                   len == IF task[t].left > room THEN room ELSE task[t].left
                   r == [task[t] EXCEPT !.pc = pc, !.len = len]
        <5>2. pc \in {"wr_data", "wr_on"} /\ task' = [task EXCEPT ![t] = r]  BY <5>1
        <5> HIDE DEF pc, len
        <5>3. r.pc = pc  BY DEF TaskType
        <5> HIDE DEF r
        <5>4. Steps(t, task[t].pc, pc)  BY <5>2, <5>3 DEF Steps
        <5> QED  BY <5>2, <5>4
      <4> QED  BY <1>4, <4>1, <4>2
    <3> QED  BY <3>1, <3>2 DEF Steps
  <2>2. UNCHANGED <<tx, hwtx, written, sent, over>>
        BY <1>4 DEF StartWrite, WriteFree
  <2> QED  BY <1>1, <1>2, <2>1, <2>2 DEF RxSame, TxSame, RxPoints, TxPoints
<1>5. CASE WriteData(t) \/ WriteTail(t)
  <2>1. PICK pc, next \in PCs :
          /\ LoadTail(t, pc, next)
          /\ <<pc, next>> \in {<<"wr_data", "wr_data_w">>, <<"wr_tail", "wr_tail_w">>}
        BY <1>5 DEF WriteData, WriteTail, PCs
  <2>2. tx.tail \in Nat  BY DEF TxType
  <2>3. /\ task[t].pc = pc
        /\ \E r : Moves(t, r) /\ r.pc = next
        BY <2>1, <2>2, LoadTailMoves
  <2>4. Steps(t, pc, next)  BY <2>3, MovesSteps
  <2>5. UNCHANGED <<tx, hwtx, written, sent, over>>  BY <2>1 DEF LoadTail
  <2> QED  BY <1>1, <1>2, <2>1, <2>4, <2>5 DEF RxSame, TxSame, RxPoints, TxPoints
<1> QED  BY <1>3, <1>4, <1>5

\* What a FIFO holds, also before its head is wrapped
LEMMA Counts ==
    ASSUME NEW f, f.head \in 0 .. N, f.tail \in 0 .. N - 1
    PROVE  /\ FifoAvailable(f) \in 0 .. N - 1
           /\ f.head < N => (FifoAvailable(f) = 0 <=> f.head = f.tail)
           /\ f.head < N => FifoFree(f) \in 1 .. N
BY UartAssumption DEF FifoAvailable, FifoFree

\* A FIFO's slots, from the head: a byte that is put in goes behind the others,
\* and does not overwrite one of them.
LEMMA Slots ==
    ASSUME NEW f, f.head \in 0 .. N - 1, f.tail \in 0 .. N - 1
    PROVE  /\ Slot(f, 1) = f.head
           /\ Slot(f, FifoAvailable(f) + 1) = f.tail
           /\ \A i \in 1 .. FifoAvailable(f) :
                 Slot(f, i) \in 0 .. N - 1 /\ Slot(f, i) # f.tail
BY UartAssumption DEF Slot, FifoAvailable

\* The tail moves on, and not onto the head.
LEMMA TailMoves ==
    ASSUME NEW f, f.head \in 0 .. N - 1, f.tail \in 0 .. N - 1, ~Fills(f),
           NEW g, g.head = f.head, g.tail = Wrap(f.tail + 1)
    PROVE  /\ FifoAvailable(g) = FifoAvailable(f) + 1
           /\ \A i \in Nat : Slot(g, i) = Slot(f, i)
BY UartAssumption DEF Slot, FifoAvailable, Fills, Wrap

\* The tail moves on and is not yet wrapped.
LEMMA TailGrows ==
    ASSUME NEW f, f.head \in 0 .. N - 1, f.tail \in 0 .. N - 1,
           Wrap(f.tail + 1) # f.head,
           NEW g, g.head = f.head, g.tail = f.tail + 1
    PROVE  /\ FifoAvailable(g) = FifoAvailable(f) + 1
           /\ g.tail = N => g.head # 0
BY UartAssumption DEF FifoAvailable, Wrap

\* The head moves on, and is not yet wrapped.
LEMMA HeadGrows ==
    ASSUME NEW f, f.head \in 0 .. N - 1, f.tail \in 0 .. N - 1, FifoAvailable(f) > 0,
           NEW g, g.head = f.head + 1, g.tail = f.tail
    PROVE  /\ FifoAvailable(g) = FifoAvailable(f) - 1
           /\ \A i \in 1 .. FifoAvailable(g) : Slot(g, i) = Slot(f, i + 1)
BY UartAssumption DEF Slot, FifoAvailable

\* Wrapping it changes nothing.
LEMMA HeadWraps ==
    ASSUME NEW f, f.head \in 0 .. N, f.tail \in 0 .. N - 1,
           NEW g, g.head = Wrap(f.head), g.tail = f.tail
    PROVE  /\ FifoAvailable(g) = FifoAvailable(f)
           /\ \A i \in 1 .. FifoAvailable(g) : Slot(g, i) = Slot(f, i)
BY UartAssumption DEF Slot, FifoAvailable, Wrap

\* The head moves on.
LEMMA HeadMoves ==
    ASSUME NEW f, f.head \in 0 .. N - 1, f.tail \in 0 .. N - 1, FifoAvailable(f) > 0,
           NEW g, g.head = Wrap(f.head + 1), g.tail = f.tail
    PROVE  /\ FifoAvailable(g) = FifoAvailable(f) - 1
           /\ \A i \in 1 .. FifoAvailable(g) : Slot(g, i) = Slot(f, i + 1)
BY UartAssumption DEF Slot, FifoAvailable, Wrap

\* A step that leaves the receive side alone.
LEMMA RxQuiet ==
    ASSUME UInv, RxOK, NEW t \in Tasks, RxSame(t) PROVE RxOK'
<1> SUFFICES ASSUME ~RxBroken' PROVE RxOK'
    BY DEF RxOK
<1>1. ~RxBroken /\ UNCHANGED <<rx, hwrx, arrived, got>>  BY DEF RxSame, RxBroken
<1>2. PICK from, to : Steps(t, from, to) /\ from \notin RxPoints /\ to \notin RxPoints
      BY DEF RxSame
<1>3. /\ Removed' = Removed
      /\ task'[reader].pc \in RxPoints <=> task[reader].pc \in RxPoints
      /\ At(reader, "rd_head")' <=> At(reader, "rd_head")
  <2>1. reader \in Tasks  BY UartAssumption
  <2>2. CASE t = reader  BY <2>2, <1>1, <1>2 DEF Steps, Removed, At, RxPoints
  <2>3. CASE t # reader  BY <2>1, <2>3, <1>1, <1>2 DEF Steps, Removed, At
  <2> QED  BY <2>2, <2>3
<1>4. FifoAvailable(rx') = FifoAvailable(rx) /\ \A i : Slot(rx', i) = Slot(rx, i)
      BY <1>1
<1> QED  BY <1>1, <1>3, <1>4 DEF RxOK, RxPoints

\* What each step of uart_read on its FIFO does to the receive side
LEMMA RxRead ==
    ASSUME UInv, RxOK, NEW t \in Tasks,
           ReadAvail(t) \/ ReadData(t) \/ ReadHead(t) \/ ReadWrap(t)
    PROVE  RxOK'
<1> USE UInvFacts
<1>a. t = reader
  <2>1. task[t].pc \notin PrintPCs
        BY DEF ReadAvail, ReadData, ReadHead, ReadWrap, At, PrintPCs, WritingPCs
  <2> QED  BY <2>1 DEF CallsOK
<1>b. /\ rx.head \in 0 .. N /\ rx.tail \in 0 .. N - 1
      /\ rx.data \in [0 .. N - 1 -> 0 .. MaxIn] /\ arrived \in 0 .. MaxIn
      BY DEF RxType, TypeOK
<1>c. FifoAvailable(rx) \in 0 .. N - 1  BY <1>b, Counts
<1> SUFFICES ASSUME ~RxBroken' PROVE RxOK'
    BY DEF RxOK
<1>d. ~RxBroken /\ UNCHANGED <<hwrx, arrived>>
      BY DEF ReadAvail, ReadData, ReadHead, ReadWrap, RxBroken
<1>e. /\ got \in Seq(Nat) /\ \A i \in 1 .. Len(got) : got[i] = i
      /\ \A i \in 1 .. FifoAvailable(rx) : rx.data[Slot(rx, i)] = Removed + i
      /\ hwrx # <<>> => hwrx[1] = Removed + FifoAvailable(rx) + 1
      /\ arrived = Removed + FifoAvailable(rx) + Len(hwrx)
      /\ task[reader].pc \in {"rd_data", "rd_head"} => FifoAvailable(rx) > 0
      /\ At(reader, "rd_head") => Len(got) > 0
      BY <1>d DEF RxOK
<1>f. Len(got) \in Nat  BY <1>e, LenProperties
<1>1. CASE ReadAvail(t)
  <2>1. /\ task[t].pc = "rd_avail" /\ "RIE" \notin ctrl
        /\ UNCHANGED <<rx, hwrx, arrived, got>>
        BY <1>1, <1>a, <1>d DEF ReadAvail, At, CtrlOK, RxBroken, RdMasked, ReadingPCs
  <2>2. /\ task'[t].pc \in {"rd_data", "rd_on"}
        /\ task'[t].pc = "rd_data" => FifoAvailable(rx) > 0
    <3> DEFINE some == FifoAvailable(rx) > 0
    <3>1. task' = [task EXCEPT ![t].pc = IF some THEN "rd_data" ELSE "rd_on", ![t].got = some]
          BY <1>1, <2>1 DEF ReadAvail
    <3> DEFINE pc == IF some THEN "rd_data" ELSE "rd_on"
    <3>2. pc \in {"rd_data", "rd_on"} /\ (pc = "rd_data" => some)  OBVIOUS
    <3>3. task' = [task EXCEPT ![t].pc = pc, ![t].got = some]  BY <3>1
    <3> HIDE DEF pc, some
    <3>4. task'[t].pc = pc  BY <3>3 DEF TaskType
    <3> QED  BY <3>2, <3>4 DEF some
  <2>3. Removed' = Removed  BY <2>1, <2>2, <1>a DEF Removed, At
  <2>4. FifoAvailable(rx') = FifoAvailable(rx) /\ \A i : Slot(rx', i) = Slot(rx, i)
        BY <2>1
  <2> QED  BY <2>1, <2>2, <2>3, <2>4, <1>a, <1>e DEF RxOK, At
<1>2. CASE ReadData(t)
  <2>1. /\ task[t].pc = "rd_data" /\ At(t, "rd_data") /\ Goto(t, "rd_head")
        /\ got' = Append(got, rx.data[rx.head]) /\ rx' = rx
        BY <1>2, <1>d DEF ReadData, At
  <2>2. task'[t].pc = "rd_head"  BY <2>1, GotoSteps DEF PCs, Steps
  <2>3. Removed = Len(got) /\ FifoAvailable(rx) > 0
        BY <2>1, <1>a, <1>e DEF Removed, At
  <2>4. rx.head \in 0 .. N - 1  BY <2>1, <1>a, <1>b DEF CallsOK, At
  <2>5. rx.data[rx.head] = Len(got) + 1
    <3>1. Slot(rx, 1) = rx.head  BY <2>4, <1>b, Slots
    <3>2. rx.data[Slot(rx, 1)] = Removed + 1  BY <2>3, <1>c, <1>e
    <3> QED  BY <3>1, <3>2, <2>3
  <2>6. /\ got' \in Seq(Nat) /\ Len(got') = Len(got) + 1
        /\ \A i \in 1 .. Len(got') : got'[i] = i
        BY <2>1, <2>5, <1>e, <1>f, AppendProperties
  <2>7. Removed' = Removed  BY <2>2, <2>3, <2>6, <1>a, <1>f DEF Removed, At
  <2>8. FifoAvailable(rx') = FifoAvailable(rx) /\ \A i : Slot(rx', i) = Slot(rx, i)
        BY <2>1
  <2>9. Len(got') > 0  BY <2>6, <1>f
  <2> QED  BY <2>1, <2>3, <2>6, <2>7, <2>8, <2>9, <1>d, <1>e DEF RxOK
<1>3. CASE ReadHead(t)
  <2>1. /\ task[t].pc = "rd_head" /\ At(t, "rd_head") /\ Goto(t, "rd_wrap")
        /\ rx' = [rx EXCEPT !.head = rx.head + 1] /\ got' = got
        BY <1>3 DEF ReadHead, At
  <2>2. task'[t].pc = "rd_wrap"  BY <2>1, GotoSteps DEF PCs, Steps
  <2>3. /\ FifoAvailable(rx) > 0 /\ Len(got) > 0
        /\ Removed = Len(got) - 1 /\ Removed' = Len(got)
        BY <2>1, <2>2, <1>a, <1>e DEF Removed, At
  <2>4. rx.head \in 0 .. N - 1  BY <2>1, <1>a, <1>b DEF CallsOK, At
  <2>5. rx'.data = rx.data /\ rx'.tail = rx.tail /\ rx'.head = rx.head + 1
        BY <2>1 DEF RxType
  <2>6. FifoAvailable(rx') = FifoAvailable(rx) - 1
        /\ \A i \in 1 .. FifoAvailable(rx') : Slot(rx', i) = Slot(rx, i + 1)
        BY <2>3, <2>4, <2>5, <1>b, HeadGrows
  <2>7. \A i \in 1 .. FifoAvailable(rx') : rx'.data[Slot(rx', i)] = Removed' + i
    <3> TAKE i \in 1 .. FifoAvailable(rx')
    <3>1. i + 1 \in 1 .. FifoAvailable(rx)  BY <2>6, <1>c
    <3>2. rx.data[Slot(rx, i + 1)] = Removed + (i + 1)  BY <3>1, <1>e
    <3>3. Removed + (i + 1) = Removed' + i  BY <2>3, <1>f
    <3>4. rx'.data[Slot(rx', i)] = rx.data[Slot(rx, i + 1)]  BY <2>5, <2>6
    <3> QED  BY <3>2, <3>3, <3>4
  <2>8. Removed' + FifoAvailable(rx') = Removed + FifoAvailable(rx)
        BY <2>3, <2>6, <1>c, <1>f
  <2>9. task'[reader].pc = "rd_wrap"  BY <2>2, <1>a
  <2> QED  BY <2>1, <2>7, <2>8, <2>9, <1>d, <1>e DEF RxOK, At
<1>4. CASE ReadWrap(t)
  <2>1. /\ task[t].pc = "rd_wrap" /\ At(t, "rd_wrap") /\ Goto(t, "rd_on")
        /\ rx' = [rx EXCEPT !.head = Wrap(rx.head)] /\ got' = got
        BY <1>4 DEF ReadWrap, At
  <2>2. task'[t].pc = "rd_on"  BY <2>1, GotoSteps DEF PCs, Steps
  <2>3. rx'.data = rx.data /\ rx'.tail = rx.tail /\ rx'.head = Wrap(rx.head)
    <3> DEFINE w == Wrap(rx.head)
    <3>1. rx' = [rx EXCEPT !.head = w]  BY <2>1
    <3> HIDE DEF w
    <3>2. rx'.data = rx.data /\ rx'.tail = rx.tail /\ rx'.head = w  BY <3>1 DEF RxType
    <3> QED  BY <3>2 DEF w
  <2>4. FifoAvailable(rx') = FifoAvailable(rx)
        /\ \A i \in 1 .. FifoAvailable(rx') : Slot(rx', i) = Slot(rx, i)
        BY <2>3, <1>b, HeadWraps
  <2>5. Removed' = Removed  BY <2>1, <2>2, <1>a DEF Removed, At
  <2>6. task'[reader].pc = "rd_on"  BY <2>2, <1>a
  <2>7. \A i \in 1 .. FifoAvailable(rx') : rx'.data[Slot(rx', i)] = Removed' + i
        BY <2>3, <2>4, <2>5, <1>e
  <2> QED  BY <2>1, <2>4, <2>5, <2>6, <2>7, <1>d, <1>e DEF RxOK, At
<1> QED  BY <1>1, <1>2, <1>3, <1>4

\* The handler takes a byte out of the holding register.
LEMMA RxIsr ==
    ASSUME UInv, RxOK, Isr PROVE RxOK'
<1> USE UInvFacts
<1> SUFFICES ASSUME ~RxBroken' PROVE RxOK'
    BY DEF RxOK
<1>a. /\ rx.head \in 0 .. N /\ rx.tail \in 0 .. N - 1
      /\ rx.data \in [0 .. N - 1 -> 0 .. MaxIn] /\ arrived \in 0 .. MaxIn
      /\ rx = [data |-> rx.data, head |-> rx.head, tail |-> rx.tail]
      BY DEF RxType, TypeOK
<1>b. ~RxBroken /\ UNCHANGED <<arrived, got>>  BY DEF Isr, IsrRx, RxBroken
<1>c. /\ got \in Seq(Nat) /\ \A i \in 1 .. Len(got) : got[i] = i
      /\ \A i \in 1 .. FifoAvailable(rx) : rx.data[Slot(rx, i)] = Removed + i
      /\ hwrx # <<>> => hwrx[1] = Removed + FifoAvailable(rx) + 1
      /\ arrived = Removed + FifoAvailable(rx) + Len(hwrx)
      /\ task[reader].pc \in {"rd_data", "rd_head"} => FifoAvailable(rx) > 0
      /\ At(reader, "rd_head") => Len(got) > 0
      BY <1>b DEF RxOK
<1>d. task'[reader].pc = IF RxPending /\ task[reader].pc = "asleep" THEN "woken"
                         ELSE task[reader].pc
      BY IsrTask
<1>e. Removed' = Removed  BY <1>b, <1>d DEF Removed, At
<1>f. FifoAvailable(rx) \in 0 .. N - 1  BY <1>a, Counts
<1>1. CASE RxPending
  <2>1. task[reader].pc \notin RdMasked
        BY <1>1, <1>b DEF RxPending, RxBroken, CtrlOK
  <2>2. rx.head \in 0 .. N - 1
        BY <1>a, <2>1 DEF CallsOK, At, RdMasked, ReadingPCs
  <2>3. task'[reader].pc \notin {"rd_data", "rd_head"}
        BY <1>d, <2>1 DEF RdMasked, ReadingPCs
  <2>4. /\ rx' = Push(rx, hwrx[1]) /\ hwrx' = <<>>
        /\ over' = IF Fills(rx) THEN over \cup {"rx"} ELSE over
        BY <1>1, <1>a, <2>2, Counts DEF Isr, IsrRx
  <2>5. ~Fills(rx)  BY <2>4 DEF RxBroken
  <2> PICK b \in 1 .. MaxIn : hwrx = <<b>>  BY <1>1 DEF RxPending
  <2>6. rx'.data = [rx.data EXCEPT ![rx.tail] = b] /\ rx'.head = rx.head
        /\ rx'.tail = Wrap(rx.tail + 1)
        BY <1>a, <2>4, PushFields
  <2>7. FifoAvailable(rx') = FifoAvailable(rx) + 1
        /\ \A i \in Nat : Slot(rx', i) = Slot(rx, i)
        BY <1>a, <2>2, <2>5, <2>6, TailMoves
  <2>8. b = Removed + FifoAvailable(rx) + 1 /\ arrived = Removed + FifoAvailable(rx) + 1
        BY <1>c
  <2>9. \A i \in 1 .. FifoAvailable(rx') : rx'.data[Slot(rx', i)] = Removed + i
    <3> TAKE i \in 1 .. FifoAvailable(rx')
    <3>1. Slot(rx', i) = Slot(rx, i)  BY <1>f, <2>7
    <3>2. CASE i = FifoAvailable(rx) + 1
      <4>1. Slot(rx, i) = rx.tail  BY <3>2, <1>a, <2>2, Slots
      <4>2. rx'.data[Slot(rx', i)] = b  BY <3>1, <4>1, <1>a, <2>6
      <4>3. Removed \in Int
        <5>1. Len(got) \in Nat  BY <1>c, LenProperties
        <5> QED  BY <5>1 DEF Removed
      <4> QED  BY <4>2, <4>3, <3>2, <1>f, <2>8
    <3>3. CASE i \in 1 .. FifoAvailable(rx)
      <4>1. Slot(rx, i) \in 0 .. N - 1 /\ Slot(rx, i) # rx.tail
            BY <3>3, <1>a, <2>2, Slots
      <4>2. rx'.data[Slot(rx', i)] = rx.data[Slot(rx, i)]  BY <3>1, <4>1, <1>a, <2>6
      <4> QED  BY <4>2, <3>3, <1>c
    <3> QED  BY <3>2, <3>3, <1>f, <2>7
  <2>10. arrived' = Removed' + FifoAvailable(rx') + Len(hwrx')
    <3>1. Removed \in Int
      <4>1. Len(got) \in Nat  BY <1>c, LenProperties
      <4> QED  BY <4>1 DEF Removed
    <3>2. Len(hwrx') = 0  BY <2>4
    <3> QED  BY <3>1, <3>2, <1>b, <1>e, <1>f, <2>7, <2>8
  <2> QED  BY <1>b, <1>c, <1>e, <2>3, <2>4, <2>9, <2>10 DEF RxOK, At
<1>2. CASE ~RxPending
  <2>1. rx' = rx /\ hwrx' = hwrx /\ task'[reader].pc = task[reader].pc
        BY <1>2, <1>d DEF Isr, IsrRx
  <2>2. FifoAvailable(rx') = FifoAvailable(rx) /\ \A i : Slot(rx', i) = Slot(rx, i)
        BY <2>1
  <2> QED  BY <2>1, <2>2, <1>b, <1>c, <1>e DEF RxOK, At
<1> QED  BY <1>1, <1>2

LEMMA RxStep ==
    ASSUME UInv, RxOK, [Next]_vars PROVE RxOK'
<1>1. CASE ByteArrives
  <2>1. /\ hwrx = <<>> /\ hwrx' = <<arrived + 1>> /\ arrived' = arrived + 1
        /\ UNCHANGED <<rx, task, got, over, crossed>>
        BY <1>1 DEF ByteArrives
  <2> SUFFICES ASSUME ~RxBroken' PROVE RxOK'
      BY DEF RxOK
  <2>2. /\ ~RxBroken /\ Removed' = Removed
        /\ FifoAvailable(rx') = FifoAvailable(rx) /\ \A i : Slot(rx', i) = Slot(rx, i)
        BY <2>1 DEF RxBroken, Removed, At
  <2>3. arrived = Removed + FifoAvailable(rx)
    <3>1. arrived = Removed + FifoAvailable(rx) + 0 /\ got \in Seq(Nat)
          BY <2>1, <2>2 DEF RxOK
    <3>2. Removed \in Int
      <4>1. Len(got) \in Nat  BY <3>1, LenProperties
      <4> QED  BY <4>1 DEF Removed
    <3>3. FifoAvailable(rx) \in Int
      <4>1. rx.head \in 0 .. N /\ rx.tail \in 0 .. N - 1  BY UInvFacts DEF RxType
      <4> QED  BY <4>1, Counts
    <3> QED  BY <3>1, <3>2, <3>3
  <2>4. hwrx'[1] = Removed' + FifoAvailable(rx') + 1
        /\ arrived' = Removed' + FifoAvailable(rx') + Len(hwrx')
        BY <2>1, <2>2, <2>3
  <2>5. /\ got' \in Seq(Nat) /\ \A i \in 1 .. Len(got') : got'[i] = i
        /\ \A i \in 1 .. FifoAvailable(rx') : rx'.data[Slot(rx', i)] = Removed' + i
        /\ task'[reader].pc \in {"rd_data", "rd_head"} => FifoAvailable(rx') > 0
        /\ At(reader, "rd_head")' => Len(got') > 0
        BY <2>1, <2>2 DEF RxOK, At
  <2> QED  BY <2>4, <2>5 DEF RxOK
<1>2. CASE ByteLeaves \/ UNCHANGED vars
  <2>1. UNCHANGED <<rx, hwrx, task, arrived, got, over, crossed>>
        BY <1>2 DEF ByteLeaves, vars
  <2> QED  BY <2>1 DEF RxOK, RxBroken, Removed, FifoAvailable, Slot, At
<1> QED  BY <1>1, <1>2, NextCases, RxIsr, RxRead, SmallSteps, WriteSteps, RxQuiet

\* The holding register holds one byte.
LEMMA OneByte ==
    ASSUME NEW s \in Seq(Nat), Len(s) <= 1
    PROVE  s = <<>> \/ \E b \in Nat : s = <<b>>
<1>0. Len(s) \in Nat /\ s \in [1 .. Len(s) -> Nat]  BY LenProperties
<1>1. Len(s) \in {0, 1}  BY <1>0
<1>2. CASE Len(s) = 1
  <2>1. 1 \in 1 .. Len(s) /\ s[1] \in Nat  BY <1>0, <1>2
  <2>2. <<s[1]>> \in Seq(Nat) /\ Len(<<s[1]>>) = 1 /\ <<s[1]>>[1] = s[1]  BY <2>1
  <2>3. \A i \in 1 .. Len(s) : s[i] = <<s[1]>>[i]  BY <1>2, <2>2
  <2>4. s = <<s[1]>>  BY <1>2, <2>2, <2>3, SeqEqual
  <2> QED  BY <2>1, <2>4
<1>3. CASE Len(s) = 0  BY <1>3, EmptySeq
<1> QED  BY <1>1, <1>2, <1>3

\* What TxOK says while the transmit side is sound, with the types
LEMMA TxFacts ==
    ASSUME UInv, TxOK, ~TxBroken
    PROVE  /\ sent \in Seq(Nat) /\ \A i \in 1 .. Len(sent) : sent[i] = i
           /\ Len(sent) \in Nat /\ Len(hwtx) \in {0, 1} /\ Taken \in Nat
           /\ hwtx = <<>> \/ \E b \in Nat : hwtx = <<b>>
           /\ hwtx # <<>> => hwtx[1] = Len(sent) + 1
           /\ \A i \in 1 .. FifoAvailable(tx) : tx.data[Slot(tx, i)] = Taken + i
           /\ tx.head \in 0 .. N - 1 /\ tx.tail \in 0 .. N
           /\ tx.data \in [0 .. N - 1 -> Nat]
           /\ FifoAvailable(tx) \in Nat
           /\ tx = [data |-> tx.data, head |-> tx.head, tail |-> tx.tail]
           /\ "tx" \notin crossed /\ "ctrl" \notin crossed
<1> USE UInvFacts
<1>1. "tx" \notin crossed /\ "ctrl" \notin crossed  BY DEF TxBroken
<1>2. /\ sent \in Seq(Nat) /\ \A i \in 1 .. Len(sent) : sent[i] = i
      /\ hwtx # <<>> => hwtx[1] = Len(sent) + 1
      /\ \A i \in 1 .. FifoAvailable(tx) : tx.data[Slot(tx, i)] = Taken + i
      BY DEF TxOK
<1>3. hwtx = <<>> \/ \E b \in Nat : hwtx = <<b>>  BY OneByte DEF TypeOK
<1>4. Len(sent) \in Nat /\ Len(hwtx) \in {0, 1}  BY <1>2, <1>3, LenProperties
<1>5. Taken \in Nat  BY <1>4 DEF Taken
<1>6. /\ tx.head \in 0 .. N - 1 /\ tx.tail \in 0 .. N
      /\ tx.data \in [0 .. N - 1 -> Nat]
      /\ tx = [data |-> tx.data, head |-> tx.head, tail |-> tx.tail]
      BY <1>1 DEF TypeOK, TxType
<1>7. FifoAvailable(tx) \in Nat  BY <1>6 DEF FifoAvailable
<1> QED  BY <1>1, <1>2, <1>3, <1>4, <1>5, <1>6, <1>7

\* A step of a task that leaves the transmit side alone.
LEMMA TxQuiet ==
    ASSUME UInv, TxOK, NEW t \in Tasks, TxSame(t) PROVE TxOK'
<1> SUFFICES ASSUME ~TxBroken' PROVE TxOK'
    BY DEF TxOK
<1>1. ~TxBroken /\ UNCHANGED <<tx, hwtx, written, sent>>  BY DEF TxSame, TxBroken
<1>2. PICK from, to : Steps(t, from, to) /\ (from \in TxPoints <=> to \in TxPoints)
      BY DEF TxSame
<1>3. \A u \in Tasks : task'[u].pc \in TxPoints <=> task[u].pc \in TxPoints
      BY <1>2 DEF Steps
<1>4. Taken' = Taken /\ FifoAvailable(tx') = FifoAvailable(tx)
      /\ \A i : Slot(tx', i) = Slot(tx, i)
      BY <1>1 DEF Taken
<1> QED  BY <1>1, <1>3, <1>4 DEF TxOK, TxPoints

\* The device or the handler moves a byte on.
LEMMA TxLine ==
    ASSUME UInv, TxOK, ByteLeaves \/ Isr PROVE TxOK'
<1> USE UInvFacts
<1> SUFFICES ASSUME ~TxBroken' PROVE TxOK'
    BY DEF TxOK
<1>1. CASE ByteLeaves
  <2>1. /\ ~TxBroken /\ hwtx # <<>> /\ sent' = sent \o hwtx /\ hwtx' = <<>>
        /\ UNCHANGED <<tx, task, written, over>>
        BY <1>1 DEF ByteLeaves, TxBroken
  <2> PICK b \in Nat : hwtx = <<b>>  BY <2>1, TxFacts
  <2>2. /\ sent \in Seq(Nat) /\ \A i \in 1 .. Len(sent) : sent[i] = i
        /\ b = Len(sent) + 1 /\ Taken = Len(sent) + 1 /\ Len(sent) \in Nat
        BY <2>1, TxFacts DEF Taken
  <2>3. sent' = Append(sent, b)  BY <2>1, <2>2
  <2>4. /\ sent' \in Seq(Nat) /\ Len(sent') = Len(sent) + 1
        /\ \A i \in 1 .. Len(sent') : sent'[i] = i
        BY <2>2, <2>3, AppendProperties
  <2>5. Taken' = Taken  BY <2>1, <2>2, <2>4 DEF Taken
  <2>6. FifoAvailable(tx') = FifoAvailable(tx) /\ \A i : Slot(tx', i) = Slot(tx, i)
        BY <2>1
  <2> QED  BY <2>1, <2>4, <2>5, <2>6 DEF TxOK
<1>2. CASE Isr
  <2>1. /\ \A t \in Tasks : task'[t].pc \in TxPoints <=> task[t].pc \in TxPoints
        BY <1>2, IsrTask DEF TxPoints
  <2>2. ~TxBroken /\ UNCHANGED <<written, sent>>  BY <1>2 DEF Isr, IsrRx, TxBroken
  <2>3. CASE TxPending /\ ~TxDisable
    <3>1. \A t \in Tasks : ~Writing(t)
          BY <2>2, <2>3 DEF TxPending, TxBroken, CtrlOK
    <3>2. \A t \in Tasks : task[t].pc \notin TxPoints \cup {"wr_wrap", "wr_wrap_w"}
          BY <3>1 DEF Writing, TxPoints
    <3>3. /\ hwtx = <<>> /\ hwtx' = <<tx.data[tx.head]>> /\ tx' = Pop(tx)
          BY <1>2, <2>3 DEF Isr, IsrTx, TxPending
    <3>4. tx.tail < N  BY <3>2, <2>2 DEF TailOK, TxBroken
    <3>5. tx.tail \in 0 .. N - 1 /\ FifoAvailable(tx) \in 1 .. N - 1
      <4>1. tx.head \in 0 .. N - 1 /\ tx.head \in 0 .. N /\ tx.tail \in 0 .. N - 1 /\ tx.head < N
            BY <2>2, <3>4, TxFacts
      <4>2. tx.head # tx.tail  BY <2>3 DEF TxDisable
      <4> QED  BY <4>1, <4>2, Counts
    <3>6. tx'.data = tx.data /\ tx'.tail = tx.tail /\ tx'.head = Wrap(tx.head + 1)
          BY <2>2, <3>3, TxFacts, PopFields
    <3>7. FifoAvailable(tx') = FifoAvailable(tx) - 1
          /\ \A i \in 1 .. FifoAvailable(tx') : Slot(tx', i) = Slot(tx, i + 1)
      <4>1. tx.head \in 0 .. N - 1 /\ FifoAvailable(tx) > 0  BY <2>2, <3>5, TxFacts
      <4> QED  BY <3>5, <3>6, <4>1, HeadMoves
    <3>8. /\ sent \in Seq(Nat) /\ \A i \in 1 .. Len(sent) : sent[i] = i
          /\ \A i \in 1 .. FifoAvailable(tx) : tx.data[Slot(tx, i)] = Taken + i
          /\ Len(sent) \in Nat
          BY <2>2, TxFacts
    <3>9. written = Taken + FifoAvailable(tx)  BY <2>2, <3>2 DEF TxOK, TxPoints
    <3>10. Taken = Len(sent) /\ Taken' = Len(sent) + 1
           BY <2>2, <3>3, <3>8 DEF Taken
    <3>11. hwtx'[1] = Len(sent') + 1
      <4>1. 1 \in 1 .. FifoAvailable(tx) /\ Slot(tx, 1) = tx.head
        <5>1. tx.head \in 0 .. N - 1  BY <2>2, TxFacts
        <5> QED  BY <3>5, <5>1, Slots
      <4>2. tx.data[tx.head] = Taken + 1  BY <4>1, <3>8
      <4> QED  BY <4>2, <2>2, <3>3, <3>10
    <3>12. \A i \in 1 .. FifoAvailable(tx') : tx'.data[Slot(tx', i)] = Taken' + i
      <4> TAKE i \in 1 .. FifoAvailable(tx')
      <4>1. i + 1 \in 1 .. FifoAvailable(tx)  BY <3>5, <3>7
      <4>2. tx.data[Slot(tx, i + 1)] = Taken + (i + 1)  BY <4>1, <3>8
      <4>3. Taken + (i + 1) = Taken' + i  BY <3>8, <3>10
      <4>4. tx'.data[Slot(tx', i)] = tx.data[Slot(tx, i + 1)]  BY <3>6, <3>7
      <4> QED  BY <4>2, <4>3, <4>4
    <3>13. written' = Taken' + FifoAvailable(tx')
           BY <2>2, <3>5, <3>7, <3>8, <3>9, <3>10
    <3>14. tx'.tail # N /\ \A t \in Tasks : task'[t].pc \notin TxPoints
           BY <2>1, <3>2, <3>5, <3>6
    <3> QED  BY <2>2, <3>8, <3>11, <3>12, <3>13, <3>14 DEF TxOK, TxPoints
  <2>4. CASE ~(TxPending /\ ~TxDisable)
    <3>1. UNCHANGED <<tx, hwtx, written, sent>>  BY <1>2, <2>2, <2>4 DEF Isr, IsrTx
    <3>2. Taken' = Taken /\ FifoAvailable(tx') = FifoAvailable(tx)
          /\ \A i : Slot(tx', i) = Slot(tx, i)
          BY <3>1 DEF Taken
    <3> QED  BY <2>1, <2>2, <3>1, <3>2 DEF TxOK, TxPoints
  <2> QED  BY <2>3, <2>4
<1> QED  BY <1>1, <1>2

\* uart_fifo_add puts the byte in the slot behind the others,
LEMMA TxDataStore ==
    ASSUME UInv, TxOK, NEW t \in Tasks, WriteDataStore(t) PROVE TxOK'
<1> USE UInvFacts
<1> SUFFICES ASSUME ~TxBroken' PROVE TxOK'
    BY DEF TxOK
<1>1. /\ task[t].pc = "wr_data_w" /\ Stored(t, "wr_tail") /\ "wr_tail" \in PCs
      /\ written' = written + 1 /\ ~TxBroken /\ UNCHANGED <<hwtx, sent>>
      BY DEF WriteDataStore, At, PCs, TxBroken
<1>2. PICK r : Moves(t, r) /\ r.pc = "wr_tail"  BY <1>1, StoredMoves
<1>3. /\ tx.tail \in 0 .. N - 1 /\ task[t].idx = tx.tail
      /\ \A u \in Tasks : u # t => ~Writing(u)
  <2>1. Writing(t) /\ "tx" \notin crossed  BY <1>1 DEF Writing, TxBroken
  <2> QED  BY <1>1, <2>1, TailAt
<1>4. tx' = [tx EXCEPT !.data[tx.tail] = written + 1]
      BY <1>3 DEF WriteDataStore
<1>5. /\ tx'.data = [tx.data EXCEPT ![tx.tail] = written + 1]
      /\ tx'.head = tx.head /\ tx'.tail = tx.tail
  <2> DEFINE d == [tx.data EXCEPT ![tx.tail] = written + 1]
  <2>1. tx' = [tx EXCEPT !.data = d]  BY <1>4
  <2> HIDE DEF d
  <2>2. tx'.data = d /\ tx'.head = tx.head /\ tx'.tail = tx.tail  BY <2>1 DEF TxType
  <2> QED  BY <2>2 DEF d
<1>6. FifoAvailable(tx') = FifoAvailable(tx) /\ \A i : Slot(tx', i) = Slot(tx, i)
      BY <1>5 DEF FifoAvailable, Slot
<1>7. \A u \in Tasks : task[u].pc \notin TxPoints
      BY <1>1, <1>3 DEF Writing, TxPoints
<1>8. Taken' = Taken /\ written = Taken + FifoAvailable(tx)
      BY <1>1, <1>7 DEF Taken, TxOK, TxPoints
<1>9. \A i \in 1 .. FifoAvailable(tx') : tx'.data[Slot(tx', i)] = Taken' + i
  <2> TAKE i \in 1 .. FifoAvailable(tx')
  <2>1. tx.head \in 0 .. N - 1  BY <1>1, TxFacts
  <2>2. Slot(tx, i) \in 0 .. N - 1 /\ Slot(tx, i) # tx.tail  BY <1>3, <1>6, <2>1, Slots
  <2>3. tx'.data[Slot(tx', i)] = tx.data[Slot(tx, i)]
    <3>1. tx.data \in [0 .. N - 1 -> Nat]  BY <1>1, TxFacts
    <3> QED  BY <2>2, <3>1, <1>5, <1>6
  <2> QED  BY <2>3, <1>1, <1>6, <1>8, TxFacts
<1>10. tx'.data[tx'.tail] = written'
  <2>1. tx.data \in [0 .. N - 1 -> Nat]  BY <1>1, TxFacts
  <2> QED  BY <2>1, <1>1, <1>3, <1>5
<1>11. written' = Taken' + FifoAvailable(tx') + 1
  <2>1. Taken \in Nat /\ FifoAvailable(tx) \in Nat  BY <1>1, TxFacts
  <2> QED  BY <2>1, <1>1, <1>6, <1>8
<1>12. task'[t].pc = "wr_tail"  BY <1>2, MovesOne
<1>13. tx'.tail # N  BY <1>3, <1>5
<1>14. /\ sent' \in Seq(Nat) /\ \A i \in 1 .. Len(sent') : sent'[i] = i
       /\ hwtx' # <<>> => hwtx'[1] = Len(sent') + 1
       BY <1>1, TxFacts
<1> QED  BY <1>9, <1>10, <1>11, <1>12, <1>13, <1>14 DEF TxOK

\* counts it,
LEMMA TxTailStore ==
    ASSUME UInv, TxOK, NEW t \in Tasks, WriteTailStore(t) PROVE TxOK'
<1> USE UInvFacts
<1> SUFFICES ASSUME ~TxBroken' PROVE TxOK'
    BY DEF TxOK
<1>1. /\ task[t].pc = "wr_tail_w" /\ Stored(t, "wr_wrap") /\ "wr_wrap" \in PCs
      /\ tx' = [tx EXCEPT !.tail = task[t].idx + 1]
      /\ Wrap(task[t].idx + 1) # tx.head
      /\ ~TxBroken /\ UNCHANGED <<hwtx, written, sent>>
      BY DEF WriteTailStore, At, PCs, TxBroken
<1>2. PICK r : Moves(t, r) /\ r.pc = "wr_wrap"  BY <1>1, StoredMoves
<1>3. /\ tx.tail \in 0 .. N - 1 /\ task[t].idx = tx.tail
      /\ \A u \in Tasks : u # t => ~Writing(u)
  <2>1. Writing(t) /\ "tx" \notin crossed  BY <1>1 DEF Writing, TxBroken
  <2> QED  BY <1>1, <2>1, TailAt
<1>4. tx'.data = tx.data /\ tx'.head = tx.head /\ tx'.tail = tx.tail + 1
      BY <1>1, <1>3 DEF TxType
<1>5. /\ FifoAvailable(tx') = FifoAvailable(tx) + 1
      /\ tx'.tail = N => tx'.head # 0
  <2>1. tx.head \in 0 .. N - 1  BY <1>1, TxFacts
  <2> QED  BY <1>1, <1>3, <1>4, <2>1, TailGrows
<1>6. \A i : Slot(tx', i) = Slot(tx, i)  BY <1>4 DEF Slot
<1>7. /\ Taken' = Taken /\ written = Taken + FifoAvailable(tx) + 1
      /\ tx.data[tx.tail] = written
      BY <1>1 DEF Taken, TxOK
<1>8. Taken \in Nat /\ FifoAvailable(tx) \in Nat  BY <1>1, TxFacts
<1>9. \A i \in 1 .. FifoAvailable(tx') : tx'.data[Slot(tx', i)] = Taken' + i
  <2> TAKE i \in 1 .. FifoAvailable(tx')
  <2>1. CASE i = FifoAvailable(tx) + 1
    <3>1. Slot(tx, i) = tx.tail
      <4>1. tx.head \in 0 .. N - 1  BY <1>1, TxFacts
      <4> QED  BY <2>1, <4>1, <1>3, Slots
    <3>2. tx'.data[Slot(tx', i)] = written  BY <3>1, <1>4, <1>6, <1>7
    <3> QED  BY <3>2, <2>1, <1>7, <1>8
  <2>2. CASE i \in 1 .. FifoAvailable(tx)
    <3>1. tx.data[Slot(tx, i)] = Taken + i  BY <2>2, <1>1, TxFacts
    <3> QED  BY <3>1, <1>4, <1>6, <1>7
  <2> QED  BY <2>1, <2>2, <1>5, <1>8
<1>10. written' = Taken' + FifoAvailable(tx')  BY <1>1, <1>5, <1>7, <1>8
<1>11. \A u \in Tasks : task'[u].pc \notin {"wr_tail", "wr_tail_w"}
  <2>1. task'[t].pc = "wr_wrap" /\ \A u \in Tasks : u # t => task'[u] = task[u]
        BY <1>2, MovesOne
  <2> QED  BY <2>1, <1>3 DEF Writing
<1>12. /\ sent' \in Seq(Nat) /\ \A i \in 1 .. Len(sent') : sent'[i] = i
       /\ hwtx' # <<>> => hwtx'[1] = Len(sent') + 1
       BY <1>1, TxFacts
<1> QED  BY <1>5, <1>9, <1>10, <1>11, <1>12 DEF TxOK

\* and wraps the tail.
LEMMA TxWrapStore ==
    ASSUME UInv, TxOK, NEW t \in Tasks, WriteWrapStore(t) PROVE TxOK'
<1> USE UInvFacts
<1> SUFFICES ASSUME ~TxBroken' PROVE TxOK'
    BY DEF TxOK
<1>1. /\ task[t].pc = "wr_wrap_w" /\ NextByte(t)
      /\ tx' = [tx EXCEPT !.tail = 0]
      /\ ~TxBroken /\ UNCHANGED <<hwtx, written, sent>>
      BY DEF WriteWrapStore, At, TxBroken
<1>2. PICK r : Moves(t, r) /\ r.pc \in {"wr_data", "wr_on"}
  <2>1. 1 <= task[t].len /\ task[t].len <= task[t].left  BY <1>1 DEF CallsOK, AddPCs
  <2> QED  BY <2>1, <1>1, NextByteMoves
<1>3. /\ tx.tail = N /\ \A u \in Tasks : u # t => ~Writing(u)
  <2>1. Writing(t) /\ "tx" \notin crossed  BY <1>1 DEF Writing, TxBroken
  <2> QED  BY <1>1, <2>1, TailAt
<1>4. tx'.data = tx.data /\ tx'.head = tx.head /\ tx'.tail = 0
      BY <1>1 DEF TxType
<1>5. tx.head # 0 /\ tx.head \in 0 .. N - 1  BY <1>1, <1>3, TxFacts DEF TxOK
<1>6. FifoAvailable(tx') = FifoAvailable(tx) /\ \A i : Slot(tx', i) = Slot(tx, i)
      BY <1>3, <1>4, <1>5 DEF FifoAvailable, Slot
<1>7. \A u \in Tasks : task[u].pc \notin TxPoints
      BY <1>1, <1>3 DEF Writing, TxPoints
<1>8. Taken' = Taken /\ written = Taken + FifoAvailable(tx)
      BY <1>1, <1>7 DEF Taken, TxOK, TxPoints
<1>9. \A i \in 1 .. FifoAvailable(tx') : tx'.data[Slot(tx', i)] = Taken' + i
      BY <1>1, <1>4, <1>6, <1>8, TxFacts
<1>10. \A u \in Tasks : task'[u].pc \notin {"wr_tail", "wr_tail_w"}
  <2>1. task'[t].pc = r.pc /\ \A u \in Tasks : u # t => task'[u] = task[u]
        BY <1>2, MovesOne
  <2> QED  BY <1>2, <1>7, <2>1 DEF TxPoints
<1>11. tx'.tail # N  BY <1>4
<1>12. /\ sent' \in Seq(Nat) /\ \A i \in 1 .. Len(sent') : sent'[i] = i
       /\ hwtx' # <<>> => hwtx'[1] = Len(sent') + 1
       BY <1>1, TxFacts
<1> QED  BY <1>1, <1>6, <1>8, <1>9, <1>10, <1>11, <1>12 DEF TxOK

LEMMA TxStep ==
    ASSUME UInv, TxOK, [Next]_vars PROVE TxOK'
<1>1. CASE ByteArrives \/ UNCHANGED vars
  <2>1. UNCHANGED <<tx, hwtx, task, written, sent, over, crossed>>
        BY <1>1 DEF ByteArrives, vars
  <2> QED  BY <2>1 DEF TxOK, TxBroken, Taken, FifoAvailable, Slot
<1> QED  BY <1>1, NextCases, TxLine, SmallSteps, ReadSteps, WriteSteps, TxQuiet,
            TxDataStore, TxTailStore, TxWrapStore

LEMMA BytesInit ==
    ASSUME Init PROVE RxOK /\ TxOK
<1>1. /\ \A t \in Tasks : task[t].pc = "ready"
      /\ rx.head = 0 /\ rx.tail = 0 /\ tx.head = 0 /\ tx.tail = 0
      /\ arrived = 0 /\ written = 0 /\ got = <<>> /\ sent = <<>>
      /\ hwrx = <<>> /\ hwtx = <<>>
      BY DEF Init, Idle, Empty
<1>2. FifoAvailable(rx) = 0 /\ FifoAvailable(tx) = 0
      BY <1>1 DEF FifoAvailable
<1>3. Removed = 0 /\ Taken = 0 /\ task[reader].pc = "ready"
      BY <1>1, UartAssumption DEF Removed, Taken, At
<1> QED  BY <1>1, <1>2, <1>3, UartAssumption DEF RxOK, TxOK, At

\* Three runs of numbers that go on from each other count on.
LEMMA CountOn ==
    ASSUME NEW a \in Seq(Nat), NEW b \in Seq(Nat), NEW d \in Seq(Nat),
           \A i \in 1 .. Len(a) : a[i] = i,
           \A i \in 1 .. Len(b) : b[i] = Len(a) + i,
           \A i \in 1 .. Len(d) : d[i] = Len(a) + Len(b) + i
    PROVE  InOrder(a \o b \o d)
<1>1. Len(a) \in Nat /\ Len(b) \in Nat /\ Len(d) \in Nat  BY LenProperties
<1> DEFINE ab == a \o b
<1>2. /\ ab \in Seq(Nat) /\ Len(ab) = Len(a) + Len(b)
      /\ \A i \in 1 .. Len(a) + Len(b) :
            ab[i] = IF i <= Len(a) THEN a[i] ELSE b[i - Len(a)]
      BY ConcatProperties
<1>3. \A i \in 1 .. Len(ab) : ab[i] = i
  <2> TAKE i \in 1 .. Len(ab)
  <2>1. CASE i <= Len(a)  BY <2>1, <1>1, <1>2
  <2>2. CASE ~(i <= Len(a))
    <3>1. i - Len(a) \in 1 .. Len(b)  BY <2>2, <1>1, <1>2
    <3> QED  BY <3>1, <2>2, <1>1, <1>2
  <2> QED  BY <2>1, <2>2
<1> HIDE DEF ab
<1>4. /\ Len(ab \o d) = Len(ab) + Len(d)
      /\ \A i \in 1 .. Len(ab) + Len(d) :
            (ab \o d)[i] = IF i <= Len(ab) THEN ab[i] ELSE d[i - Len(ab)]
      BY <1>2, ConcatProperties
<1>5. ASSUME NEW i \in 1 .. Len(ab \o d) PROVE (ab \o d)[i] = i
  <2>1. CASE i <= Len(ab)  BY <2>1, <1>1, <1>2, <1>3, <1>4
  <2>2. CASE ~(i <= Len(ab))
    <3>1. i - Len(ab) \in 1 .. Len(d)  BY <2>2, <1>1, <1>2, <1>4
    <3>2. d[i - Len(ab)] = Len(a) + Len(b) + (i - Len(ab))  BY <3>1
    <3>3. (ab \o d)[i] = d[i - Len(ab)]  BY <2>2, <1>1, <1>2, <1>4
    <3> QED  BY <3>2, <3>3, <1>1, <1>2
  <2> QED  BY <2>1, <2>2
<1> QED  BY <1>5 DEF InOrder, ab

\* One turn around the FIFO
LEMMA ModFold ==
    ASSUME NEW n \in Nat, n > 0, NEW a \in 0 .. 2 * n - 1
    PROVE  a % n = IF a >= n THEN a - n ELSE a
<1>1. CASE a < n  BY <1>1
<1>2. CASE a >= n
  <2>1. a = n + (a - n) /\ a - n \in 0 .. n - 1  BY <1>2
  <2> QED  BY <2>1, <1>2
<1> QED  BY <1>1, <1>2

\* Contents lists the slots in order.
LEMMA ContentsSlots ==
    ASSUME NEW f, f.head \in 0 .. N, FifoAvailable(f) \in 0 .. N,
           f.data \in [0 .. N - 1 -> Nat]
    PROVE  /\ Contents(f) \in Seq(Nat) /\ Len(Contents(f)) = FifoAvailable(f)
           /\ \A i \in 1 .. FifoAvailable(f) : Contents(f)[i] = f.data[Slot(f, i)]
<1>1. N \in Nat /\ N > 0  BY UartAssumption
<1>2. ASSUME NEW i \in 1 .. FifoAvailable(f)
      PROVE  /\ (f.head + i - 1) % N = Slot(f, i) /\ Slot(f, i) \in 0 .. N - 1
             /\ f.data[(f.head + i - 1) % N] \in Nat
  <2> DEFINE a == f.head + i - 1
  <2>1. a \in 0 .. 2 * N - 1  BY <1>1
  <2>2. Slot(f, i) = IF a >= N THEN a - N ELSE a  BY <1>1 DEF Slot
  <2> HIDE DEF a
  <2>3. a % N = Slot(f, i)  BY <1>1, <2>1, <2>2, ModFold
  <2>4. Slot(f, i) \in 0 .. N - 1  BY <1>1, <2>1, <2>2
  <2>5. f.data[Slot(f, i)] \in Nat  BY <2>4
  <2> QED  BY <2>3, <2>4, <2>5 DEF a
<1> DEFINE n == FifoAvailable(f)
           g == [i \in 1 .. n |-> f.data[(f.head + i - 1) % N]]
<1>3. g \in [1 .. n -> Nat] /\ \A i \in 1 .. n : g[i] = f.data[Slot(f, i)]
      BY <1>2
<1>4. n \in Nat  BY <1>1
<1> HIDE DEF n, g
<1>5. g \in Seq(Nat) /\ Len(g) = n  BY <1>3, <1>4
<1>6. Contents(f) = g  BY DEF Contents, g, n
<1> QED  BY <1>3, <1>5, <1>6 DEF n

LEMMA RxSuffices ==
    ASSUME UInv, RxOK PROVE RxInOrder
<1> USE UInvFacts
<1> SUFFICES ASSUME ~RxBroken PROVE InOrder(got \o Unread \o hwrx)
    BY DEF RxInOrder
<1> DEFINE s == Contents(rx)
           b == IF task[reader].pc = "rd_head" THEN Tail(s) ELSE s
<1>1. /\ rx.head \in 0 .. N /\ rx.tail \in 0 .. N - 1
      /\ rx.data \in [0 .. N - 1 -> 0 .. MaxIn]
      BY DEF RxType
<1>2. FifoAvailable(rx) \in 0 .. N - 1  BY <1>1, Counts
<1>3. s \in Seq(Nat) /\ Len(s) = FifoAvailable(rx)
      /\ \A i \in 1 .. FifoAvailable(rx) : s[i] = rx.data[Slot(rx, i)]
  <2>1. rx.data \in [0 .. N - 1 -> Nat]  BY <1>1
  <2>2. FifoAvailable(rx) \in 0 .. N  BY <1>2
  <2> QED  BY <1>1, <2>1, <2>2, ContentsSlots
<1>4. /\ got \in Seq(Nat) /\ \A i \in 1 .. Len(got) : got[i] = i
      /\ \A i \in 1 .. FifoAvailable(rx) : rx.data[Slot(rx, i)] = Removed + i
      /\ hwrx # <<>> => hwrx[1] = Removed + FifoAvailable(rx) + 1
      /\ task[reader].pc = "rd_head" => FifoAvailable(rx) > 0
      BY DEF RxOK
<1>5. Len(got) \in Nat  BY <1>4, LenProperties
<1> HIDE DEF s
<1>6. /\ b \in Seq(Nat) /\ \A i \in 1 .. Len(b) : b[i] = Len(got) + i
      /\ Len(got) + Len(b) = Removed + FifoAvailable(rx)
  <2>1. CASE task[reader].pc = "rd_head"
    <3>1. b = Tail(s) /\ s # <<>> /\ Removed = Len(got) - 1
          BY <2>1, <1>3, <1>4 DEF Removed, At
    <3>2. /\ b \in Seq(Nat) /\ Len(b) = Len(s) - 1
          /\ \A i \in 1 .. Len(b) : b[i] = s[i + 1]
          BY <3>1, <1>3, HeadTailProperties
    <3> HIDE DEF b
    <3>3. ASSUME NEW i \in 1 .. Len(b) PROVE b[i] = Len(got) + i
      <4>1. i + 1 \in 1 .. FifoAvailable(rx)  BY <3>2, <1>2, <1>3
      <4>2. s[i + 1] = Removed + (i + 1)  BY <4>1, <1>3, <1>4
      <4> QED  BY <4>2, <3>1, <3>2, <1>5
    <3>4. Len(b) = FifoAvailable(rx) - 1  BY <3>2, <1>3
    <3>5. Len(got) + Len(b) = Removed + FifoAvailable(rx)
          BY <3>1, <3>4, <1>2, <1>5
    <3> QED  BY <3>2, <3>3, <3>5
  <2>2. CASE task[reader].pc # "rd_head"
    <3>1. b = s /\ Removed = Len(got)  BY <2>2 DEF Removed, At
    <3> HIDE DEF b
    <3> QED  BY <3>1, <1>3, <1>4
  <2> QED  BY <2>1, <2>2
<1>7. b = Unread  BY DEF At, s, Unread
<1> HIDE DEF b
<1>8. hwrx \in Seq(Nat) /\ \A i \in 1 .. Len(hwrx) : hwrx[i] = Len(got) + Len(b) + i
  <2>1. CASE hwrx = <<>>  BY <2>1
  <2>2. CASE hwrx # <<>>
    <3> PICK x \in 1 .. MaxIn : hwrx = <<x>>  BY <2>2
    <3>1. x = Len(got) + Len(b) + 1  BY <1>4, <1>6
    <3> QED  BY <3>1
  <2> QED  BY <2>1, <2>2
<1>9. InOrder(got \o b \o hwrx)  BY <1>4, <1>6, <1>8, CountOn
<1> QED  BY <1>7, <1>9

LEMMA TxSuffices ==
    ASSUME UInv, TxOK PROVE TxInOrder
<1> SUFFICES ASSUME ~TxBroken PROVE InOrder(sent \o hwtx \o Contents(tx))
    BY DEF TxInOrder
<1> DEFINE s == Contents(tx)
<1>1. /\ sent \in Seq(Nat) /\ \A i \in 1 .. Len(sent) : sent[i] = i
      /\ Len(sent) \in Nat
      /\ \A i \in 1 .. FifoAvailable(tx) : tx.data[Slot(tx, i)] = Len(sent) + Len(hwtx) + i
      /\ tx.head \in 0 .. N - 1 /\ tx.tail \in 0 .. N
      /\ tx.data \in [0 .. N - 1 -> Nat]
      BY TxFacts DEF Taken
<1>2. FifoAvailable(tx) \in 0 .. N  BY <1>1, UartAssumption DEF FifoAvailable
<1>3. s \in Seq(Nat) /\ Len(s) = FifoAvailable(tx)
      /\ \A i \in 1 .. FifoAvailable(tx) : s[i] = tx.data[Slot(tx, i)]
  <2>1. tx.head \in 0 .. N  BY <1>1, UartAssumption
  <2> QED  BY <1>1, <1>2, <2>1, ContentsSlots
<1>4. hwtx \in Seq(Nat) /\ \A i \in 1 .. Len(hwtx) : hwtx[i] = Len(sent) + i
  <2>1. CASE hwtx = <<>>  BY <2>1
  <2>2. CASE hwtx # <<>>
    <3> PICK x \in Nat : hwtx = <<x>>  BY <2>2, TxFacts
    <3>1. x = Len(sent) + 1  BY TxFacts
    <3> QED  BY <3>1
  <2> QED  BY <2>1, <2>2
<1> HIDE DEF s
<1>5. \A i \in 1 .. Len(s) : s[i] = Len(sent) + Len(hwtx) + i  BY <1>1, <1>3
<1>6. InOrder(sent \o hwtx \o s)  BY <1>1, <1>3, <1>4, <1>5, CountOn
<1> QED  BY <1>6 DEF s

-----------------------------------------------------------------------------
(* Theorems *)

\* Indices, counts and program points stay in their ranges whatever the FIFO's
\* size and however many tasks print, also when a write overruns the FIFO; while
\* uart_write was not entered by two tasks, none stores behind data[N - 1].
THEOREM TypeCorrect == Spec => []TypeOK
<1>1. UInv => TypeOK  BY DEF UInv
<1> QED  BY <1>1, UInvAlways, PTL

\* uart_read and uart_write do not run on a FIFO while the interrupt that works on
\* its other end is enabled (dev/uart.c:71, dev/uart.c:98), unless a task stored
\* UART1Ctrl while another held a copy of it, or two were in uart_write at once.
THEOREM InterruptsKeptOut == Spec => []KeptOut
<1>1. UInv => KeptOut  BY CtrlSuffices
<1> QED  BY <1>1, UInvAlways, PTL

\* With any number of tasks in uart_write at once, bytes that are queued while no
\* write is under way have their interrupt enabled, and so has the task that sleeps
\* for input, as long as no copy of UART1Ctrl went stale by another task's store:
\* what the handler does to the register is never undone for good.
THEOREM InterruptsArmed == Spec => []Armed
<1>1. UInv => Armed  BY CtrlSuffices
<1> QED  BY <1>1, UInvAlways, PTL

\* Up to the first overrun or crossing, every byte goes through the FIFOs once and
\* in order, for every FIFO size, length of cons_write, number of tasks and
\* interleaving of theirs with the handler.
THEOREM NoByteLost == Spec => []BytesInOrder
<1>1. Init => RxOK /\ TxOK  BY BytesInit
<1>2. UInv /\ RxOK /\ TxOK /\ [Next]_vars => (RxOK /\ TxOK)'
      BY RxStep, TxStep
<1>3. UInv /\ RxOK /\ TxOK => BytesInOrder
      BY RxSuffices, TxSuffices DEF BytesInOrder
<1> QED  BY <1>1, <1>2, <1>3, UInvAlways, PTL DEF Spec
=============================================================================
