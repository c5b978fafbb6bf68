-------------------------------- MODULE Nand --------------------------------
(***************************************************************************)
(* The NAND flash driver (dev/nand.c) and the console commands that use it *)
(* (user/console.c). A command of the driver is a program of bus cycles;   *)
(* the chip on the other side of the bus takes them according to the       *)
(* command it is in, and is busy on its own while it loads, programs or    *)
(* erases. The chip is external: it is what the driver's use of it says.   *)
(*                                                                         *)
(* A page is a function from the columns the driver addresses to cells:    *)
(* blocks of 256 bytes, the byte that marks a bad page, codes of 3 bytes.  *)
(* A cell is the set of its bits that are one. Programming only clears     *)
(* bits, and bits change by themselves.                                    *)
(***************************************************************************)
EXTENDS Hamming, Sequences

CONSTANTS
    NumPages, PagesPerBlock,
    Protected,      \* erase blocks of the bootrom and of RedBoot
    BadPages,       \* pages the manufacturer marked
    Unknown,        \* contents nobody is told anything about
    Commands,       \* bound: the commands that are given
    MaxCommands,    \* bound: how many
    Weak,           \* bound: the bits that may change, as <<page, column, bit>>
    MaxFlips        \* bound: how many change in one run

VARIABLES
    cmd,        \* the command of the console being run, or run last
    todo,       \* the bus cycles the driver has left
    buf, cell,  \* the page and the cell the last data cycles gave
    verdicts,   \* what nand_read_page said of each block
    bad,        \* the pages cmd_nand_bbscan has counted
    sel,        \* the chip is selected
    chip,       \* its registers
    array,      \* its memory
    want,       \* history: what the user was told the pages hold
    flips,      \* history: the bits that have changed since the last erase
    given       \* history: number of commands

vars == <<cmd, todo, buf, cell, verdicts, bad, sel, chip, array, want, flips, given>>
driver == <<cmd, buf, cell, verdicts, bad, given>>

-----------------------------------------------------------------------------
(* The layout of a page *)

PAGE_SIZE == 2048

Blocks == 0 .. 7
Sectors == 0 .. 3
Pages == 0 .. NumPages - 1

BlockCol(i) == i * 256
CodeCol(i) == PAGE_SIZE + 40 + i * 3

\* Fault: the codes of a sector are three bytes apart.
SectorCodeColThree(s) == PAGE_SIZE + 40 + s * 3

\* Where nand_write_sector puts the two codes of sector s
SectorCodeCol(s) == PAGE_SIZE + 40 + s * 6

MarkCol == PAGE_SIZE

Columns ==
    {BlockCol(i) : i \in Blocks} \union {MarkCol} \union {CodeCol(i) : i \in Blocks}

\* A cell of ones. Of the mark only whether it is 0xFF matters.
Ones(c) == IF c < MarkCol THEN Bits ELSE IF c = MarkCol THEN {1} ELSE CodeBits
Erased == [c \in Columns |-> Ones(c)]
Width(c) == IF c < MarkCol THEN 256 ELSE 3

\* A command names pages, blocks, sectors and columns that the chip has, as
\* the driver takes for granted, and data for two blocks.
CommandOK(c) ==
    \/ c.op \in {"reset", "readid", "bbscan"}
    \/ c.op = "readpage" /\ c.page \in Pages
    \/ c.op = "read" /\ c.page \in Pages /\ c.col \in Columns
    \/ /\ c.op = "eraseblock" /\ c.yes \in BOOLEAN
       /\ c.block \in Nat /\ c.block * PagesPerBlock \in Pages
    \/ /\ c.op = "fillsect" /\ c.page \in Pages /\ c.sect \in Sectors
       /\ c.data = <<c.data[1], c.data[2]>>
       /\ c.data[1] \in SUBSET Bits /\ c.data[2] \in SUBSET Bits

\* Nothing else is known of the chip's size, nor of the protected and the
\* marked pages.
ASSUME NandAssumption ==
    /\ NumPages \in Nat \ {0} /\ PagesPerBlock \in Nat \ {0}
    /\ MaxCommands \in Nat /\ MaxFlips \in Nat
    /\ \A c \in Commands : CommandOK(c)
    /\ \A f \in Weak : /\ f = <<f[1], f[2], f[3]>>
                      /\ f[1] \in Pages /\ f[2] \in Columns /\ f[3] \in Ones(f[2])
    /\ \A x \in SUBSET Bits : x # Unknown

\* Page x with cells put at columns c, c + Width(c), ...
Stored(x, c, cells) ==
    [k \in Columns |->
        IF k >= c /\ (k - c) % Width(c) = 0 /\ (k - c) \div Width(c) < Len(cells)
            THEN cells[(k - c) \div Width(c) + 1]
            ELSE x[k]]

-----------------------------------------------------------------------------
(* The driver: what each function does on the bus *)

Cmd(c) == [k |-> "cmd", v |-> c]
Addr(a) == [k |-> "addr", v |-> a]
Input(cells) == [k |-> "input", v |-> cells]
Output(what) == [k |-> "output", v |-> what]
Ready == [k |-> "ready"]
Select == [k |-> "select"]
Deselect == [k |-> "deselect"]

Col(c) == <<"col", c>>
Row(p) == <<"row", p>>

\* Fault: the chip is left busy.
NandResetHasty == <<Select, Cmd("RESET"), Deselect>>

NandReset == <<Select, Cmd("RESET"), Ready, Deselect>>

\* The command is first sent as a byte of data.
NandReadId ==
    <<Select, Input(<<{}>>), Cmd("READ_ID"), Addr(Col(0)), Ready, Output("id"), Deselect>>

LoadPage(p) ==
    <<Cmd("READ"), Addr(Col(0)), Addr(Row(p)), Cmd("READ_CONFIRM"), Ready>>

NandReadPage(p) ==
    <<Select>> \o LoadPage(p) \o <<Output("page"), Deselect, [k |-> "validate"]>>

\* Fault: the column is sent, but not confirmed.
NandReadUnsought(p, c) ==
    <<Select>> \o LoadPage(p)
    \o <<Cmd("RND_READ"), Addr(Col(c)), Ready, Output("cell"), Deselect>>

NandRead(p, c) ==
    <<Select>> \o LoadPage(p)
    \o <<Cmd("RND_READ"), Addr(Col(c)), Cmd("RND_READ_CONFIRM"), Ready,
         Output("cell"), Deselect>>

NandStatus == <<Cmd("READ_STATUS"), Output("status")>>

\* Fault: the block's number is sent as a page's.
NandEraseUnscaled(block) ==
    <<Select, Cmd("BLOCK_ERASE"), Addr(Row(block)), Cmd("BLOCK_ERASE_CONFIRM"), Ready>>
    \o NandStatus \o <<Deselect>>

NandErase(block) ==
    <<Select, Cmd("BLOCK_ERASE"), Addr(Row(block * PagesPerBlock)),
      Cmd("BLOCK_ERASE_CONFIRM"), Ready>>
    \o NandStatus \o <<Deselect>>

NandWriteSector(p, s, data) ==
    <<Select, Cmd("PROGRAM_PAGE"), Addr(Col(s * 512)), Addr(Row(p)), Input(data),
      Cmd("RANDOM_DATA_INPUT"), Addr(Col(SectorCodeCol(s))),
      Input(<<Compute(data[1]), Compute(data[2])>>),
      Cmd("PROGRAM_PAGE_CONFIRM"), Ready>>
    \o NandStatus \o <<Deselect>>

\* cmd_nand_bbscan counts the page it has just read the mark of.
ScanPage(p) == NandRead(p, MarkCol) \o <<[k |-> "count", v |-> p]>>

\* cmd_nand: the cycles of a command. An unconfirmed erase of a protected
\* block comes to nothing.
Program(c) ==
    CASE c.op = "reset"    -> NandReset
      [] c.op = "readid"   -> NandReadId
      [] c.op = "readpage" -> NandReadPage(c.page)
      [] c.op = "read"     -> NandRead(c.page, c.col)
      [] c.op = "bbscan"   -> ScanPage(0)
      [] c.op = "fillsect" -> NandWriteSector(c.page, c.sect, c.data)
      [] c.op = "eraseblock" ->
            IF c.block \in Protected /\ ~c.yes THEN <<>> ELSE NandErase(c.block)

-----------------------------------------------------------------------------
(* The chip: a table of what each command, address and data cycle does *)

Idle == "idle"

\* The commands that are taken in each mode
Opens == {"RESET", "READ", "PROGRAM_PAGE", "BLOCK_ERASE", "READ_STATUS", "READ_ID"}
Follows(mode) ==
    CASE mode = "READ"         -> {"READ_CONFIRM"}
      [] mode = "READ_CONFIRM" -> {"RND_READ"}
      [] mode = "RND_READ"     -> {"RND_READ_CONFIRM"}
      [] mode = "PROGRAM_PAGE" -> {"RANDOM_DATA_INPUT", "PROGRAM_PAGE_CONFIRM"}
      [] mode = "RANDOM_DATA_INPUT" -> {"RANDOM_DATA_INPUT", "PROGRAM_PAGE_CONFIRM"}
      [] mode = "BLOCK_ERASE"  -> {"BLOCK_ERASE_CONFIRM"}
      [] mode = "RND_READ_CONFIRM" -> {"RND_READ"}
      [] OTHER                 -> {}

Works == {"RESET", "READ_CONFIRM", "PROGRAM_PAGE_CONFIRM", "BLOCK_ERASE_CONFIRM"}
Loaded == {"READ_CONFIRM", "RND_READ_CONFIRM"}
Programming == {"PROGRAM_PAGE", "RANDOM_DATA_INPUT"}

Modes == Opens \union (UNION {Follows(m) : m \in Opens}) \union
         {"RND_READ", "RND_READ_CONFIRM", Idle}

ChipCmd(c) ==
    IF c \notin Opens \union Follows(chip.mode) THEN chip
    ELSE [chip EXCEPT !.mode = c, !.busy = c \in Works,
                      !.reg = IF c = "PROGRAM_PAGE" THEN Erased ELSE @]

ChipAddr(a) ==
    IF a[1] = "col" THEN [chip EXCEPT !.col = a[2]]
                    ELSE [chip EXCEPT !.row = a[2] % NumPages]

ChipInput(cells) ==
    IF chip.mode \in Programming
        THEN [chip EXCEPT !.reg = Stored(@, chip.col, cells)]
        ELSE chip

\* What the data cycles give: nothing sensible in a mode that has none.
ChipPage == IF sel /\ chip.mode \in Loaded THEN chip.reg ELSE Erased
ChipCell == IF sel /\ chip.mode \in Loaded THEN chip.reg[chip.col] ELSE {}
ChipStatus == IF sel /\ chip.mode = "READ_STATUS" THEN chip.status ELSE "fail"

Block(p) == p \div PagesPerBlock

\* Memory x after the chip has done what it was told
Programmed(x) == [x EXCEPT ![chip.row] = [c \in Columns |-> @[c] \intersect chip.reg[c]]]
BlockErased(x) == [p \in Pages |-> IF Block(p) = Block(chip.row) THEN Erased ELSE x[p]]

\* The chip finishes. Programming and erasing may fail.
ChipDone ==
    /\ chip.busy
    /\ \/ /\ chip.mode = "RESET"
          /\ chip' = [chip EXCEPT !.busy = FALSE, !.mode = Idle]
          /\ UNCHANGED array
       \/ /\ chip.mode = "READ_CONFIRM"
          /\ chip' = [chip EXCEPT !.busy = FALSE, !.reg = array[chip.row]]
          /\ UNCHANGED array
       \/ /\ chip.mode = "PROGRAM_PAGE_CONFIRM"
          /\ chip' = [chip EXCEPT !.busy = FALSE, !.status = "ok"]
          /\ array' = Programmed(array)
       \/ /\ chip.mode = "BLOCK_ERASE_CONFIRM"
          /\ chip' = [chip EXCEPT !.busy = FALSE, !.status = "ok"]
          /\ array' = BlockErased(array)
       \/ /\ chip.mode \in {"PROGRAM_PAGE_CONFIRM", "BLOCK_ERASE_CONFIRM"}
          /\ chip' = [chip EXCEPT !.busy = FALSE, !.status = "fail"]
          /\ UNCHANGED array
    /\ flips' = IF chip.mode = "BLOCK_ERASE_CONFIRM" /\ chip'.status = "ok"
                THEN {f \in flips : Block(f[1]) # Block(chip.row)} ELSE flips
    /\ UNCHANGED <<driver, todo, sel, want>>

\* A bit changes while the chip rests.
Flip(f) ==
    /\ todo = <<>>
    /\ Cardinality(flips) < MaxFlips
    /\ f \notin flips
    /\ flips' = flips \union {f}
    /\ array' = [array EXCEPT ![f[1]][f[2]] = SymDiff(@, {f[3]})]
    /\ cmd' = [op |-> "none"]
    /\ UNCHANGED <<todo, buf, cell, verdicts, bad, sel, chip, want, given>>

-----------------------------------------------------------------------------
(* What the user is told *)

DataCols(s) == {BlockCol(2 * s), BlockCol(2 * s + 1)}

\* The blocks of sector s of a page were erased when they are written once.
Wanted(status) ==
    CASE cmd.op = "eraseblock" ->
            [p \in Pages |->
                IF Block(p) # cmd.block THEN want[p]
                ELSE [i \in Blocks |-> IF status = "ok" THEN Bits ELSE Unknown]]
      [] cmd.op = "fillsect" ->
            [want EXCEPT ![cmd.page] =
                [i \in Blocks |->
                    IF i \div 2 # cmd.sect THEN @[i]
                    ELSE IF status = "ok" /\ @[i] = Bits THEN cmd.data[(i % 2) + 1]
                    ELSE Unknown]]

-----------------------------------------------------------------------------
(* Steps of the driver: the next cycle *)

Take(k) == todo # <<>> /\ Head(todo).k = k /\ todo' = Tail(todo)
Arg == Head(todo).v

DoSelect ==
    /\ \/ Take("select") /\ sel' = TRUE
       \/ Take("deselect") /\ sel' = FALSE
    /\ UNCHANGED <<driver, chip, array, want, flips>>

\* A chip that is busy or not selected takes no cycle.
DoWrite ==
    /\ \E k \in {"cmd", "addr", "input"} :
           /\ Take(k)
           /\ chip' = IF chip.busy \/ ~sel THEN chip
                      ELSE CASE k = "cmd" -> ChipCmd(Arg)
                             [] k = "addr" -> ChipAddr(Arg)
                             [] k = "input" -> ChipInput(Arg)
    /\ UNCHANGED <<driver, sel, array, want, flips>>

\* Fault: the busy bit is read the wrong way round.
DoReadyInverted ==
    /\ Take("ready")
    /\ chip.busy
    /\ UNCHANGED <<driver, sel, chip, array, want, flips>>

\* while (nand_busy());
DoReady ==
    /\ Take("ready")
    /\ ~chip.busy
    /\ UNCHANGED <<driver, sel, chip, array, want, flips>>

DoRead ==
    /\ Take("output")
    /\ buf' = IF Arg = "page" THEN ChipPage ELSE buf
    /\ cell' = IF Arg = "cell" THEN ChipCell ELSE cell
    /\ want' = IF Arg = "status" THEN Wanted(ChipStatus) ELSE want
    /\ UNCHANGED <<cmd, verdicts, bad, given, sel, chip, array, flips>>

\* nand_read_page: each block is checked with the code that was read with it.
DoValidate ==
    /\ Take("validate")
    /\ LET code(i) == Compute(buf[BlockCol(i)])
           old(i) == buf[CodeCol(i)]
       IN  /\ verdicts' = [i \in Blocks |-> Verdict(old(i), code(i))]
           /\ buf' = [c \in Columns |->
                  IF c < MarkCol
                      THEN Corrected(buf[c], old(c \div 256), code(c \div 256))
                      ELSE buf[c]]
    /\ UNCHANGED <<cmd, cell, bad, given, sel, chip, array, want, flips>>

\* cmd_nand_bbscan: the mark just read is counted, and the loop goes on.
DoCount ==
    /\ todo # <<>> /\ Head(todo).k = "count"
    /\ todo' = IF Arg + 1 < NumPages THEN ScanPage(Arg + 1) ELSE <<>>
    /\ bad' = IF cell # {1} THEN bad \union {Arg} ELSE bad
    /\ UNCHANGED <<cmd, buf, cell, verdicts, given, sel, chip, array, want, flips>>

DriverStep == DoSelect \/ DoWrite \/ DoReady \/ DoRead \/ DoValidate \/ DoCount

\* The user gives a command.
Give(c) ==
    /\ todo = <<>>
    /\ given < MaxCommands
    /\ cmd' = c
    /\ todo' = Program(c)
    /\ buf' = Erased
    /\ cell' = {}
    /\ verdicts' = <<>>
    /\ bad' = {}
    /\ given' = given + 1
    /\ UNCHANGED <<sel, chip, array, want, flips>>

Marked(p) == [Erased EXCEPT ![MarkCol] = IF p \in BadPages THEN {} ELSE @]

Init ==
    /\ cmd = [op |-> "none"]
    /\ todo = <<>> /\ buf = Erased /\ cell = {} /\ verdicts = <<>> /\ bad = {} /\ given = 0
    /\ sel = FALSE
    /\ chip = [mode |-> Idle, busy |-> FALSE, col |-> 0, row |-> 0,
               reg |-> Erased, status |-> "ok"]
    /\ array = [p \in Pages |-> Marked(p)]
    /\ want = [p \in Pages |-> [i \in Blocks |-> Bits]]
    /\ flips = {}

Next ==
    \/ DriverStep
    \/ ChipDone
    \/ \E c \in Commands : Give(c)
    \/ \E f \in Weak : Flip(f)

Spec == Init /\ [][Next]_vars

\* The driver does not stop in the middle of a command, and the chip finishes.
FairSpec == Spec /\ WF_vars(DriverStep) /\ WF_vars(ChipDone)

-----------------------------------------------------------------------------
(* Properties *)

\* The chip is selected only while a command runs, is busy only in a command
\* that works, and holds cells of their width (nand_select, nand_deselect).
TypeOK ==
    /\ chip.mode \in Modes
    /\ chip.busy => chip.mode \in Works
    /\ chip.row \in Pages
    /\ chip.col \in {s * 512 : s \in Sectors} \union Columns
    /\ todo = <<>> => ~sel /\ ~chip.busy
    /\ \A p \in Pages, c \in Columns :
           array[p][c] \subseteq Ones(c) /\ chip.reg[c] \subseteq Ones(c)
    /\ \A p \in Pages, i \in Blocks : want[p][i] = Unknown \/ want[p][i] \subseteq Bits
    /\ flips \subseteq Weak
    /\ bad \subseteq Pages

Finished(op) == todo = <<>> /\ cmd.op = op
Faults(p, i) == Cardinality({f \in flips : f[1] = p /\ f[2] \in {BlockCol(i), CodeCol(i)}})

RawExact ==
    /\ Finished("read") => cell = array[cmd.page][cmd.col]
    /\ Finished("bbscan") => bad = {p \in Pages : array[p][MarkCol] # {1}}

PageExact ==
    Finished("readpage") =>
        \A i \in Blocks :
            LET w == want[cmd.page][i]
                n == Faults(cmd.page, i)
                same == buf[BlockCol(i)] = w
            IN  w # Unknown =>
                    /\ n = 0 => same /\ verdicts[i] = "valid"
                    /\ n = 1 => same /\ verdicts[i] # "multi"
                    /\ n = 2 => same \/ verdicts[i] = "multi"

\* nand_read_page gives back what an erase or a write reported as done has
\* left, unchanged without a fault, corrected with one; with two it may not,
\* but then it says so (nand.c, hamming.c). nand_read gives the cell that is
\* addressed, and cmd_nand_bbscan counts exactly the pages that are marked.
ReadsBack == PageExact /\ RawExact

\* The cells a command is about
Target(p) ==
    CASE cmd.op = "fillsect" /\ p = cmd.page ->
            DataCols(cmd.sect) \union {CodeCol(2 * cmd.sect), CodeCol(2 * cmd.sect + 1)}
      [] cmd.op = "eraseblock" /\ Block(p) = cmd.block
            /\ (cmd.block \in Protected => cmd.yes) -> Columns
      [] OTHER -> {}

\* The chip changes no cell but those of the sector or the block the command
\* is about, and those of a protected block only after a yes: neither an
\* address nor a register left from an earlier command carries over.
OnlyTarget ==
    [][chip.busy /\ ~chip'.busy =>
           \A p \in Pages : \A c \in Columns \ Target(p) : array'[p][c] = array[p][c]]_vars

\* Every command comes to its end: no poll of the busy bit waits for ever.
CommandEnds == todo # <<>> ~> todo = <<>>
=============================================================================
