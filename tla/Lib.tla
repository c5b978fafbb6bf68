-------------------------------- MODULE Lib --------------------------------
(***************************************************************************)
(* The functions of lib/ that loop over their arguments, the checksums of  *)
(* dev/usb.c and the routing table (module Routes): division by shifting   *)
(* (lib/math.c), copies and comparisons of memory (lib/string.c), numbers  *)
(* as text, the input line and the output buffer of the console            *)
(* (lib/stdio.c, user/console.c). Each is an operator that does what the   *)
(* loop does; a behaviour is one call, or one sequence of operations on    *)
(* the routing table, and the properties compare its result with what the  *)
(* function is for.                                                        *)
(***************************************************************************)
EXTENDS Routes, TLC

CONSTANTS
    W,              \* the bits of a long
    Base,           \* the values of a byte in printf_x
    STDOUT_SIZE,    \* of the output buffer
    LineSize,       \* of the buffer console_task gives to gets
    Cells,          \* bound: the bytes of the memory that is moved
    Strings,        \* bound: the strings that are copied and compared
    Keys,           \* bound: the sequences of keys that are typed
    Texts,          \* bound: the sequences of characters that are written
    RouteOps,       \* bound: the sequences of additions and deletions of routes
    Words5,         \* bound: the arguments of usb_crc5
    Buffers16       \* bound: the arguments of usb_crc16

VARIABLES
    call,       \* the function that is called, and its arguments
    done,       \* it has returned
    result      \* what it returned, or left in memory

vars == <<call, done, result>>

-----------------------------------------------------------------------------
(* lib/math.c *)

Top == 2 ^ (W - 1)
Long == -Top .. Top - 1
Unsigned(x) == x % 2 ^ W
Signed(x) == ((x + Top) % 2 ^ W) - Top

\* Fault: the top bit of the divisor is shifted out.
ShiftsOver(num, den) ==
    Min({k \in 0 .. W : k = W \/ ~(Unsigned(den * 2 ^ k) < num)})

\* How far the divisor is shifted up: as long as it is less than the number,
\* and neither its top bit is set nor the counting bit is gone.
Shifts(num, den) ==
    Min({k \in 0 .. W : \/ k = W
                        \/ ~(Unsigned(den * 2 ^ k) < num)
                        \/ Unsigned(den * 2 ^ k) >= Top})

\* udivmodsi4: quotient and remainder, from the top bit down
Udivmodsi4(num, den) ==
    LET k == Shifts(num, den)
        \* the divisor shifted back down by i
        d(i) == Unsigned(den * 2 ^ k) \div 2 ^ i
        step(s, i) == IF s.num >= d(i)
                          THEN [num |-> s.num - d(i), res |-> s.res + 2 ^ (k - i)]
                          ELSE s
    IN  IF k = W THEN [num |-> num, res |-> 0]
        ELSE FoldLeft(step, [num |-> num, res |-> 0], [i \in 1 .. k + 1 |-> i - 1])

Magnitude(x) == Unsigned(IF x < 0 THEN Signed(-x) ELSE x)

Divsi3(a, b) ==
    LET res == Signed(Udivmodsi4(Magnitude(a), Magnitude(b)).res)
    IN  IF (a < 0) # (b < 0) THEN Signed(-res) ELSE res

Modsi3(a, b) ==
    LET res == Signed(Udivmodsi4(Magnitude(a), Magnitude(b)).num)
    IN  IF a < 0 THEN Signed(-res) ELSE res

-----------------------------------------------------------------------------
(* lib/string.c. Memory is a function from addresses to bytes. *)

Byte(mem, to, from) == [mem EXCEPT ![to] = mem[from]]

Memcpy(mem, dest, src, n) ==
    LET step(m, i) == Byte(m, dest + i, src + i)
    IN  FoldLeft(step, mem, [i \in 1 .. n |-> i - 1])

\* Fault: always from the first byte on.
MemmoveForward(mem, dest, src, n) == Memcpy(mem, dest, src, n)

Memmove(mem, dest, src, n) ==
    IF dest = src THEN mem
    ELSE IF dest < src THEN Memcpy(mem, dest, src, n)
    ELSE LET step(m, i) == Byte(m, dest + i, src + i)
         IN  FoldLeft(step, mem, [i \in 1 .. n |-> n - i])

NUL == 0

\* How many bytes strncpy pads after a NUL: the count was not taken down for
\* the NUL, whose test ended the copy first.
PaddedBytes(n, copied) == n - copied + 1

\* strncpy, for n > 0
Strncpy(dest, s, n) ==
    LET copied == IF Len(s) < n THEN Len(s) + 1 ELSE n
        written == IF Len(s) < n THEN copied + PaddedBytes(n, copied) ELSE copied
    IN  [i \in DOMAIN dest |-> IF i < copied /\ i < Len(s) THEN s[i + 1]
                               ELSE IF i < written THEN NUL ELSE dest[i]]

\* A string in memory, from address 0 on, with a byte of junk behind it
InMemory(s, junk) ==
    [i \in 0 .. Len(s) + 2 |-> IF i < Len(s) THEN s[i + 1]
                               ELSE IF i = Len(s) + 1 THEN junk ELSE NUL]

\* strcmp looks at the first characters before it asks for the end of a string.
Strcmp(m1, m2) ==
    LET e == Min({i \in DOMAIN m1 \intersect DOMAIN m2 :
                     i > 0 /\ (m1[i - 1] # m2[i - 1] \/ m1[i] = NUL \/ m2[i] = NUL)})
    IN  CASE m1[e - 1] < m2[e - 1] -> -1
          [] m1[e - 1] > m2[e - 1] -> 1
          [] OTHER                 -> IF m1[e] # NUL \/ m2[e] # NUL THEN 1 ELSE 0

-----------------------------------------------------------------------------
(* Numbers as text: a sign and digits, the most significant first *)

\* The digits of d > 0, as printf_d takes them off with % and /
Digit10(d, i) == Modsi3(FoldLeft(LAMBDA x, j : Divsi3(x, 10), d, [j \in 1 .. i |-> j]), 10)

PrintfD(d) ==
    LET \* --d; d = ~d: the smallest number stays as it is
        m == IF d < 0 THEN Signed(-d) ELSE d
        len == IF m <= 0 THEN 0 ELSE Min({n \in 1 .. W : m \div 10 ^ n = 0})
    IN  IF d = 0 THEN [neg |-> FALSE, digits |-> <<0>>]
        ELSE [neg |-> d < 0, digits |-> [i \in 1 .. len |-> Digit10(m, len - i)]]

Atoi(text) ==
    LET val == FoldLeft(LAMBDA v, c : Signed(v * 10 + c), 0, text.digits)
    IN  IF text.neg THEN Signed(-val) ELSE val

\* printf_x: bytes from the first that is not zero on
PrintfX(x) ==
    LET byte(i) == (x \div Base ^ (4 - i)) % Base
        from == {i \in 1 .. 4 : byte(i) # 0}
    IN  IF from = {} THEN <<0>>
        ELSE [i \in 1 .. 5 - Min(from) |-> byte(i + Min(from) - 1)]

-----------------------------------------------------------------------------
(* The console's line *)

CR == "cr"
BS == "bs"
CTRL_U == "ctrl_u"
SP == "sp"
IDLE == "idle"      \* no key: gets waits, and goes on to the test of its loop

\* gets: what a key does to the line and the room. An erased character does
\* not give its room back.
Key(s, key) ==
    CASE key = IDLE -> s
      [] key = CR -> [s EXCEPT !.c = key]
      [] key = BS -> [s EXCEPT !.c = key, !.line = IF @ = <<>> THEN @ ELSE Front(@)]
      [] key = CTRL_U -> [s EXCEPT !.c = key, !.line = <<>>]
      [] OTHER -> [s EXCEPT !.c = key, !.line = Append(@, key), !.size = @ - 1,
                            !.high = Max({@, Len(s.line) + 1})]

Open(s) == s.c # CR /\ s.size > 0

\* The line, and the bytes of the buffer that were written, the NUL behind the
\* line among them; c is what the variable for the key held at first.
Gets(keys, size, c) ==
    LET step(s, key) == IF s.open THEN [Key(s, key) EXCEPT !.open = Open(Key(s, key))] ELSE s
        s == FoldLeft(step, [line |-> <<>>, size |-> size, c |-> c, open |-> TRUE, high |-> 0],
                      keys)
    IN  [s EXCEPT !.high = IF s.open THEN @ ELSE Max({@, Len(s.line) + 1})]

\* console_task: the arguments of a line, as first and last character
Arguments(line) ==
    LET step(s, i) ==
            IF line[i] = SP THEN [s EXCEPT !.in = FALSE]
            ELSE IF s.in THEN [s EXCEPT !.argv[Len(s.argv)][2] = i]
            ELSE [in |-> TRUE, argv |-> Append(s.argv, <<i, i>>)]
    IN  FoldLeft(step, [in |-> FALSE, argv |-> <<>>], [i \in 1 .. Len(line) |-> i]).argv

-----------------------------------------------------------------------------
(* The output of a process *)

NL == "nl"
Switches == {"disable", "enable", "restore"}

Write(s, data) == [s EXCEPT !.writes = Append(@, data)]
Flush(s) == [Write(s, s.buf) EXCEPT !.buf = <<>>]

\* Fault: a newline flushes before it is put as well.
PutcharFlushes(s, c) ==
    IF ~s.enabled THEN Write(s, <<c>>)
    ELSE IF c = NL THEN Flush([Flush(s) EXCEPT !.buf = <<c>>])
    ELSE [s EXCEPT !.buf = Append(@, c)]

\* putchar: a full buffer is flushed before, a newline after.
Putchar(s, c) ==
    LET full == IF Len(s.buf) >= STDOUT_SIZE THEN Flush(s) ELSE s
        put == [full EXCEPT !.buf = Append(@, c)]
    IN  IF ~s.enabled THEN Write(s, <<c>>)
        ELSE IF c = NL THEN Flush(put) ELSE put

\* stdio_buf_disable, stdio_buf_enable, stdio_buf_restore
Switch(s, what) ==
    CASE what = "disable" -> [s EXCEPT !.last = s.enabled, !.enabled = FALSE]
      [] what = "enable"  -> [s EXCEPT !.last = s.enabled, !.enabled = TRUE]
      [] what = "restore" -> [s EXCEPT !.enabled = s.last]

Stdout(text) ==
    FoldLeft(LAMBDA s, c : IF c \in Switches THEN Switch(s, c) ELSE Putchar(s, c),
             [buf |-> <<>>, writes |-> <<>>, enabled |-> TRUE, last |-> TRUE], text)

-----------------------------------------------------------------------------
(* dev/usb.c: checksums over sequences of bits *)

XorBits(x, y) == [i \in DOMAIN x |-> (x[i] + y[i]) % 2]
Poly5 == <<0, 0, 1, 0, 1>>
Poly16 == <<1, 0, 0, 0, 0, 0, 0, 0, 0, 0, 0, 0, 0, 1, 0, 1>>

\* Fault: the bit that is shifted out is looked at alone.
CrcStepAlone(crc, bit, poly) ==
    IF crc[1] = 1 THEN XorBits(Append(Tail(crc), 0), poly) ELSE Append(Tail(crc), 0)

CrcStep(crc, bit, poly) ==
    IF bit # crc[1] THEN XorBits(Append(Tail(crc), 0), poly) ELSE Append(Tail(crc), 0)

Crc(bits, poly) ==
    LET ones == [i \in DOMAIN poly |-> 1]
    IN  XorBits(FoldLeft(LAMBDA crc, bit : CrcStep(crc, bit, poly), ones, bits), ones)

\* The bits of x in n digits, the highest first, and the lowest first
HighFirst(x, n) == [i \in 1 .. n |-> (x \div 2 ^ (n - i)) % 2]
LowFirst(x, n) == [i \in 1 .. n |-> (x \div 2 ^ (i - 1)) % 2]

UsbCrc5(x) == Crc(HighFirst(x, 11), Poly5)
UsbCrc16(bytes) == Crc(FlattenSeq([i \in DOMAIN bytes |-> LowFirst(bytes[i], 8)]), Poly16)

-----------------------------------------------------------------------------
(* One call *)

\* Routes that are added and deleted one after the other. Only a route that can
\* be found is deleted: op is <<"add", r>> or <<"del", r>>.
Routed(ops) ==
    FoldLeft(LAMBDA s, op : IF op[1] = "add" THEN RouteAdd(s, op[2])
                            ELSE IF op[2] \in ToSet(Chain(s)) THEN RouteDel(s, op[2]) ELSE s,
             NoRoutes, ops)

Blank == 9
Fresh(n) == [i \in 0 .. n |-> Blank]
Address == 0 .. Cells - 1

Run(c) ==
    CASE c.fn = "div"     -> [u |-> Udivmodsi4(Unsigned(c.a), Unsigned(c.b)),
                              div |-> Divsi3(c.a, c.b), mod |-> Modsi3(c.a, c.b)]
      [] c.fn = "memmove" -> Memmove([i \in Address |-> i], c.dest, c.src, c.n)
      [] c.fn = "strncpy" -> Strncpy(Fresh(c.n + 1), c.s, c.n)
      [] c.fn = "strcmp"  -> Strcmp(InMemory(c.s1, c.junk[1]), InMemory(c.s2, c.junk[2]))
      [] c.fn = "printf_d" -> PrintfD(c.d)
      [] c.fn = "printf_x" -> PrintfX(c.x)
      [] c.fn = "gets"    -> LET s == Gets(c.keys, LineSize, c.c)
                             IN  [line |-> s.line, high |-> s.high, open |-> s.open,
                                  argv |-> Arguments(s.line)]
      [] c.fn = "stdout"  -> Stdout(c.text)
      [] c.fn = "routes"  -> LET s == Routed(c.ops)
                             IN  [chain |-> Chain(s),
                                  best |-> [a \in Addresses |-> RouteLookup(s, a)]]
      [] c.fn = "crc5"    -> UsbCrc5(c.x)
      [] c.fn = "crc16"   -> UsbCrc16(c.bytes)

Init ==
    /\ \/ \E a, b \in Long : call = [fn |-> "div", a |-> a, b |-> b]
       \/ \E dest, src, n \in 0 .. Cells :
              /\ dest + n <= Cells /\ src + n <= Cells
              /\ call = [fn |-> "memmove", dest |-> dest, src |-> src, n |-> n]
       \/ \E s \in Strings, n \in 1 .. 4 : call = [fn |-> "strncpy", s |-> s, n |-> n]
       \/ \E s1, s2 \in Strings, junk \in (0 .. 1) \X (0 .. 1) :
              call = [fn |-> "strcmp", s1 |-> s1, s2 |-> s2, junk |-> junk]
       \/ \E d \in Long : call = [fn |-> "printf_d", d |-> d]
       \/ \E x \in 0 .. Base ^ 4 - 1 : call = [fn |-> "printf_x", x |-> x]
       \/ \E keys \in Keys, c \in {CR, SP} : call = [fn |-> "gets", keys |-> keys, c |-> c]
       \/ \E text \in Texts : call = [fn |-> "stdout", text |-> text]
       \/ \E ops \in RouteOps : call = [fn |-> "routes", ops |-> ops]
       \/ \E x \in Words5 : call = [fn |-> "crc5", x |-> x]
       \/ \E bytes \in Buffers16 : call = [fn |-> "crc16", bytes |-> bytes]
    /\ done = FALSE
    /\ result = <<>>

Return ==
    /\ ~done
    /\ done' = TRUE
    /\ result' = Run(call)
    /\ UNCHANGED call

Next == Return

Spec == Init /\ [][Next]_vars

Returned(fn) == done /\ call.fn = fn

-----------------------------------------------------------------------------
(* Properties *)

\* Division that rounds towards zero
Quotient(a, b) ==
    LET q == Magnitude(a) \div Magnitude(b)
    IN  Signed(IF (a < 0) # (b < 0) THEN -q ELSE q)

DivisionRight ==
    Returned("div") =>
        LET a == call.a
            b == call.b
        IN  IF b = 0
            THEN LET one == IF a = 0 THEN 1 ELSE 0
                 IN  result = [u |-> [num |-> Unsigned(a), res |-> one], div |-> one, mod |-> a]
            ELSE /\ result.u = [num |-> Unsigned(a) % Unsigned(b),
                                res |-> Unsigned(a) \div Unsigned(b)]
                 /\ result.div = Quotient(a, b)
                 /\ result.mod = Signed(a - Quotient(a, b) * b)

\* The remainder of a polynomial divided by poly and its highest power
Remainder(bits, poly) ==
    LET w == Len(poly)
        step(m, i) == IF m[i] = 0 THEN m
                      ELSE [j \in DOMAIN m |->
                               IF j \in i + 1 .. i + w THEN (m[j] + poly[j - i]) % 2 ELSE m[j]]
        rest == FoldLeft(step, bits, [i \in 1 .. Len(bits) - w |-> i])
    IN  SubSeq(rest, Len(bits) - w + 1, Len(bits))

\* The checksum of the standard: the first bits and the remainder inverted
Checksum(bits, poly) ==
    LET w == Len(poly)
        m == [i \in 1 .. Len(bits) + w |->
                 ((IF i <= Len(bits) THEN bits[i] ELSE 0) + (IF i <= w THEN 1 ELSE 0)) % 2]
    IN  [i \in 1 .. w |-> 1 - Remainder(m, poly)[i]]

\* The examples that stand above usb_crc5: 0x547, 0x2e5, 0x072 and 0x400
Examples == 1351 :> 23 @@ 741 :> 28 @@ 114 :> 14 @@ 1024 :> 23

ChecksumsRight ==
    /\ Returned("crc5") =>
           /\ result = Checksum(HighFirst(call.x, 11), Poly5)
           /\ call.x \in DOMAIN Examples => result = HighFirst(Examples[call.x], 5)
    /\ Returned("crc16") =>
           result = Checksum(FlattenSeq([i \in DOMAIN call.bytes |-> LowFirst(call.bytes[i], 8)]),
                             Poly16)

\* Division by shifting and subtracting is division, unsigned and signed, for
\* every pair of longs, the smallest one included; a number divided by zero is
\* zero, and zero by zero one, with the number as the remainder (udivmodsi4). The
\* checksums that are computed bit by bit are the remainders of the division of
\* polynomials, and agree with the examples in the source (usb_crc5, usb_crc16).
ArithmeticRight == DivisionRight /\ ChecksumsRight

MoveRight ==
    Returned("memmove") =>
        \A i \in Address :
            result[i] = IF i \in call.dest .. call.dest + call.n - 1
                        THEN i - call.dest + call.src ELSE i

\* The n bytes; the one behind them is looked at only if nothing was padded.
CopyRight ==
    Returned("strncpy") =>
        \A i \in DOMAIN result :
            \/ i = call.n /\ Len(call.s) < call.n
            \/ result[i] = IF i >= call.n THEN Blank
                           ELSE IF i < Len(call.s) THEN call.s[i + 1] ELSE NUL

CompareRight ==
    Returned("strcmp") /\ (call.s1 # <<>> \/ call.s2 # <<>>)
        => (result = 0 <=> call.s1 = call.s2)

\* The routes, newest first, if an operation changes the table by its route alone
Meant(ops) ==
    LET add(q, r) == IF \E i \in DOMAIN q : Same(r, q[i]) THEN q ELSE <<r>> \o q
        del(q, r) == SelectSeq(q, LAMBDA s : s # r)
    IN  FoldLeft(LAMBDA q, op : IF op[1] = "add" THEN add(q, op[2]) ELSE del(q, op[2]),
                 <<>>, ops)

\* Only the newest route is deleted, of those there are.
NewestFirst(ops) ==
    \A i \in DOMAIN ops :
        ops[i][1] = "del" =>
            LET q == Meant(SubSeq(ops, 1, i - 1))
            IN  ops[i][2] \in ToSet(q) => ops[i][2] = Head(q)

RoutesRight ==
    Returned("routes") =>
        /\ NewestFirst(call.ops) => result.chain = Meant(call.ops)
        /\ \A a \in Addresses :
               LET fit == {i \in DOMAIN result.chain : Matches(a, result.chain[i])}
                   cost(i) == Table[result.chain[i]].metric
               IN  IF fit = {} THEN result.best[a] = NIL
                   ELSE \E i \in fit :
                            /\ result.best[a] = result.chain[i]
                            /\ \A j \in fit : cost(i) < cost(j) \/ (cost(i) = cost(j) /\ i <= j)

\* What memmove leaves where it should is what was at the source before, however
\* the two overlap. strncpy fills the n bytes it was given with the string and
\* zeros, and leaves what is behind alone if the string fills them. strcmp returns
\* zero for equal strings only and for all of them, unless both are empty. While
\* routes are deleted newest first, the table is what the additions and deletions
\* say, and no two routes agree in destination, netmask and interface; among the
\* routes that can be reached, whatever was deleted, a destination gets the matching
\* one of least metric, the newest of several (en_ip_route_add, en_ip_route_del,
\* en_ip_route_lookup). Deleting another route is DeletesOne's.
MemoryRight == MoveRight /\ CopyRight /\ CompareRight /\ RoutesRight

\* en_ip_route_del "removes the specified route" (net/trans/ip.c:270): that one, and
\* no other.
DeletesOne == Returned("routes") => result.chain = Meant(call.ops)

\* The number is read back, and written without a zero in front.
NumbersRight ==
    /\ Returned("printf_d") =>
           IF call.d = -Top THEN result = [neg |-> TRUE, digits |-> <<>>]
           ELSE /\ Atoi(result) = call.d
                /\ result.digits # <<>>
                /\ result.digits[1] = 0 => call.d = 0
    /\ Returned("printf_x") =>
           /\ FoldLeft(LAMBDA v, b : v * Base + b, 0, result) = call.x
           /\ result # <<>>
           /\ result[1] = 0 => call.x = 0

Control == {CR, BS, CTRL_U, IDLE}
Stored(keys, from, to) == Cardinality({j \in from .. to : keys[j] \notin Control})
Erased(keys, from, to) == Cardinality({j \in from .. to : keys[j] = BS})

\* The number of keys after which gets returns
Ends ==
    {n \in DOMAIN call.keys :
        \/ call.keys[n] = CR
        \/ Stored(call.keys, 1, n) = LineSize
        \/ call.c = CR /\ \A i \in 1 .. n : call.keys[i] = IDLE}

\* The line holds the characters no later key has erased; it ends with a
\* return, with its room or, while no key was read, with a return that was in
\* the variable before. The NUL falls behind the buffer for a line that fills
\* it to the last byte, and for no other.
LineRight ==
    Returned("gets") =>
        LET last == IF Ends = {} THEN Len(call.keys) ELSE Min(Ends)
            keys == call.keys
            kept == {i \in 1 .. last :
                        /\ keys[i] \notin Control
                        /\ \A j \in i + 1 .. last :
                               /\ keys[j] # CTRL_U
                               /\ Erased(keys, i + 1, j) <= Stored(keys, i + 1, j)}
        IN  /\ result.open <=> Ends = {}
            /\ result.line = [n \in 1 .. Cardinality(kept) |->
                                 keys[CHOOSE i \in kept :
                                         Cardinality({k \in kept : k <= i}) = n]]
            /\ result.high <= LineSize + 1
            /\ result.high > LineSize <=> Len(result.line) = LineSize

\* The arguments of a command are the words of its line.
WordsRight ==
    Returned("gets") =>
        LET line == result.line
            space(i) == i \notin DOMAIN line \/ line[i] = SP
        IN  /\ ToSet(result.argv) =
                   {w \in (DOMAIN line) \X (DOMAIN line) :
                       /\ w[1] <= w[2]
                       /\ \A i \in w[1] .. w[2] : ~space(i)
                       /\ space(w[1] - 1) /\ space(w[2] + 1)}
            /\ \A i \in 1 .. Len(result.argv) - 1 : result.argv[i][2] < result.argv[i + 1][1]

\* No character overtakes another: buffering is off only while nothing is
\* buffered.
Calm(text) ==
    \A i \in DOMAIN text :
        LET before == Stdout(SubSeq(text, 1, i - 1))
        IN  text[i] \notin Switches /\ ~before.enabled => before.buf = <<>>

OutputRight ==
    Returned("stdout") =>
        LET chars == SelectSeq(call.text, LAMBDA c : c \notin Switches)
            out == FlattenSeq(result.writes) \o result.buf
        IN  /\ Calm(call.text) => out = chars
            /\ \A c \in ToSet(chars) :
                   Len(SelectSeq(out, LAMBDA d : d = c)) = Len(SelectSeq(chars, LAMBDA d : d = c))
            /\ \A i \in DOMAIN result.writes : Len(result.writes[i]) \in 1 .. STDOUT_SIZE

\* Numbers are written as they are read, but for the smallest, of which only
\* the sign is (printf_d, printf_x, atoi). A line holds what was typed and not
\* erased, and its words are the arguments (gets, console_task). What is
\* printed arrives once, in order unless buffering was turned off over a
\* buffer that was not flushed, and never as a write of no bytes, which
\* uart_write does not survive (putchar, flush).
TextRight == NumbersRight /\ LineRight /\ WordsRight /\ OutputRight
=============================================================================
