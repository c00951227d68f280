---------------------------- MODULE Ax5043Proofs ----------------------------
(***************************************************************************)
(* Proofs about Ax5043: where the driver can be when its threads rest, and *)
(* that no transmission puts a second packet on the air.  Both rest on the *)
(* programs of the threads: which operations a thread can have ahead of    *)
(* it, which of them follow which, and which never come again.             *)
(***************************************************************************)
EXTENDS Ax5043, Integers, TLAPS

(* The operations a program consists of. *)
Ops(s) == {s[i] : i \in 1..Len(s)}

(* No operation of Y comes after one of X. *)
NotAfter(s, X, Y) == \A i, j \in 1..Len(s) : i < j /\ s[i] \in X => s[j] \notin Y

(* After each operation of X there is still y to come. *)
Then(s, X, y) ==
    \A i \in 1..Len(s) : s[i] \in X => \E j \in 1..Len(s) : i < j /\ s[j] = y

-----------------------------------------------------------------------------
(* Lemmas on programs.                                                     *)

(* The first operation is taken off a program. *)
LEMMA TailOps ==
    ASSUME NEW S, NEW s \in Seq(S), s # << >>
    PROVE  /\ Head(s) \in S /\ Tail(s) \in Seq(S)
           /\ Ops(s) = {Head(s)} \cup Ops(Tail(s))
<1>1. /\ Len(s) \in Nat /\ Len(s) > 0 /\ Head(s) = s[1]
      /\ Tail(s) \in Seq(S) /\ Len(Tail(s)) = Len(s) - 1
      /\ \A i \in 1..Len(s) : s[i] \in S
      /\ \A i \in 1..Len(Tail(s)) : Tail(s)[i] = s[i + 1]
  OBVIOUS
<1>2. ASSUME NEW i \in 1..Len(s)
      PROVE  s[i] \in {Head(s)} \cup Ops(Tail(s))
  <2>1. CASE i = 1
    BY <1>1, <2>1
  <2>2. CASE i # 1
    <3>1. i - 1 \in 1..Len(Tail(s)) /\ Tail(s)[i - 1] = s[i]
      BY <1>1, <2>2
    <3> QED BY <3>1 DEF Ops
  <2> QED BY <2>1, <2>2
<1>3. ASSUME NEW i \in 1..Len(Tail(s))
      PROVE  Tail(s)[i] \in Ops(s)
  <2>1. i + 1 \in 1..Len(s)
    BY <1>1
  <2> QED BY <1>1, <2>1 DEF Ops
<1>4. Head(s) \in Ops(s)
  BY <1>1 DEF Ops
<1>5. Ops(s) \subseteq {Head(s)} \cup Ops(Tail(s))
  BY <1>2 DEF Ops
<1>6. Ops(Tail(s)) \subseteq Ops(s)
  BY <1>3 DEF Ops
<1> QED BY <1>1, <1>4, <1>5, <1>6

(* What must not follow does not follow in the rest of a program. *)
LEMMA TailNotAfter ==
    ASSUME NEW S, NEW s \in Seq(S), s # << >>, NEW X, NEW Y, NotAfter(s, X, Y)
    PROVE  /\ NotAfter(Tail(s), X, Y)
           /\ Head(s) \in X => \A op \in Ops(Tail(s)) : op \notin Y
<1>1. /\ Len(s) \in Nat /\ Len(s) > 0 /\ Head(s) = s[1]
      /\ Tail(s) \in Seq(S) /\ Len(Tail(s)) = Len(s) - 1
      /\ \A i \in 1..Len(Tail(s)) : Tail(s)[i] = s[i + 1]
  OBVIOUS
<1>2. ASSUME NEW i \in 1..Len(Tail(s)), NEW j \in 1..Len(Tail(s)),
             i < j, Tail(s)[i] \in X
      PROVE  Tail(s)[j] \notin Y
  <2>1. i + 1 \in 1..Len(s) /\ j + 1 \in 1..Len(s) /\ i + 1 < j + 1
    BY <1>1, <1>2
  <2> QED BY <1>1, <1>2, <2>1 DEF NotAfter
<1>3. ASSUME Head(s) \in X, NEW j \in 1..Len(Tail(s))
      PROVE  Tail(s)[j] \notin Y
  <2>1. 1 \in 1..Len(s) /\ j + 1 \in 1..Len(s) /\ 1 < j + 1
    BY <1>1
  <2> QED BY <1>1, <1>3, <2>1 DEF NotAfter
<1> QED BY <1>2, <1>3 DEF NotAfter, Ops

(* What has still to come is in the rest of a program. *)
LEMMA TailThen ==
    ASSUME NEW S, NEW s \in Seq(S), s # << >>, NEW X, NEW y, Then(s, X, y)
    PROVE  /\ Then(Tail(s), X, y)
           /\ Head(s) \in X => y \in Ops(Tail(s))
<1>1. /\ Len(s) \in Nat /\ Len(s) > 0 /\ Head(s) = s[1]
      /\ Tail(s) \in Seq(S) /\ Len(Tail(s)) = Len(s) - 1
      /\ \A i \in 1..Len(Tail(s)) : Tail(s)[i] = s[i + 1]
  OBVIOUS
<1>2. ASSUME NEW i \in 1..Len(Tail(s)), Tail(s)[i] \in X
      PROVE  \E j \in 1..Len(Tail(s)) : i < j /\ Tail(s)[j] = y
  <2>1. i + 1 \in 1..Len(s) /\ s[i + 1] \in X
    BY <1>1, <1>2
  <2>2. PICK j \in 1..Len(s) : i + 1 < j /\ s[j] = y
    BY <2>1 DEF Then
  <2>3. j - 1 \in 1..Len(Tail(s)) /\ i < j - 1 /\ Tail(s)[j - 1] = y
    BY <1>1, <2>2
  <2> QED BY <2>3
<1>3. ASSUME Head(s) \in X
      PROVE  y \in Ops(Tail(s))
  <2>1. 1 \in 1..Len(s) /\ s[1] \in X
    BY <1>1, <1>3
  <2>2. PICK j \in 1..Len(s) : 1 < j /\ s[j] = y
    BY <2>1 DEF Then
  <2>3. j - 1 \in 1..Len(Tail(s)) /\ Tail(s)[j - 1] = y
    BY <1>1, <2>2
  <2> QED BY <2>3 DEF Ops
<1> QED BY <1>2, <1>3 DEF Then

(* The parts of two programs, one after the other. *)
LEMMA Concat ==
    ASSUME NEW S, NEW a \in Seq(S), NEW b \in Seq(S)
    PROVE  /\ Len(a) \in Nat /\ Len(b) \in Nat /\ Len(a \o b) = Len(a) + Len(b)
           /\ \A i \in 1..Len(a) : (a \o b)[i] = a[i]
           /\ \A i \in 1..Len(b) : (a \o b)[Len(a) + i] = b[i]
           /\ a \o b \in Seq(S)
<1>1. Len(a) \in Nat /\ Len(b) \in Nat /\ Len(a \o b) = Len(a) + Len(b)
  OBVIOUS
<1>2. \A i \in 1..Len(a) : (a \o b)[i] = a[i]
  OBVIOUS
<1>3. \A i \in 1..Len(b) : (a \o b)[Len(a) + i] = b[i]
  OBVIOUS
<1>4. a \o b \in Seq(S)
  OBVIOUS
<1> QED BY <1>1, <1>2, <1>3, <1>4

(* One program and then another. *)
LEMMA ConcatOps ==
    ASSUME NEW S, NEW a \in Seq(S), NEW b \in Seq(S)
    PROVE  a \o b \in Seq(S) /\ Ops(a \o b) = Ops(a) \cup Ops(b)
<1>1. /\ Len(a) \in Nat /\ Len(b) \in Nat /\ Len(a \o b) = Len(a) + Len(b)
      /\ \A i \in 1..Len(a) : (a \o b)[i] = a[i]
      /\ \A i \in 1..Len(b) : (a \o b)[Len(a) + i] = b[i]
      /\ a \o b \in Seq(S)
  BY Concat
<1>2. ASSUME NEW i \in 1..Len(a \o b)
      PROVE  (a \o b)[i] \in Ops(a) \cup Ops(b)
  <2>1. CASE i <= Len(a)
    <3>1. i \in 1..Len(a)
      BY <1>1, <2>1
    <3> QED BY <1>1, <3>1 DEF Ops
  <2>2. CASE ~(i <= Len(a))
    <3>1. i - Len(a) \in 1..Len(b) /\ (a \o b)[i] = b[i - Len(a)]
      BY <1>1, <2>2
    <3> QED BY <3>1 DEF Ops
  <2> QED BY <2>1, <2>2
<1>3. ASSUME NEW i \in 1..Len(a) PROVE a[i] \in Ops(a \o b)
  <2>1. i \in 1..Len(a \o b)
    BY <1>1
  <2> QED BY <1>1, <2>1 DEF Ops
<1>4. ASSUME NEW i \in 1..Len(b) PROVE b[i] \in Ops(a \o b)
  <2>1. Len(a) + i \in 1..Len(a \o b)
    BY <1>1
  <2> QED BY <1>1, <2>1 DEF Ops
<1>5. Ops(a \o b) \subseteq Ops(a) \cup Ops(b)
  BY <1>2 DEF Ops
<1>6. Ops(a) \subseteq Ops(a \o b) /\ Ops(b) \subseteq Ops(a \o b)
  BY <1>3, <1>4 DEF Ops
<1> QED BY <1>1, <1>5, <1>6

(* What has to come is in the second program. *)
LEMMA ConcatThen ==
    ASSUME NEW S, NEW a \in Seq(S), NEW b \in Seq(S), NEW X, NEW y,
           y \in Ops(b), Then(b, X, y)
    PROVE  Then(a \o b, X, y)
<1>1. /\ Len(a) \in Nat /\ Len(b) \in Nat /\ Len(a \o b) = Len(a) + Len(b)
      /\ \A i \in 1..Len(b) : (a \o b)[Len(a) + i] = b[i]
  BY Concat
<1> SUFFICES ASSUME NEW i \in 1..Len(a \o b), (a \o b)[i] \in X
             PROVE  \E j \in 1..Len(a \o b) : i < j /\ (a \o b)[j] = y
  BY DEF Then
<1>2. PICK k \in 1..Len(b) : b[k] = y /\ i < Len(a) + k
  <2>1. CASE i <= Len(a)
    <3>1. PICK k \in 1..Len(b) : b[k] = y
      BY DEF Ops
    <3>2. i < Len(a) + k
      BY <1>1, <2>1
    <3> QED BY <3>1, <3>2
  <2>2. CASE ~(i <= Len(a))
    <3>1. i - Len(a) \in 1..Len(b) /\ b[i - Len(a)] \in X
      BY <1>1, <2>2
    <3>2. PICK k \in 1..Len(b) : i - Len(a) < k /\ b[k] = y
      BY <3>1 DEF Then
    <3>3. i < Len(a) + k
      BY <1>1, <3>2
    <3> QED BY <3>2, <3>3
  <2> QED BY <2>1, <2>2
<1>3. Len(a) + k \in 1..Len(a \o b) /\ (a \o b)[Len(a) + k] = y
  BY <1>1, <1>2
<1> QED BY <1>2, <1>3

(* What has to come is in each of the programs. *)
LEMMA ConcatThenBoth ==
    ASSUME NEW S, NEW a \in Seq(S), NEW b \in Seq(S), NEW X, NEW y,
           Then(a, X, y), Then(b, X, y)
    PROVE  Then(a \o b, X, y)
<1>1. /\ Len(a) \in Nat /\ Len(b) \in Nat /\ Len(a \o b) = Len(a) + Len(b)
      /\ \A i \in 1..Len(a) : (a \o b)[i] = a[i]
      /\ \A i \in 1..Len(b) : (a \o b)[Len(a) + i] = b[i]
  BY Concat
<1> SUFFICES ASSUME NEW i \in 1..Len(a \o b), (a \o b)[i] \in X
             PROVE  \E j \in 1..Len(a \o b) : i < j /\ (a \o b)[j] = y
  BY DEF Then
<1>2. CASE i <= Len(a)
  <2>1. i \in 1..Len(a) /\ a[i] \in X
    BY <1>1, <1>2
  <2>2. PICK k \in 1..Len(a) : i < k /\ a[k] = y
    BY <2>1 DEF Then
  <2>3. k \in 1..Len(a \o b) /\ (a \o b)[k] = y
    BY <1>1, <2>2
  <2> QED BY <2>2, <2>3
<1>3. CASE ~(i <= Len(a))
  <2>1. i - Len(a) \in 1..Len(b) /\ b[i - Len(a)] \in X
    BY <1>1, <1>3
  <2>2. PICK k \in 1..Len(b) : i - Len(a) < k /\ b[k] = y
    BY <2>1 DEF Then
  <2>3. Len(a) + k \in 1..Len(a \o b) /\ (a \o b)[Len(a) + k] = y /\ i < Len(a) + k
    BY <1>1, <2>2
  <2> QED BY <2>3
<1> QED BY <1>2, <1>3

(* What must not follow is not in the second program. *)
LEMMA ConcatNotAfter ==
    ASSUME NEW S, NEW a \in Seq(S), NEW b \in Seq(S), NEW X, NEW Y,
           NotAfter(a, X, Y), \A op \in Ops(b) : op \notin Y
    PROVE  NotAfter(a \o b, X, Y)
<1>1. /\ Len(a) \in Nat /\ Len(b) \in Nat /\ Len(a \o b) = Len(a) + Len(b)
      /\ \A i \in 1..Len(a) : (a \o b)[i] = a[i]
      /\ \A i \in 1..Len(b) : (a \o b)[Len(a) + i] = b[i]
  BY Concat
<1> SUFFICES ASSUME NEW i \in 1..Len(a \o b), NEW j \in 1..Len(a \o b),
                    i < j, (a \o b)[i] \in X
             PROVE  (a \o b)[j] \notin Y
  BY DEF NotAfter
<1>2. CASE j <= Len(a)
  <2>1. i \in 1..Len(a) /\ j \in 1..Len(a)
    BY <1>1, <1>2
  <2> QED BY <1>1, <2>1 DEF NotAfter
<1>3. CASE ~(j <= Len(a))
  <2>1. j - Len(a) \in 1..Len(b) /\ (a \o b)[j] = b[j - Len(a)]
    BY <1>1, <1>3
  <2> QED BY <2>1 DEF Ops
<1> QED BY <1>2, <1>3

(* What must not follow is forbidden by the second program only. *)
LEMMA ConcatNotAfterFree ==
    ASSUME NEW S, NEW a \in Seq(S), NEW b \in Seq(S), NEW X, NEW Y,
           \A op \in Ops(a) : op \notin X, NotAfter(b, X, Y)
    PROVE  NotAfter(a \o b, X, Y)
<1>1. /\ Len(a) \in Nat /\ Len(b) \in Nat /\ Len(a \o b) = Len(a) + Len(b)
      /\ \A i \in 1..Len(a) : (a \o b)[i] = a[i]
      /\ \A i \in 1..Len(b) : (a \o b)[Len(a) + i] = b[i]
  BY Concat
<1> SUFFICES ASSUME NEW i \in 1..Len(a \o b), NEW j \in 1..Len(a \o b),
                    i < j, (a \o b)[i] \in X
             PROVE  (a \o b)[j] \notin Y
  BY DEF NotAfter
<1>2. ~(i <= Len(a))
  <2>1. i <= Len(a) => i \in 1..Len(a)
    BY <1>1
  <2> QED BY <1>1, <2>1 DEF Ops
<1>3. /\ i - Len(a) \in 1..Len(b) /\ j - Len(a) \in 1..Len(b)
      /\ i - Len(a) < j - Len(a)
      /\ (a \o b)[i] = b[i - Len(a)] /\ (a \o b)[j] = b[j - Len(a)]
  BY <1>1, <1>2
<1> QED BY <1>3 DEF NotAfter

-----------------------------------------------------------------------------
(* The programs.                                                           *)

(* Operations that concern the chip alone. *)
ChipOps ==
    {Set("mask0", v) : v \in {"none", "rx", "free", "radio"}}
        \cup {Set("mask1", v) : v \in {"none", "xtal", "pll"}}
        \cup {Set("pwr", v) : v \in {"down", "xtal", "fifo", "rx", "tx"}}
        \cup {Set("revmask", v) : v \in {"none", "rx", "done"}}
        \cup {Set("regs", v) : v \in {"init", "rx", "tx"}}
        \cup {Set("rng", "busy"), Set("done", FALSE)}
        \cup {Do("reset"), Do("kick"), Do("clear"), Do("drain")}

RestartOps == ChipOps \cup {State("off"), State("rx")}

MainOps ==
    RestartOps \cup {State("wait_xtal"), State("pll_ranging"),
                     <<"while", "wait_xtal">>, <<"while", "pll_ranging">>}

SendOps == ChipOps \cup {State("tx_xtalwait"), <<"timer", "on">>}

(* The states in which the task fills the FIFO. *)
Loads == {State("tx_longpreamble"), State("tx_shortpreamble"), State("tx_packet")}

(* The operations by which the task sends a packet, and the early return.  *)
Special ==
    Loads \cup {Do("transmit"), Do("commit"), State("tx_waitdone"), Do("leave_if_busy")}

TaskOps ==
    RestartOps \cup Special
        \cup {State("xtal_ready"), State("pll_ranging_done"), <<"timer", "off">>}

OpsOf(t) ==
    IF t = "timer" THEN RestartOps ELSE
    IF t = "main" THEN MainOps ELSE
    IF t = "dequeue" THEN SendOps ELSE TaskOps

(* States that a thread leaves again itself, by State("rx"). *)
Passing == {State("off"), State("wait_xtal"), State("pll_ranging")}

(* After these none of Special comes. *)
Closing ==
    {State("off"), Do("leave_if_busy"), Do("transmit"), State("tx_waitdone")}

(* A packet that is handed over is not handed over or begun again. *)
Begun == Loads \cup {Do("commit")}

(* The order of operations in a program. *)
Orders(s) ==
    /\ Then(s, Passing, State("rx"))
    /\ Then(s, {State("tx_xtalwait")}, <<"timer", "on">>)
    /\ Then(s, Loads, Do("transmit"))
    /\ Then(s, {Do("commit")}, State("tx_waitdone"))
    /\ NotAfter(s, Closing, Special)
    /\ NotAfter(s, {Do("commit")}, Begun)
    /\ NotAfter(s, {State("tx_xtalwait")}, {State("tx_xtalwait")})

(* The order stays when the first operation is taken off. *)
LEMMA TailOrders ==
    ASSUME NEW S, NEW s \in Seq(S), s # << >>, Orders(s)
    PROVE  /\ Orders(Tail(s))
           /\ Head(s) \in Passing => State("rx") \in Ops(Tail(s))
           /\ Head(s) = State("tx_xtalwait") =>
                  /\ <<"timer", "on">> \in Ops(Tail(s))
                  /\ State("tx_xtalwait") \notin Ops(Tail(s))
           /\ Head(s) \in Loads => Do("transmit") \in Ops(Tail(s))
           /\ Head(s) = Do("commit") =>
                  /\ State("tx_waitdone") \in Ops(Tail(s))
                  /\ \A op \in Ops(Tail(s)) : op \notin Begun
           /\ Head(s) \in Closing => \A op \in Ops(Tail(s)) : op \notin Special
<1>1. /\ Then(Tail(s), Passing, State("rx"))
      /\ Head(s) \in Passing => State("rx") \in Ops(Tail(s))
  BY TailThen DEF Orders
<1>2. /\ Then(Tail(s), {State("tx_xtalwait")}, <<"timer", "on">>)
      /\ Head(s) \in {State("tx_xtalwait")} => <<"timer", "on">> \in Ops(Tail(s))
  BY TailThen DEF Orders
<1>3. /\ Then(Tail(s), Loads, Do("transmit"))
      /\ Head(s) \in Loads => Do("transmit") \in Ops(Tail(s))
  BY TailThen DEF Orders
<1>4. /\ Then(Tail(s), {Do("commit")}, State("tx_waitdone"))
      /\ Head(s) \in {Do("commit")} => State("tx_waitdone") \in Ops(Tail(s))
  BY TailThen DEF Orders
<1>5. /\ NotAfter(Tail(s), Closing, Special)
      /\ Head(s) \in Closing => \A op \in Ops(Tail(s)) : op \notin Special
  BY TailNotAfter DEF Orders
<1>6. /\ NotAfter(Tail(s), {Do("commit")}, Begun)
      /\ Head(s) \in {Do("commit")} => \A op \in Ops(Tail(s)) : op \notin Begun
  BY TailNotAfter DEF Orders
<1>7. /\ NotAfter(Tail(s), {State("tx_xtalwait")}, {State("tx_xtalwait")})
      /\ Head(s) \in {State("tx_xtalwait")}
            => \A op \in Ops(Tail(s)) : op \notin {State("tx_xtalwait")}
  BY TailNotAfter DEF Orders
<1> QED BY <1>1, <1>2, <1>3, <1>4, <1>5, <1>6, <1>7 DEF Orders

(* A program with none of the operations that have an order but off and    *)
(* rx has the order if rx follows off.                                     *)
LEMMA PlainOrders ==
    ASSUME NEW s, Then(s, Passing, State("rx")),
           \A op \in Ops(s) : op \notin Special \cup {State("tx_xtalwait")}
    PROVE  Orders(s)
<1>1. \A i \in 1..Len(s) : s[i] \notin Special \cup {State("tx_xtalwait")}
  BY DEF Ops
<1> QED BY <1>1 DEF Orders, Then, NotAfter, Special

(* The operations of explicit programs. *)
LEMMA ExplicitOps ==
    ASSUME NEW a, NEW b, NEW c, NEW d, NEW e, NEW f, NEW g
    PROVE  /\ Ops(<< >>) = {}
           /\ Ops(<<a>>) = {a}
           /\ Ops(<<a, b>>) = {a, b}
           /\ Ops(<<a, b, c>>) = {a, b, c}
           /\ Ops(<<a, b, c, d>>) = {a, b, c, d}
           /\ Ops(<<a, b, c, d, e>>) = {a, b, c, d, e}
           /\ Ops(<<a, b, c, d, e, f>>) = {a, b, c, d, e, f}
           /\ Ops(<<a, b, c, d, e, f, g>>) = {a, b, c, d, e, f, g}
<1>0. Ops(<< >>) = {}
  BY DEF Ops
<1>1. Ops(<<a>>) = {a}
  BY DEF Ops
<1>2. Ops(<<a, b>>) = {a, b}
  BY DEF Ops
<1>3. Ops(<<a, b, c>>) = {a, b, c}
  BY DEF Ops
<1>4. Ops(<<a, b, c, d>>) = {a, b, c, d}
  BY DEF Ops
<1>5. Ops(<<a, b, c, d, e>>) = {a, b, c, d, e}
  BY DEF Ops
<1>6. Ops(<<a, b, c, d, e, f>>) = {a, b, c, d, e, f}
  BY DEF Ops
<1>7. Ops(<<a, b, c, d, e, f, g>>) = {a, b, c, d, e, f, g}
  BY DEF Ops
<1> QED BY <1>0, <1>1, <1>2, <1>3, <1>4, <1>5, <1>6, <1>7

ChipNames ==
    {"mask0", "mask1", "pwr", "revmask", "regs", "rng", "done", "reset", "kick",
     "clear", "drain"}

(* Operations are told apart by their parts. *)
LEMMA PartsOfOps ==
    /\ \A x : State(x)[1] = "state" /\ State(x)[2] = x
    /\ \A x : Do(x)[1] = x
    /\ \A op \in ChipOps : op[1] \in ChipNames
<1>1. \A x : State(x)[1] = "state" /\ State(x)[2] = x
  BY DEF State
<1>2. \A x : Do(x)[1] = x
  BY DEF Do
<1>3. \A x, v : Set(x, v)[1] = x
  BY DEF Set
<1>4. ASSUME NEW op \in ChipOps
      PROVE  op[1] \in ChipNames
  <2>1. CASE \E x \in ChipNames : \E v : op = Set(x, v)
    BY <1>3, <2>1
  <2>2. CASE \E x \in ChipNames : op = Do(x)
    BY <1>2, <2>2
  <2> QED BY <2>1, <2>2 DEF ChipOps, ChipNames
<1> QED BY <1>1, <1>2, <1>4

(* So are the operations on the timer. *)
LEMMA TimerParts ==
    <<"timer", "on">>[1] = "timer" /\ <<"timer", "off">>[1] = "timer"
<1> QED OBVIOUS

(* The operations named above are different. *)
LEMMA DifferentOps ==
    /\ \A op \in ChipOps : /\ op \notin Passing \cup Special
                           /\ op # State("rx") /\ op # State("tx_xtalwait")
                           /\ op # State("xtal_ready") /\ op # State("pll_ranging_done")
                           /\ op # <<"timer", "on">> /\ op # <<"timer", "off">>
    /\ \A op \in MainOps \cup SendOps : op \notin Special
    /\ \A op \in TaskOps \cup MainOps : op # State("tx_xtalwait")
    /\ \A op \in MainOps \cup SendOps :
           op # State("xtal_ready") /\ op # State("pll_ranging_done")
<1>1. \A op \in ChipOps : op[1] \notin {"state", "transmit", "commit", "leave_if_busy",
                                        "timer", "while"}
  BY PartsOfOps DEF ChipNames
<1>2. \A op \in Special : /\ op[1] \in {"state", "transmit", "commit", "leave_if_busy"}
                          /\ op[1] = "state" => op[2] \in {"tx_longpreamble", "tx_shortpreamble",
                                                              "tx_packet", "tx_waitdone"}
  BY PartsOfOps DEF Special, Loads
<1>3. \A op \in Passing : op[1] = "state" /\ op[2] \in {"off", "wait_xtal", "pll_ranging"}
  BY PartsOfOps DEF Passing
<1>4. <<"timer", "on">>[1] = "timer" /\ <<"timer", "off">>[1] = "timer"
  BY TimerParts
<1>5. \A op \in MainOps : \/ op \in ChipOps
                          \/ op[1] = "while"
                          \/ op[1] = "state" /\ op[2] \in {"off", "rx", "wait_xtal", "pll_ranging"}
  BY PartsOfOps DEF MainOps, RestartOps
<1>6. \A op \in SendOps : \/ op \in ChipOps
                          \/ op[1] = "timer"
                          \/ op[1] = "state" /\ op[2] = "tx_xtalwait"
  BY PartsOfOps DEF SendOps
<1>7. \A op \in TaskOps : \/ op \in ChipOps \cup Special
                          \/ op[1] = "timer"
                          \/ op[1] = "state" /\ op[2] \in {"off", "rx", "xtal_ready",
                                                           "pll_ranging_done"}
  BY PartsOfOps DEF TaskOps, RestartOps
<1>8. \A op \in ChipOps : /\ op \notin Passing \cup Special
                          /\ op # State("rx") /\ op # State("tx_xtalwait")
                          /\ op # State("xtal_ready") /\ op # State("pll_ranging_done")
                          /\ op # <<"timer", "on">> /\ op # <<"timer", "off">>
  BY <1>1, <1>2, <1>3, <1>4, PartsOfOps
<1>9. \A op \in MainOps \cup SendOps : op \notin Special
  BY <1>2, <1>5, <1>6, <1>8
<1>10. \A op \in TaskOps \cup MainOps : op # State("tx_xtalwait")
  BY <1>2, <1>5, <1>7, <1>8, PartsOfOps
<1>11. \A op \in MainOps \cup SendOps :
           op # State("xtal_ready") /\ op # State("pll_ranging_done")
  BY <1>5, <1>6, <1>8, PartsOfOps
<1> QED BY <1>8, <1>9, <1>10, <1>11

(* A program is empty. *)
LEMMA EmptyProgram ==
    ASSUME NEW S
    PROVE  << >> \in Seq(S) /\ Ops(<< >>) = {} /\ Orders(<< >>)
<1>1. Ops(<< >>) = {}
  BY ExplicitOps
<1>2. Len(<< >>) = 0
  OBVIOUS
<1>3. Then(<< >>, Passing, State("rx"))
  BY <1>2 DEF Then
<1> QED BY <1>1, <1>3, PlainOrders

(* A load, and the restart. *)
LEMMA RestartProgram ==
    /\ rf_restart \in Seq(RestartOps)
    /\ State("rx") \in Ops(rf_restart)
    /\ Then(rf_restart, Passing, State("rx"))
<1> DEFINE e == <<Set("regs", "init"), State("rx")>>
<1>1. Ax5043_OFF \in Seq(RestartOps)
  BY DEF Ax5043_OFF, RestartOps, ChipOps
<1>2. Ax5043_Reset \in Seq(RestartOps)
  <2>1. <<Do("reset"), Set("pwr", "down")>> \in Seq(RestartOps) /\ Kick \in Seq(RestartOps)
    BY DEF Kick, RestartOps, ChipOps
  <2> QED BY <2>1 DEF Ax5043_Reset
<1>3. e \in Seq(RestartOps) /\ Ops(e) = {Set("regs", "init"), State("rx")}
  <2>1. e \in Seq(RestartOps)
    BY DEF RestartOps, ChipOps
  <2>2. Ops(e) = {Set("regs", "init"), State("rx")}
    <3>1. \A x, y : Ops(<<x, y>>) = {x, y}
      BY DEF Ops
    <3> QED BY <3>1
  <2> QED BY <2>1, <2>2
<1>4. Then(e, Passing, State("rx"))
  <2>1. \A op \in Ops(e) : op \notin Passing
    <3>1. Set("regs", "init") \in ChipOps
      BY DEF ChipOps
    <3>2. State("rx") \notin Passing
      BY PartsOfOps DEF Passing
    <3> QED BY <1>3, <3>1, <3>2, DifferentOps
  <2> QED BY <2>1 DEF Then, Ops
<1>5. Ax5043_OFF \o Ax5043_Reset \in Seq(RestartOps)
  BY <1>1, <1>2
<1> HIDE DEF e
<1>6. State("rx") \in Ops(e)
  BY <1>3
<1> DEFINE o == Ax5043_OFF \o Ax5043_Reset
<1>7. o \in Seq(RestartOps) /\ e \in Seq(RestartOps)
  BY <1>3, <1>5
<1>8. rf_restart = o \o e
  BY DEF rf_restart, e
<1> HIDE DEF o
<1>9. o \o e \in Seq(RestartOps) /\ Ops(o \o e) = Ops(o) \cup Ops(e)
  BY <1>7, ConcatOps
<1>10. Then(o \o e, Passing, State("rx"))
  BY <1>4, <1>6, <1>7, ConcatThen
<1> QED BY <1>6, <1>8, <1>9, <1>10

(* The send timer's program, and the rest of case trxstate_tx_waitdone. *)
LEMMA RestartAfter ==
    ASSUME NEW S, RestartOps \subseteq S, NEW a \in Seq(S)
    PROVE  /\ a \o rf_restart \in Seq(S)
           /\ State("rx") \in Ops(a \o rf_restart)
           /\ Ops(a \o rf_restart) \subseteq Ops(a) \cup RestartOps
           /\ Then(a \o rf_restart, Passing, State("rx"))
<1>1. rf_restart \in Seq(S) /\ Ops(rf_restart) \subseteq RestartOps
  BY RestartProgram DEF Ops
<1> QED BY <1>1, RestartProgram, ConcatOps, ConcatThen

(* What main has to do. *)
LEMMA StartProgram ==
    /\ rf_startup \in Seq(MainOps) /\ Orders(rf_startup)
    /\ State("rx") \in Ops(rf_startup)
<1> DEFINE l1 == <<Set("regs", "init"), Set("regs", "tx"), Set("pwr", "xtal")>>
           l2 == <<Set("pwr", "down"), Set("regs", "init"), Set("regs", "rx"),
                   State("rx"), Set("regs", "rx")>>
           a == Ax5043_OFF \o Ax5043_Reset \o l1 \o RadioXtalON \o PllRanging \o l2
<1>1. Ax5043_OFF \in Seq(MainOps) /\ Ax5043_Reset \in Seq(MainOps)
  <2>1. Ax5043_OFF \in Seq(MainOps)
    BY DEF Ax5043_OFF, MainOps, RestartOps, ChipOps
  <2>2. <<Do("reset"), Set("pwr", "down")>> \in Seq(MainOps) /\ Kick \in Seq(MainOps)
    BY DEF Kick, MainOps, RestartOps, ChipOps
  <2> QED BY <2>1, <2>2 DEF Ax5043_Reset
<1>2. l1 \in Seq(MainOps)
  BY DEF MainOps, RestartOps, ChipOps
<1>3. l2 \in Seq(MainOps)
  BY DEF MainOps, RestartOps, ChipOps
<1>4. RadioXtalON \in Seq(MainOps)
  BY DEF RadioXtalON, MainOps, RestartOps, ChipOps
<1>5. PllRanging \in Seq(MainOps)
  BY DEF PllRanging, MainOps, RestartOps, ChipOps
<1>6. Ax5043ReceiverON \in Seq(MainOps)
  BY DEF Ax5043ReceiverON, MainOps, RestartOps, ChipOps
<1> HIDE DEF l1, l2
<1>7. a \in Seq(MainOps)
  BY <1>1, <1>2, <1>3, <1>4, <1>5
<1>8. rf_startup = a \o Ax5043ReceiverON
  BY DEF rf_startup, l1, l2
<1> HIDE DEF a
<1>9. /\ State("rx") \in Ops(Ax5043ReceiverON)
      /\ \A op \in Ops(Ax5043ReceiverON) : op \in ChipOps \/ op = State("rx")
  <2>1. Ops(Ax5043ReceiverON) = {Do("clear"), Set("pwr", "rx"), State("rx"),
                                 Set("mask0", "rx"), Set("mask1", "none")}
    BY DEF Ops, Ax5043ReceiverON
  <2>2. {Do("clear"), Set("pwr", "rx"), Set("mask0", "rx"), Set("mask1", "none")}
            \subseteq ChipOps
    BY DEF ChipOps
  <2> QED BY <2>1, <2>2
<1>10. \A op \in Ops(Ax5043ReceiverON) : op \notin Passing
  <2>1. State("rx") \notin Passing
    BY PartsOfOps DEF Passing
  <2> QED BY <1>9, <2>1, DifferentOps
<1>11. Then(Ax5043ReceiverON, Passing, State("rx"))
  BY <1>10 DEF Then, Ops
<1>12. Then(rf_startup, Passing, State("rx"))
  BY <1>6, <1>7, <1>8, <1>9, <1>11, ConcatThen
<1>13. rf_startup \in Seq(MainOps) /\ State("rx") \in Ops(rf_startup)
  BY <1>6, <1>7, <1>8, <1>9, ConcatOps
<1>14. \A op \in Ops(rf_startup) : op \in MainOps
  BY <1>13 DEF Ops
<1>15. Orders(rf_startup)
  BY <1>12, <1>14, PlainOrders, DifferentOps
<1> QED BY <1>13, <1>15

(* What the dequeue thread has to do. *)
LEMMA SendProgram ==
    Normal_send \in Seq(SendOps) /\ Orders(Normal_send)
<1> DEFINE n == Normal_send
<1>1. n \in Seq(SendOps) /\ Len(n) = 7
  BY DEF Normal_send, SendOps, ChipOps
<1>2. n[4] = State("tx_xtalwait") /\ n[7] = <<"timer", "on">>
  BY DEF Normal_send
<1>3. \A i \in 1..7 : i = 4 \/ i = 7 \/ n[i] \in ChipOps
  <2>1. n[1] = Set("pwr", "xtal") /\ n[2] = Set("pwr", "fifo") /\ n[3] = Set("regs", "tx")
    BY DEF Normal_send
  <2>2. n[5] = Set("mask0", "none") /\ n[6] = Set("mask1", "xtal")
    BY DEF Normal_send
  <2>3. {n[1], n[2], n[3], n[5], n[6]} \subseteq ChipOps
    BY <2>1, <2>2 DEF ChipOps
  <2>4. \A i \in 1..7 : i = 1 \/ i = 2 \/ i = 3 \/ i = 4 \/ i = 5 \/ i = 6 \/ i = 7
    OBVIOUS
  <2> QED BY <2>3, <2>4
<1> HIDE DEF n
<1>4. <<"timer", "on">> # State("tx_xtalwait")
  BY DEF State
<1>5. \A i \in 1..7 : n[i] = State("tx_xtalwait") => i = 4
  BY <1>2, <1>3, <1>4, DifferentOps
<1>6. \A i \in 1..7 : n[i] \notin Passing \cup Special
  <2>0. ASSUME NEW s \in Seq(SendOps), NEW i \in 1..Len(s) PROVE s[i] \in SendOps
    OBVIOUS
  <2>1. \A i \in 1..7 : n[i] \in SendOps
    BY <1>1, <2>0
  <2>2. State("tx_xtalwait") \notin Passing /\ <<"timer", "on">> \notin Passing
    BY PartsOfOps DEF Passing, State
  <2> QED BY <1>2, <1>3, <2>1, <2>2, DifferentOps
<1>7. 4 < 7 /\ 7 \in 1..7
  OBVIOUS
<1>8. Then(n, {State("tx_xtalwait")}, <<"timer", "on">>)
  BY <1>1, <1>2, <1>5, <1>7 DEF Then
<1>9. NotAfter(n, {State("tx_xtalwait")}, {State("tx_xtalwait")})
  BY <1>1, <1>5 DEF NotAfter
<1>10. /\ Then(n, Passing, State("rx"))
       /\ Then(n, Loads, Do("transmit"))
       /\ Then(n, {Do("commit")}, State("tx_waitdone"))
       /\ NotAfter(n, Closing, Special)
       /\ NotAfter(n, {Do("commit")}, Begun)
  BY <1>1, <1>6 DEF Then, NotAfter, Special
<1>11. Orders(n)
  BY <1>8, <1>9, <1>10 DEF Orders
<1> QED BY <1>1, <1>11 DEF n

(* Operations without an order. *)
FreeOps ==
    ChipOps \cup {State("rx"), State("xtal_ready"), State("pll_ranging_done"),
                  <<"timer", "off">>}

(* A program of them has every order. *)
LEMMA FreeProgram ==
    /\ FreeOps \subseteq TaskOps
    /\ \A op \in FreeOps : op \notin Passing \cup Special \cup {State("tx_xtalwait")}
    /\ \A s \in Seq(FreeOps) : Orders(s) /\ Ops(s) \subseteq FreeOps
<1>1. FreeOps \subseteq TaskOps
  BY DEF FreeOps, TaskOps, RestartOps
<1>2. \A op \in FreeOps : op \notin Passing \cup Special \cup {State("tx_xtalwait")}
  <2>1. \A op \in FreeOps : \/ op \in ChipOps
                            \/ op[1] = "timer"
                            \/ /\ op[1] = "state"
                               /\ op[2] \in {"rx", "xtal_ready", "pll_ranging_done"}
    BY PartsOfOps DEF FreeOps
  <2>2. \A op \in Passing \cup Special \cup {State("tx_xtalwait")} :
            /\ op[1] # "timer"
            /\ op[1] = "state" => op[2] \notin {"rx", "xtal_ready", "pll_ranging_done"}
    BY PartsOfOps DEF Passing, Special, Loads
  <2> QED BY <2>1, <2>2, DifferentOps
<1>3. ASSUME NEW s \in Seq(FreeOps)
      PROVE  Orders(s) /\ Ops(s) \subseteq FreeOps
  <2>1. \A i \in 1..Len(s) : s[i] \in FreeOps
    OBVIOUS
  <2>2. Ops(s) \subseteq FreeOps
    BY <2>1 DEF Ops
  <2>3. Then(s, Passing, State("rx"))
    BY <1>2, <2>1 DEF Then
  <2> QED BY <1>2, <2>2, <2>3, PlainOrders
<1> QED BY <1>1, <1>2, <1>3

(* The handler of an interrupt that begins a packet. *)
LEMMA BeginHandler ==
    LET h == Handler("tx_xtalwait")
    IN  /\ h \in Seq(TaskOps) /\ Orders(h)
        /\ State("tx_longpreamble") \in Ops(h)
        /\ \A op \in Ops(h) : \/ op \in ChipOps
                              \/ op = State("tx_longpreamble") \/ op = Do("transmit")
<1> DEFINE h == Handler("tx_xtalwait")
<1>1. h = <<Set("done", FALSE), Do("clear"), Set("mask1", "none"),
            Set("mask0", "free"), State("tx_longpreamble"),
            Do("transmit"), Set("pwr", "tx")>>
  BY DEF Handler, Preamble
<1> HIDE DEF h
<1>2. Len(h) = 7 /\ h[5] = State("tx_longpreamble") /\ h[6] = Do("transmit")
  BY <1>1
<1>3. \A i \in 1..7 : i = 5 \/ i = 6 \/ h[i] \in ChipOps
  <2>1. h[1] = Set("done", FALSE) /\ h[2] = Do("clear") /\ h[3] = Set("mask1", "none")
    BY <1>1
  <2>2. h[4] = Set("mask0", "free") /\ h[7] = Set("pwr", "tx")
    BY <1>1
  <2>3. {h[1], h[2], h[3], h[4], h[7]} \subseteq ChipOps
    BY <2>1, <2>2 DEF ChipOps
  <2>4. \A i \in 1..7 : i = 1 \/ i = 2 \/ i = 3 \/ i = 4 \/ i = 5 \/ i = 6 \/ i = 7
    OBVIOUS
  <2> QED BY <2>3, <2>4
<1>4. h \in Seq(TaskOps)
  BY <1>1 DEF TaskOps, RestartOps, ChipOps, Special, Loads
<1>5. /\ State("tx_longpreamble") \notin Closing \cup Passing \cup {Do("commit"), State("tx_xtalwait")}
      /\ Do("transmit") \notin Passing \cup Loads \cup {Do("commit"), State("tx_xtalwait")}
  BY PartsOfOps DEF Closing, Passing, Loads
<1>6. \A op \in ChipOps : op \notin Closing
  BY DifferentOps DEF Closing, Passing, Special
<1>7. \A i \in 1..7 : /\ h[i] \notin Passing \cup {Do("commit"), State("tx_xtalwait")}
                      /\ h[i] \in Closing => i = 6
                      /\ h[i] \in Loads => i = 5
  BY <1>2, <1>3, <1>5, <1>6, DifferentOps DEF Special
<1>8. Then(h, Loads, Do("transmit"))
  <2>1. 6 \in 1..7 /\ 5 < 6
    OBVIOUS
  <2> QED BY <1>2, <1>7, <2>1 DEF Then
<1>9. NotAfter(h, Closing, Special)
  <2> SUFFICES ASSUME NEW i \in 1..7, NEW j \in 1..7, i < j, h[i] \in Closing
               PROVE  h[j] \notin Special
    BY <1>2 DEF NotAfter
  <2>1. i = 6
    BY <1>7
  <2>2. j = 7
    BY <2>1
  <2> QED BY <1>3, <2>2, DifferentOps
<1>10. /\ Then(h, Passing, State("rx"))
       /\ Then(h, {State("tx_xtalwait")}, <<"timer", "on">>)
       /\ Then(h, {Do("commit")}, State("tx_waitdone"))
       /\ NotAfter(h, {Do("commit")}, Begun)
       /\ NotAfter(h, {State("tx_xtalwait")}, {State("tx_xtalwait")})
  BY <1>2, <1>7 DEF Then, NotAfter
<1>11. Orders(h)
  BY <1>8, <1>9, <1>10 DEF Orders
<1>12. 5 \in 1..7 /\ State("tx_longpreamble") \in Ops(h)
  BY <1>2 DEF Ops
<1>13. \A op \in Ops(h) : \/ op \in ChipOps
                          \/ op = State("tx_longpreamble") \/ op = Do("transmit")
  BY <1>2, <1>3 DEF Ops
<1> QED BY <1>4, <1>11, <1>12, <1>13 DEF h

(* The handler of an interrupt that ends a packet. *)
LEMMA EndHandler ==
    LET h == Handler("tx_waitdone")
    IN  /\ h \in Seq(TaskOps) /\ Orders(h)
        /\ \A op \in Ops(h) : \/ op \in RestartOps
                              \/ op = <<"timer", "off">> \/ op = Do("leave_if_busy")
<1> DEFINE a == <<<<"timer", "off">>, Set("done", FALSE), Do("leave_if_busy"),
                  Set("revmask", "none")>>
<1>1. Handler("tx_waitdone") = a \o rf_restart
  BY DEF Handler, Preamble
<1>2. a \in Seq(TaskOps)
  BY DEF TaskOps, RestartOps, ChipOps, Special
<1>3. /\ Len(a) = 4 /\ a[1] = <<"timer", "off">> /\ a[2] = Set("done", FALSE)
      /\ a[3] = Do("leave_if_busy") /\ a[4] = Set("revmask", "none")
  OBVIOUS
<1> HIDE DEF a
<1>4. a[2] \in ChipOps /\ a[4] \in ChipOps
  BY <1>3 DEF ChipOps
<1>5. \A i \in 1..4 : i = 1 \/ i = 2 \/ i = 3 \/ i = 4
  OBVIOUS
<1>6. \A op \in Ops(a) : op \in ChipOps \/ op = <<"timer", "off">> \/ op = Do("leave_if_busy")
  BY <1>3, <1>4, <1>5 DEF Ops
<1>7. /\ <<"timer", "off">> \notin Closing \cup Special \cup {State("tx_xtalwait")}
      /\ Do("leave_if_busy") \notin Loads \cup {State("tx_xtalwait"), Do("commit")}
  BY PartsOfOps DEF Closing, Special, Loads
<1>8. NotAfter(a, Closing, Special)
  <2> SUFFICES ASSUME NEW i \in 1..4, NEW j \in 1..4, i < j, a[i] \in Closing
               PROVE  a[j] \notin Special
    BY <1>3 DEF NotAfter
  <2>1. i # 1 /\ i # 2
    BY <1>3, <1>4, <1>7, DifferentOps DEF Closing, Passing, Special
  <2>2. j = 4
    BY <2>1
  <2> QED BY <1>4, <2>2, DifferentOps
<1> DEFINE h == a \o rf_restart
<1>9. /\ RestartOps \subseteq TaskOps
      /\ rf_restart \in Seq(TaskOps)
      /\ \A op \in Ops(rf_restart) : op \in RestartOps
  <2>1. RestartOps \subseteq TaskOps
    BY DEF TaskOps
  <2>2. \A op \in Ops(rf_restart) : op \in RestartOps
    BY RestartProgram DEF Ops
  <2> QED BY <2>1, <2>2, RestartProgram
<1>10. h \in Seq(TaskOps) /\ Ops(h) \subseteq Ops(a) \cup RestartOps
       /\ Then(h, Passing, State("rx"))
  BY <1>2, <1>9, RestartAfter
<1>11. \A op \in RestartOps : op \notin Special \cup {State("tx_xtalwait")}
  BY DifferentOps DEF MainOps
<1>12. NotAfter(h, Closing, Special)
  BY <1>2, <1>8, <1>9, <1>11, ConcatNotAfter
<1> HIDE DEF h
<1>13. \A op \in Ops(h) : \/ op \in RestartOps
                          \/ op = <<"timer", "off">> \/ op = Do("leave_if_busy")
  BY <1>6, <1>10 DEF RestartOps
<1>14. \A op \in Ops(h) : op \notin Loads \cup {State("tx_xtalwait"), Do("commit")}
  BY <1>7, <1>11, <1>13 DEF Special
<1>15. \A i \in 1..Len(h) : h[i] \notin Loads \cup {State("tx_xtalwait"), Do("commit")}
  BY <1>14 DEF Ops
<1>16. Orders(h)
  BY <1>10, <1>12, <1>15 DEF Orders, Then, NotAfter
<1> QED BY <1>1, <1>10, <1>13, <1>16 DEF h

DriverStates == {"off", "rx"} \cup Sending \cup StartStates

(* The handlers of the other interrupts. *)
LEMMA OtherHandlers ==
    /\ \A s \in {"off", "rx", "xtal_ready", "pll_ranging_done"} :
           Handler(s) \in Seq(ChipOps \cup {State("rx")})
    /\ \A s \in {"wait_xtal", "pll_ranging"} :
           Handler(s) \in Seq(ChipOps \cup {State("xtal_ready"), State("pll_ranging_done")})
    /\ \A s \in Preamble \cup {"tx_packet"} : Handler(s) = <<Do("transmit")>>
<1>1. Handler("rx") \in Seq(ChipOps \cup {State("rx")})
  <2>1. /\ ReceiveData \in Seq(ChipOps \cup {State("rx")})
        /\ <<Set("regs", "rx")>> \in Seq(ChipOps \cup {State("rx")})
    BY DEF ReceiveData, ChipOps
  <2>2. Ax5043Receiver_Continuous \in Seq(ChipOps \cup {State("rx")})
    BY DEF Ax5043Receiver_Continuous, ChipOps
  <2>3. Handler("rx") = ReceiveData \o <<Set("regs", "rx")>> \o Ax5043Receiver_Continuous
    BY DEF Handler, Preamble
  <2>4. ReceiveData \o <<Set("regs", "rx")>> \in Seq(ChipOps \cup {State("rx")})
    BY <2>1, ConcatOps
  <2>5. ASSUME NEW S, NEW a \in Seq(S), NEW b \in Seq(S) PROVE a \o b \in Seq(S)
    OBVIOUS
  <2>6. (ReceiveData \o <<Set("regs", "rx")>>) \o Ax5043Receiver_Continuous
            \in Seq(ChipOps \cup {State("rx")})
    BY <2>2, <2>4, <2>5, Zenon
  <2> QED BY <2>3, <2>6
<1>2. ASSUME NEW s \in {"off", "xtal_ready", "pll_ranging_done"}
      PROVE  Handler(s) \in Seq(ChipOps \cup {State("rx")})
  <2>1. Handler(s) = <<Set("mask1", "none"), Set("mask0", "none")>>
    BY DEF Handler, Preamble
  <2> QED BY <2>1 DEF ChipOps
<1>3. ASSUME NEW s \in {"wait_xtal", "pll_ranging"}
      PROVE  Handler(s) \in Seq(ChipOps \cup {State("xtal_ready"), State("pll_ranging_done")})
  <2>1. \/ Handler(s) = <<Set("mask1", "none"), State("xtal_ready")>>
        \/ Handler(s) = <<Set("mask1", "none"), State("pll_ranging_done")>>
    BY DEF Handler, Preamble
  <2>2. Set("mask1", "none") \in ChipOps
    BY DEF ChipOps
  <2>3. ASSUME NEW S, NEW x \in S, NEW y \in S PROVE <<x, y>> \in Seq(S)
    OBVIOUS
  <2> QED BY <2>1, <2>2, <2>3
<1>4. ASSUME NEW s \in Preamble \cup {"tx_packet"}
      PROVE  Handler(s) = <<Do("transmit")>>
  BY DEF Handler, Preamble
<1> QED BY <1>1, <1>2, <1>3, <1>4

(* What the task has to do when it takes an interrupt. *)
LEMMA HandlerProgram ==
    ASSUME NEW s \in DriverStates
    PROVE  LET h == Handler(s)
           IN  /\ h \in Seq(TaskOps) /\ Orders(h)
               /\ (\E op \in Special : op \in Ops(h)) => s \in Sending
               /\ (\E op \in Loads : op \in Ops(h)) <=> s = "tx_xtalwait"
               /\ Do("commit") \notin Ops(h) /\ State("tx_waitdone") \notin Ops(h)
               /\ State("xtal_ready") \in Ops(h) \/ State("pll_ranging_done") \in Ops(h)
                      => s \in StartStates
               /\ <<"timer", "off">> \in Ops(h) => s = "tx_waitdone"
<1> DEFINE h == Handler(s)
<1>0. Loads \cup {Do("commit"), State("tx_waitdone")} \subseteq Special
  BY DEF Special
<1>00. /\ \A op \in ChipOps \cup {State("rx")} :
              /\ op \notin Special
              /\ op \notin {State("xtal_ready"), State("pll_ranging_done"), <<"timer", "off">>}
       /\ State("xtal_ready") # <<"timer", "off">>
       /\ State("pll_ranging_done") # <<"timer", "off">>
  <2>1. State("rx") \in MainOps
    BY DEF MainOps, RestartOps
  <2>2. \A x : State(x) # <<"timer", "off">>
    BY DEF State
  <2> QED BY <2>1, <2>2, DifferentOps
<1>1. CASE s \in {"off", "rx", "xtal_ready", "pll_ranging_done"}
  <2>1. h \in Seq(ChipOps \cup {State("rx")})
    BY <1>1, OtherHandlers
  <2> HIDE DEF h
  <2>2. h \in Seq(FreeOps)
    BY <2>1 DEF FreeOps
  <2>3. h \in Seq(TaskOps) /\ Orders(h)
    BY <2>2, FreeProgram
  <2>4. \A op \in Ops(h) : op \in ChipOps \cup {State("rx")}
    BY <2>1 DEF Ops
  <2>5. s # "tx_xtalwait"
    BY <1>1
  <2> QED BY <1>0, <1>00, <2>3, <2>4, <2>5 DEF h
<1>2. CASE s \in {"wait_xtal", "pll_ranging"}
  <2>1. h \in Seq(ChipOps \cup {State("xtal_ready"), State("pll_ranging_done")})
    BY <1>2, OtherHandlers
  <2> HIDE DEF h
  <2>2. h \in Seq(FreeOps)
    BY <2>1 DEF FreeOps
  <2>3. h \in Seq(TaskOps) /\ Orders(h)
    BY <2>2, FreeProgram
  <2>4. \A op \in Ops(h) : op \in ChipOps \cup {State("xtal_ready"), State("pll_ranging_done")}
    BY <2>1 DEF Ops
  <2>5. \A op \in Ops(h) : op \notin Special
    BY <2>2, FreeProgram
  <2>6. s \in StartStates /\ s # "tx_xtalwait"
    BY <1>2 DEF StartStates
  <2>7. <<"timer", "off">> \notin Ops(h)
    BY <1>00, <2>4
  <2> QED BY <1>0, <2>3, <2>5, <2>6, <2>7 DEF h
<1>3. CASE s = "tx_xtalwait"
  <2>1. /\ h \in Seq(TaskOps) /\ Orders(h) /\ State("tx_longpreamble") \in Ops(h)
        /\ \A op \in Ops(h) : \/ op \in ChipOps
                              \/ op = State("tx_longpreamble") \/ op = Do("transmit")
    BY <1>3, BeginHandler
  <2> HIDE DEF h
  <2>2. \A op \in {State("tx_longpreamble"), Do("transmit")} :
            op \notin {Do("commit"), State("tx_waitdone"), State("xtal_ready"),
                       State("pll_ranging_done"), <<"timer", "off">>}
    BY PartsOfOps, TimerParts
  <2>3. \A op \in ChipOps : op \notin {Do("commit"), State("tx_waitdone")}
    BY <1>0, <1>00
  <2>4. \A op \in Ops(h) : op \notin {Do("commit"), State("tx_waitdone"), State("xtal_ready"),
                                      State("pll_ranging_done"), <<"timer", "off">>}
    BY <1>00, <2>1, <2>2, <2>3
  <2>5. s \in Sending /\ State("tx_longpreamble") \in Loads
    BY <1>3 DEF Sending, Loads
  <2> QED BY <1>3, <2>1, <2>4, <2>5 DEF h
<1>4. CASE s \in Preamble \cup {"tx_packet"}
  <2>1. h = <<Do("transmit")>>
    BY <1>4, OtherHandlers
  <2> HIDE DEF h
  <2>2. Ops(h) = {Do("transmit")} /\ h \in Seq(TaskOps) /\ Len(h) = 1
    <3>1. Do("transmit") \in TaskOps
      BY DEF TaskOps, Special
    <3>2. Ops(<<Do("transmit")>>) = {Do("transmit")}
      BY ExplicitOps
    <3>3. <<Do("transmit")>> \in Seq(TaskOps) /\ Len(<<Do("transmit")>>) = 1
      BY <3>1
    <3> QED BY <2>1, <3>2, <3>3
  <2>3. Do("transmit") \notin Passing \cup Loads \cup {State("tx_xtalwait"),
            Do("commit"), State("tx_waitdone"), State("xtal_ready"),
            State("pll_ranging_done"), <<"timer", "off">>}
    BY PartsOfOps, TimerParts DEF Passing, Loads
  <2>4. \A i \in 1..Len(h) : i = 1 /\ h[i] = Do("transmit")
    BY <2>1
  <2>5. /\ Then(h, Passing, State("rx"))
        /\ Then(h, {State("tx_xtalwait")}, <<"timer", "on">>)
        /\ Then(h, Loads, Do("transmit"))
        /\ Then(h, {Do("commit")}, State("tx_waitdone"))
    BY <2>3, <2>4 DEF Then
  <2>6. \A X, Y : NotAfter(h, X, Y)
    BY <2>2 DEF NotAfter
  <2>7. Orders(h)
    BY <2>5, <2>6 DEF Orders
  <2>8. s \in Sending /\ s # "tx_xtalwait"
    BY <1>4 DEF Sending, Preamble
  <2> QED BY <2>2, <2>3, <2>7, <2>8 DEF h
<1>5. CASE s = "tx_waitdone"
  <2>1. /\ h \in Seq(TaskOps) /\ Orders(h)
        /\ \A op \in Ops(h) : \/ op \in RestartOps
                              \/ op = <<"timer", "off">> \/ op = Do("leave_if_busy")
    BY <1>5, EndHandler
  <2> HIDE DEF h
  <2>2. \A op \in {<<"timer", "off">>, Do("leave_if_busy")} :
            op \notin Loads \cup {Do("commit"), State("tx_waitdone"),
                                  State("xtal_ready"), State("pll_ranging_done")}
    BY PartsOfOps, TimerParts DEF Loads
  <2>3. \A op \in RestartOps :
            op \notin Loads \cup {Do("commit"), State("tx_waitdone"),
                                  State("xtal_ready"), State("pll_ranging_done")}
    BY <1>0, DifferentOps DEF MainOps
  <2>4. \A op \in Ops(h) :
            op \notin Loads \cup {Do("commit"), State("tx_waitdone"),
                                  State("xtal_ready"), State("pll_ranging_done")}
    BY <2>1, <2>2, <2>3
  <2>5. s \in Sending
    BY <1>5 DEF Sending
  <2> QED BY <1>5, <2>1, <2>4, <2>5 DEF h
<1> QED BY <1>1, <1>2, <1>3, <1>4, <1>5 DEF DriverStates, Sending, StartStates

(* The end of TransmitData is put before the rest of a handler. *)
LEMMA PktEndProgram ==
    ASSUME NEW b \in Seq(TaskOps), Orders(b), \A op \in Ops(b) : op \notin Special
    PROVE  /\ PktEnd \o b \in Seq(TaskOps) /\ Orders(PktEnd \o b)
           /\ Do("commit") \in Ops(PktEnd \o b)
           /\ State("tx_waitdone") \in Ops(PktEnd \o b)
           /\ \A op \in Ops(PktEnd \o b) :
                  \/ op \in Ops(b) \cup ChipOps
                  \/ op = Do("commit") \/ op = State("tx_waitdone")
<1>1. PktEnd \in Seq(TaskOps)
  BY DEF PktEnd, TaskOps, RestartOps, ChipOps, Special
<1>2. /\ Len(PktEnd) = 4 /\ PktEnd[1] = Do("commit") /\ PktEnd[2] = State("tx_waitdone")
      /\ PktEnd[3] = Set("revmask", "done") /\ PktEnd[4] = Set("mask0", "radio")
  BY DEF PktEnd
<1>3. PktEnd[3] \in ChipOps /\ PktEnd[4] \in ChipOps
  BY <1>2 DEF ChipOps
<1>4. \A i \in 1..4 : i = 1 \/ i = 2 \/ i = 3 \/ i = 4
  OBVIOUS
<1>5. /\ Do("commit") \notin Closing \cup Passing \cup Loads \cup {State("tx_xtalwait"), State("tx_waitdone")}
      /\ State("tx_waitdone") \notin Passing \cup Loads \cup {State("tx_xtalwait"), Do("commit")}
  BY PartsOfOps DEF Closing, Passing, Loads
<1>6. \A op \in ChipOps : op \notin Closing \cup Passing \cup Special \cup {State("tx_xtalwait")}
  BY DifferentOps DEF Closing, Passing, Special
<1>7. /\ \A op \in Ops(PktEnd) : op \in ChipOps \/ op = Do("commit") \/ op = State("tx_waitdone")
      /\ Do("commit") \in Ops(PktEnd) /\ State("tx_waitdone") \in Ops(PktEnd)
  BY <1>2, <1>3, <1>4 DEF Ops
<1>8. \A i \in 1..4 : PktEnd[i] \notin Passing \cup Loads \cup {State("tx_xtalwait")}
  BY <1>2, <1>3, <1>4, <1>5, <1>6 DEF Special
<1>9. \A i \in 1..4 : PktEnd[i] = Do("commit") => i = 1
  BY <1>2, <1>3, <1>4, <1>5, <1>6 DEF Special
<1>10. NotAfter(PktEnd, Closing, Special)
  <2> SUFFICES ASSUME NEW i \in 1..4, NEW j \in 1..4, i < j, PktEnd[i] \in Closing
               PROVE  PktEnd[j] \notin Special
    BY <1>2 DEF NotAfter
  <2>1. i = 2
    BY <1>2, <1>3, <1>4, <1>5, <1>6
  <2>2. j = 3 \/ j = 4
    BY <2>1
  <2> QED BY <1>3, <1>6, <2>2
<1>11. Then(PktEnd, {Do("commit")}, State("tx_waitdone"))
  <2>1. 2 \in 1..4 /\ 1 < 2
    OBVIOUS
  <2> QED BY <1>2, <1>9, <2>1 DEF Then
<1>12. /\ Then(PktEnd, Passing, State("rx"))
       /\ Then(PktEnd, {State("tx_xtalwait")}, <<"timer", "on">>)
       /\ Then(PktEnd, Loads, Do("transmit"))
       /\ NotAfter(PktEnd, {Do("commit")}, Begun)
       /\ NotAfter(PktEnd, {State("tx_xtalwait")}, {State("tx_xtalwait")})
  BY <1>2, <1>8, <1>9 DEF Then, NotAfter, Begun
<1>13. \A op \in Ops(b) : op \notin Begun /\ op # State("tx_xtalwait")
  <2>1. \A op \in Ops(b) : op \in TaskOps
    BY DEF Ops
  <2> QED BY <2>1, DifferentOps DEF Special, Begun
<1>14. NotAfter(PktEnd \o b, Closing, Special)
  BY <1>1, <1>10, ConcatNotAfter
<1>15. NotAfter(PktEnd \o b, {Do("commit")}, Begun)
  BY <1>1, <1>12, <1>13, ConcatNotAfter
<1>16. NotAfter(PktEnd \o b, {State("tx_xtalwait")}, {State("tx_xtalwait")})
  BY <1>1, <1>12, <1>13, ConcatNotAfter
<1>17. /\ Then(PktEnd \o b, Passing, State("rx"))
       /\ Then(PktEnd \o b, {State("tx_xtalwait")}, <<"timer", "on">>)
       /\ Then(PktEnd \o b, Loads, Do("transmit"))
       /\ Then(PktEnd \o b, {Do("commit")}, State("tx_waitdone"))
  BY <1>1, <1>11, <1>12, ConcatThenBoth DEF Orders
<1>18. PktEnd \o b \in Seq(TaskOps) /\ Ops(PktEnd \o b) = Ops(PktEnd) \cup Ops(b)
  BY <1>1, ConcatOps
<1>19. Orders(PktEnd \o b)
  BY <1>14, <1>15, <1>16, <1>17 DEF Orders
<1> QED BY <1>7, <1>18, <1>19

(* The next state of TransmitData is stored before its next turn. *)
LEMMA LoadProgram ==
    ASSUME NEW x \in Loads, NEW b \in Seq(TaskOps), Orders(b),
           Do("transmit") \in Ops(b), Do("commit") \notin Ops(b)
    PROVE  /\ <<x>> \o b \in Seq(TaskOps) /\ Orders(<<x>> \o b)
           /\ Ops(<<x>> \o b) = {x} \cup Ops(b)
<1> DEFINE a == <<x>>
<1>1. /\ a \in Seq(TaskOps) /\ Len(a) = 1 /\ a[1] = x /\ Ops(a) = {x}
  <2>1. x \in TaskOps
    BY DEF TaskOps, Special
  <2>2. Ops(<<x>>) = {x}
    BY ExplicitOps
  <2>3. <<x>> \in Seq(TaskOps) /\ Len(<<x>>) = 1 /\ <<x>>[1] = x
    BY <2>1
  <2> QED BY <2>2, <2>3
<1>2. x \notin Closing \cup Passing \cup {State("tx_xtalwait"), Do("commit")}
  BY PartsOfOps DEF Loads, Closing, Passing
<1> HIDE DEF a
<1>3. \A i \in 1..Len(a) : i = 1 /\ a[i] = x
  BY <1>1
<1>4. /\ Then(a, Passing, State("rx"))
      /\ Then(a, {State("tx_xtalwait")}, <<"timer", "on">>)
      /\ Then(a, {Do("commit")}, State("tx_waitdone"))
  BY <1>2, <1>3 DEF Then
<1>5. a \o b \in Seq(TaskOps) /\ Ops(a \o b) = {x} \cup Ops(b)
  BY <1>1, ConcatOps
<1>6. /\ Then(a \o b, Passing, State("rx"))
      /\ Then(a \o b, {State("tx_xtalwait")}, <<"timer", "on">>)
      /\ Then(a \o b, {Do("commit")}, State("tx_waitdone"))
  BY <1>1, <1>4, ConcatThenBoth DEF Orders
<1>7. Then(a \o b, Loads, Do("transmit"))
  BY <1>1, ConcatThen DEF Orders
<1>8. /\ NotAfter(a \o b, Closing, Special)
      /\ NotAfter(a \o b, {State("tx_xtalwait")}, {State("tx_xtalwait")})
      /\ NotAfter(a \o b, {Do("commit")}, Begun)
  BY <1>1, <1>2, ConcatNotAfterFree DEF Orders
<1>9. Orders(a \o b)
  BY <1>6, <1>7, <1>8 DEF Orders
<1> QED BY <1>5, <1>9 DEF a

-----------------------------------------------------------------------------
(* The inductive invariant.                                                *)

Has(t, op) == op \in Ops(todo[t])

(* Each thread has one of its programs ahead, or the rest of one. *)
ProgInv ==
    /\ todo = [t \in Threads |-> todo[t]]
    /\ \A t \in Threads : todo[t] \in Seq(OpsOf(t)) /\ Orders(todo[t])

Chips ==
    [pwr : {"down", "xtal", "fifo", "rx", "tx"},
     mask0 : {"none", "rx", "free", "radio"},
     mask1 : {"none", "xtal", "pll"}, revmask : {"none", "rx", "done"},
     regs : {"none", "init", "rx", "tx"}, xtal : BOOLEAN,
     rng : {"none", "busy", "done"}, rx : BOOLEAN,
     tx : {"empty", "queued", "sent"}, done : BOOLEAN, hung : BOOLEAN]

TypeInv ==
    /\ taskPrio \in {8, 9} /\ ubRFState \in DriverStates /\ IRQ_Sem \in Nat
    /\ chip \in Chips /\ sendTimer \in {"off", "on", "due"}
    /\ sends \in 0..MaxSends /\ packets \in 0..MaxPackets /\ hangs \in 0..MaxHangs
    /\ rested \in BOOLEAN /\ heard \in BOOLEAN /\ orderly \in BOOLEAN /\ met \in BOOLEAN
    /\ aired \in Nat

(* Before the end of the start-up nothing is sent; its states are left by  *)
(* main, and the handlers that answer them are over before main is.        *)
StartInv ==
    /\ ~Started => /\ Idle("timer") /\ Idle("dequeue") /\ sendTimer = "off"
                   /\ ubRFState \notin Sending
                   /\ \A op \in Special : ~Has("task", op)
    /\ \/ ubRFState \in StartStates
       \/ Has("task", State("xtal_ready")) \/ Has("task", State("pll_ranging_done"))
       => Has("main", State("rx"))

(* State off is left by a thread that does not return before. *)
OffInv ==
    ubRFState = "off" =>
        \E t \in Threads : Has(t, State("rx")) /\ ~Has(t, Do("leave_if_busy"))

(* The states of the packet are left by the task. *)
PacketInv ==
    ubRFState \in Preamble \cup {"tx_packet"} =>
        Has("task", Do("transmit")) \/ Has("task", State("tx_waitdone"))

(* The 433 radio waits for the crystal with the send timer on, about to be *)
(* started, or about to restart the radio; and the task does not stop it.  *)
TimerInv ==
    taskPrio = 8 =>
        /\ ubRFState = "tx_xtalwait" =>
               \/ sendTimer # "off"
               \/ Has("dequeue", <<"timer", "on">>) \/ Has("timer", State("rx"))
        /\ Has("task", <<"timer", "off">>) => ubRFState # "tx_xtalwait"

(* Each packet that is out, in the FIFO, being prepared by the task, or to *)
(* be begun by the dequeue thread has a transmission of its own.           *)
InFifo == IF chip.tx = "queued" THEN 1 ELSE 0
Underway ==
    IF (\E op \in Loads : Has("task", op)) \/ Has("task", Do("commit")) THEN 1 ELSE
    IF Has("task", State("tx_waitdone")) THEN 0 ELSE
    IF ubRFState \in Preamble \cup {"tx_xtalwait", "tx_packet"} THEN 1 ELSE 0
ToBegin == IF Has("dequeue", State("tx_xtalwait")) THEN 1 ELSE 0
PacketsInv == aired + InFifo + Underway + ToBegin <= sends

ControlInv == StartInv /\ OffInv /\ PacketInv /\ TimerInv /\ PacketsInv

Inv == TypeInv /\ ProgInv /\ ControlInv

Counts == aired \in Nat /\ sends \in Nat

-----------------------------------------------------------------------------
(* Steps of the threads.                                                   *)

(* A thread takes its first operation. *)
LEMMA Advance ==
    ASSUME ProgInv, NEW t \in Threads, ~Idle(t), Continue(t)
    PROVE  /\ ProgInv'
           /\ \A u \in Threads \ {t} : todo'[u] = todo[u]
           /\ todo'[t] = Tail(todo[t])
           /\ Head(todo[t]) \in OpsOf(t)
           /\ Ops(todo[t]) = {Head(todo[t])} \cup Ops(todo'[t])
           /\ Head(todo[t]) \in Passing => State("rx") \in Ops(todo'[t])
           /\ Head(todo[t]) = State("tx_xtalwait") =>
                  /\ <<"timer", "on">> \in Ops(todo'[t])
                  /\ State("tx_xtalwait") \notin Ops(todo'[t])
           /\ Head(todo[t]) \in Loads => Do("transmit") \in Ops(todo'[t])
           /\ Head(todo[t]) = Do("commit") =>
                  /\ State("tx_waitdone") \in Ops(todo'[t])
                  /\ \A op \in Ops(todo'[t]) : op \notin Begun
           /\ Head(todo[t]) \in Closing => \A op \in Ops(todo'[t]) : op \notin Special
<1> DEFINE s == todo[t]
<1>1. s \in Seq(OpsOf(t)) /\ s # << >> /\ Orders(s)
  BY DEF ProgInv, Idle
<1>2. /\ todo' = [u \in Threads |-> todo'[u]]
      /\ todo'[t] = Tail(s) /\ \A u \in Threads \ {t} : todo'[u] = todo[u]
  BY DEF ProgInv, Continue
<1> HIDE DEF s
<1>3. /\ Head(s) \in OpsOf(t) /\ Tail(s) \in Seq(OpsOf(t))
      /\ Ops(s) = {Head(s)} \cup Ops(Tail(s))
  BY <1>1, TailOps
<1>4. /\ Orders(Tail(s))
      /\ Head(s) \in Passing => State("rx") \in Ops(Tail(s))
      /\ Head(s) = State("tx_xtalwait") =>
             /\ <<"timer", "on">> \in Ops(Tail(s))
             /\ State("tx_xtalwait") \notin Ops(Tail(s))
      /\ Head(s) \in Loads => Do("transmit") \in Ops(Tail(s))
      /\ Head(s) = Do("commit") =>
             /\ State("tx_waitdone") \in Ops(Tail(s))
             /\ \A op \in Ops(Tail(s)) : op \notin Begun
      /\ Head(s) \in Closing => \A op \in Ops(Tail(s)) : op \notin Special
  BY <1>1, TailOrders
<1>5. ASSUME NEW u \in Threads PROVE todo'[u] \in Seq(OpsOf(u)) /\ Orders(todo'[u])
  <2>1. CASE u = t
    BY <1>2, <1>3, <1>4, <2>1
  <2>2. CASE u # t
    BY <1>2, <2>2 DEF ProgInv
  <2> QED BY <2>1, <2>2
<1>6. ProgInv'
  BY <1>2, <1>5 DEF ProgInv
<1> QED BY <1>2, <1>3, <1>4, <1>6 DEF s

(* Only main waits, and only in the two loops of the start-up. *)
LEMMA OnlyMainWaits ==
    ASSUME ProgInv, NEW t \in Threads
    PROVE  /\ t # "main" => ~Waits(t)
           /\ Waits(t) => ubRFState \in {"wait_xtal", "pll_ranging"}
<1>1. \A x : <<"while", x>>[1] = "while" /\ <<"while", x>>[2] = x
  OBVIOUS
<1>2. \A op \in ChipOps : op[1] # "while"
  BY PartsOfOps DEF ChipNames
<1>3. \A op \in TaskOps \cup SendOps \cup RestartOps : op[1] # "while"
  BY <1>2, PartsOfOps, TimerParts DEF TaskOps, SendOps, RestartOps, Special, Loads
<1>4. \A op \in MainOps : op[1] = "while" => op[2] \in {"wait_xtal", "pll_ranging"}
  BY <1>1, <1>2, PartsOfOps DEF MainOps, RestartOps
<1>5. Waits(t) => Head(todo[t]) \in OpsOf(t)
  <2> SUFFICES ASSUME todo[t] # << >> PROVE Head(todo[t]) \in OpsOf(t)
    BY DEF Waits, Idle
  <2>1. todo[t] \in Seq(OpsOf(t))
    BY DEF ProgInv
  <2> QED BY <2>1, TailOps
<1>6. Waits(t) => Head(todo[t])[1] = "while" /\ Head(todo[t])[2] = ubRFState
  BY <1>1 DEF Waits
<1> QED BY <1>3, <1>4, <1>5, <1>6 DEF OpsOf

(* The task is not in the middle of a handler when main runs, nor, on the  *)
(* 433 radio, when the dequeue thread does.                                *)
LEMMA TaskFirst ==
    ASSUME ProgInv, NEW t \in Threads, Runs(t), taskPrio \in {8, 9},
           t = "main" \/ (t = "dequeue" /\ taskPrio = 8)
    PROVE  Idle("task") /\ Ops(todo["task"]) = {}
<1>1. "task" \in Threads /\ Prio["task"] = taskPrio /\ Prio["dequeue"] = 9 /\ Prio["main"] = 10
  BY DEF Threads, Prio
<1>2. Prio["task"] < Prio[t]
  BY <1>1
<1>3. ~Ready("task")
  BY <1>1, <1>2 DEF Runs
<1>4. Idle("task")
  BY <1>1, <1>3, OnlyMainWaits DEF Ready
<1> QED BY <1>4, EmptyProgram DEF Idle

(* The operations the invariant speaks of. *)
Markers ==
    Special \cup {State("rx"), State("tx_xtalwait"), State("xtal_ready"),
                  State("pll_ranging_done"), <<"timer", "on">>, <<"timer", "off">>}

(* The terms of PacketsInv. *)
LEMMA Terms ==
    /\ InFifo \in Int /\ InFifo' \in Int /\ Underway \in Int /\ Underway' \in Int
    /\ ToBegin \in Int /\ ToBegin' \in Int
    /\ 0 <= InFifo /\ InFifo <= 1 /\ 0 <= Underway /\ Underway <= 1
    /\ 0 <= ToBegin /\ ToBegin <= 1
    /\ InFifo' <= 1 /\ Underway' <= 1 /\ ToBegin' <= 1
<1>1. InFifo \in Int /\ 0 <= InFifo /\ InFifo <= 1 /\ InFifo' \in Int /\ InFifo' <= 1
  BY DEF InFifo
<1>2. Underway \in Int /\ 0 <= Underway /\ Underway <= 1 /\ Underway' \in Int /\ Underway' <= 1
  BY DEF Underway
<1>3. ToBegin \in Int /\ 0 <= ToBegin /\ ToBegin <= 1 /\ ToBegin' \in Int /\ ToBegin' <= 1
  BY DEF ToBegin
<1> QED BY <1>1, <1>2, <1>3

(* A step by which the sum does not grow more than the transmissions. *)
LEMMA Balance ==
    ASSUME PacketsInv, Counts, Counts',
           \/ /\ sends' = sends /\ aired' + InFifo' <= aired + InFifo
              /\ Underway' + ToBegin' <= Underway + ToBegin
           \/ /\ sends' = sends /\ aired' = aired /\ ToBegin' = ToBegin
              /\ Underway = 1 /\ Underway' = 0
           \/ /\ sends' = sends + 1 /\ aired' = aired /\ InFifo' = InFifo
              /\ Underway' = Underway /\ ToBegin = 0
    PROVE  PacketsInv'
<1>2. aired \in Int /\ aired' \in Int /\ sends \in Int /\ sends' \in Int
  BY DEF Counts
<1>3. aired + InFifo + Underway + ToBegin <= sends
  BY DEF PacketsInv
<1>4. PICK a \in Int, f \in Int, w \in Int, b \in Int, n \in Int :
          a = aired' /\ f = InFifo' /\ w = Underway' /\ b = ToBegin' /\ n = sends'
  BY <1>2, Terms
<1>5. \/ /\ n = sends /\ a + f <= aired + InFifo /\ w + b <= Underway + ToBegin
      \/ n = sends /\ a = aired /\ b = ToBegin /\ Underway = 1 /\ w = 0
      \/ n = sends + 1 /\ a = aired /\ f = InFifo /\ w = Underway /\ ToBegin = 0
  BY <1>4, Zenon
<1>6. f <= 1 /\ w <= 1 /\ b <= 1
  BY <1>4, Terms, Zenon
<1>7. /\ InFifo \in Int /\ Underway \in Int /\ ToBegin \in Int
      /\ 0 <= InFifo /\ 0 <= ToBegin
  BY Terms
<1>8. a + f + w + b <= n
  BY <1>2, <1>3, <1>5, <1>6, <1>7
<1>9. aired' + InFifo' + Underway' + ToBegin' <= sends'
  BY <1>4, <1>8, Zenon
<1> QED BY <1>9 DEF PacketsInv

(* A step that moves none of them and neither the state nor, but for its   *)
(* running out, the timer.                                                *)
LEMMA SameMarkers ==
    ASSUME ControlInv, Counts, Counts',
           \A u \in Threads : \A op \in Markers :
               op \in Ops(todo'[u]) <=> op \in Ops(todo[u]),
           Started => Started',
           ~Started => (Idle("timer") => Idle("timer")') /\ (Idle("dequeue") => Idle("dequeue")'),
           ubRFState' = ubRFState, taskPrio' = taskPrio, sends' = sends,
           sendTimer' = sendTimer \/ (Started /\ sendTimer # "off" /\ sendTimer' # "off"),
           aired' + InFifo' <= aired + InFifo
    PROVE  ControlInv'
<1>1. /\ {"task", "main", "dequeue", "timer"} \subseteq Threads
      /\ Special \subseteq Markers
      /\ {State("rx"), State("tx_xtalwait"), State("xtal_ready"), State("pll_ranging_done"),
          <<"timer", "on">>, <<"timer", "off">>} \subseteq Markers
      /\ Loads \cup {Do("transmit"), Do("commit"), State("tx_waitdone"),
          Do("leave_if_busy")} \subseteq Markers
  BY DEF Threads, Markers, Special
<1>2. \A u \in Threads : \A op \in Markers : Has(u, op)' <=> Has(u, op)
  BY DEF Has
<1>3. StartInv'
  BY <1>1, <1>2 DEF ControlInv, StartInv
<1>4. OffInv'
  BY <1>1, <1>2 DEF ControlInv, OffInv
<1>5. PacketInv'
  BY <1>1, <1>2 DEF ControlInv, PacketInv
<1>6. TimerInv'
  BY <1>1, <1>2 DEF ControlInv, TimerInv
<1>7. PacketsInv'
  <2>1. Underway' = Underway /\ ToBegin' = ToBegin
    BY <1>1, <1>2 DEF Underway, ToBegin
  <2>2. Underway' + ToBegin' <= Underway + ToBegin
    BY <2>1, Terms
  <2> QED BY <2>2, Balance DEF ControlInv
<1> QED BY <1>3, <1>4, <1>5, <1>6, <1>7 DEF ControlInv

(* main, once through, stays so, and the threads that wait for it do. *)
LEMMA StartedStays ==
    ASSUME NEW t \in Threads, ~Idle(t), \A u \in Threads \ {t} : todo'[u] = todo[u]
    PROVE  /\ Started => Started' /\ t # "main"
           /\ Idle("timer") => Idle("timer")'
           /\ Idle("dequeue") => Idle("dequeue")'
<1>1. {"task", "main", "dequeue", "timer"} \subseteq Threads
  BY DEF Threads
<1> QED BY <1>1 DEF Started, Idle

(* An access of the chip, or the end of a loop. *)
LEMMA PlainStep ==
    ASSUME ControlInv, ProgInv, Counts, Counts', NEW t \in Threads, ~Idle(t), Continue(t),
           Head(todo[t]) \in ChipOps \/ Head(todo[t])[1] = "while",
           UNCHANGED <<ubRFState, sendTimer, taskPrio, sends, aired>>,
           chip'.tx = chip.tx \/ chip'.tx = "empty"
    PROVE  ControlInv'
<1>1. Head(todo[t]) \notin Markers
  <2>1. \A op \in Special : op[1] # "while"
    BY PartsOfOps DEF Special, Loads
  <2>2. \A op \in Markers : op[1] # "while"
    BY <2>1, PartsOfOps, TimerParts DEF Markers
  <2>3. \A op \in ChipOps : op \notin Markers
    BY DifferentOps DEF Markers
  <2> QED BY <2>2, <2>3
<1>2. \A u \in Threads : \A op \in Markers : op \in Ops(todo'[u]) <=> op \in Ops(todo[u])
  BY <1>1, Advance
<1>3. /\ Started => Started'
      /\ Idle("timer") => Idle("timer")'
      /\ Idle("dequeue") => Idle("dequeue")'
  BY Advance, StartedStays
<1>4. aired' + InFifo' <= aired + InFifo
  BY DEF InFifo, Counts
<1> QED BY <1>2, <1>3, <1>4, SameMarkers

(* The state an operation sets, and the thread that does. *)
LEMMA StateOps ==
    ASSUME NEW t \in Threads, NEW op \in OpsOf(t), op[1] = "state"
    PROVE  \/ op = State("off") \/ op = State("rx")
           \/ t = "main" /\ (op = State("wait_xtal") \/ op = State("pll_ranging"))
           \/ t = "task" /\ (op = State("xtal_ready") \/ op = State("pll_ranging_done"))
           \/ t = "dequeue" /\ op = State("tx_xtalwait")
           \/ t = "task" /\ (op \in Loads \/ op = State("tx_waitdone"))
<1>1. op \notin ChipOps
  BY PartsOfOps DEF ChipNames
<1>2. \A x : <<"while", x>>[1] # "state"
  OBVIOUS
<1>3. CASE t = "timer"
  BY <1>1, <1>3 DEF OpsOf, RestartOps
<1>4. CASE t = "main"
  BY <1>1, <1>2, <1>4 DEF OpsOf, MainOps, RestartOps
<1>5. CASE t = "dequeue"
  BY <1>1, <1>5, TimerParts DEF OpsOf, SendOps
<1>6. CASE t = "task"
  <2>1. op \in TaskOps
    BY <1>6 DEF OpsOf
  <2>2. op # Do("transmit") /\ op # Do("commit") /\ op # Do("leave_if_busy")
        /\ op # <<"timer", "off">>
    BY PartsOfOps, TimerParts
  <2> QED BY <1>1, <1>6, <2>1, <2>2 DEF TaskOps, RestartOps, Special
<1> QED BY <1>3, <1>4, <1>5, <1>6 DEF Threads

(* A step of SetState. *)
LEMMA SetStateStep ==
    ASSUME Inv, Counts', NEW t \in Threads, ~Idle(t), Runs(t), SetState(t, Head(todo[t])),
           UNCHANGED <<taskPrio, sends, aired>>
    PROVE  ProgInv' /\ ControlInv' /\ ubRFState' \in DriverStates
<1> DEFINE op == Head(todo[t])
<1>0. /\ ProgInv /\ ControlInv /\ Continue(t) /\ taskPrio \in {8, 9} /\ Counts
      /\ UNCHANGED <<chip, sendTimer>> /\ ubRFState' = op[2] /\ op[1] = "state"
      /\ {"task", "main", "dequeue", "timer"} \subseteq Threads
  BY DEF Inv, TypeInv, SetState, Counts, Threads
<1>1. /\ ProgInv' /\ \A u \in Threads \ {t} : todo'[u] = todo[u]
      /\ op \in OpsOf(t)
      /\ Ops(todo[t]) = {op} \cup Ops(todo'[t])
      /\ op \in Passing => State("rx") \in Ops(todo'[t])
      /\ op = State("tx_xtalwait") =>
             /\ <<"timer", "on">> \in Ops(todo'[t])
             /\ State("tx_xtalwait") \notin Ops(todo'[t])
      /\ op \in Loads => Do("transmit") \in Ops(todo'[t])
      /\ op \in Closing => \A o \in Ops(todo'[t]) : o \notin Special
  BY <1>0, Advance
<1>2. /\ Started => Started' /\ t # "main"
      /\ Idle("timer") => Idle("timer")'
      /\ Idle("dequeue") => Idle("dequeue")'
  BY <1>1, StartedStays
<1> HIDE DEF op
<1>3. \A u \in Threads : \A o : /\ Has(u, o)' => Has(u, o)
                                /\ Has(u, o) /\ (u # t \/ o # op) => Has(u, o)'
  BY <1>1 DEF Has
<1>4. Has(t, op)
  BY <1>1 DEF Has
<1>5. t = "main" => \A o : ~Has("task", o)
  BY <1>0, TaskFirst DEF Has
<1>6. t = "dequeue" /\ taskPrio = 8 => \A o : ~Has("task", o)
  BY <1>0, TaskFirst DEF Has
<1>7. /\ t = "dequeue" => Started
      /\ t = "task" /\ op \in Special => Started
  BY <1>0, <1>4 DEF ControlInv, StartInv
<1>8. InFifo' = InFifo /\ aired' + InFifo' <= aired + InFifo
  BY <1>0, Terms DEF InFifo, Counts
<1>9. \A x : op = State(x) => ubRFState' = x
  BY <1>0, PartsOfOps
<1>10. t # "dequeue" => ToBegin' = ToBegin
  BY <1>0, <1>1 DEF ToBegin, Has
<1>11. ~Started' => /\ Idle("timer")' /\ Idle("dequeue")' /\ sendTimer' = "off"
                    /\ \A o \in Special : ~Has("task", o)'
  BY <1>0, <1>2, <1>3 DEF ControlInv, StartInv
<1>12. Has("task", State("xtal_ready"))' \/ Has("task", State("pll_ranging_done"))'
           => Has("main", State("rx"))'
  BY <1>0, <1>3, <1>5 DEF ControlInv, StartInv
<1>13. (ubRFState' \in Sending => Started') /\ (ubRFState' \in StartStates => Has("main", State("rx"))')
           => StartInv'
  BY <1>11, <1>12 DEF StartInv
<1>14. PacketsInv /\ (Underway' + ToBegin' <= Underway + ToBegin => PacketsInv')
  BY <1>0, <1>8, Balance DEF ControlInv
<1>15. /\ \A o : o # op => (Has("task", o)' <=> Has("task", o))
       /\ t # "task" => \A o : Has("task", o)' <=> Has("task", o)
  BY <1>0, <1>3
<1>16. CASE op \in {State("off"), State("rx"), State("wait_xtal"), State("pll_ranging"),
                    State("xtal_ready"), State("pll_ranging_done")}
  <2>1. ubRFState' \in {"off", "rx"} \cup StartStates
    BY <1>9, <1>16 DEF StartStates
  <2>2. ubRFState' \notin Sending \cup Preamble
    BY <2>1 DEF Sending, Preamble, StartStates
  <2>3. ubRFState' \in StartStates => Has("main", State("rx"))'
    <3>1. CASE op \in {State("wait_xtal"), State("pll_ranging")}
      <4>1. t = "main"
        BY <1>0, <1>1, <3>1, StateOps, PartsOfOps DEF Loads
      <4> QED BY <1>1, <3>1, <4>1 DEF Has, Passing
    <3>2. CASE op \in {State("xtal_ready"), State("pll_ranging_done")}
      <4>1. t = "task"
        BY <1>0, <1>1, <3>2, StateOps, PartsOfOps
      <4>2. Has("main", State("rx"))
        BY <1>0, <1>4, <3>2, <4>1 DEF ControlInv, StartInv
      <4> QED BY <1>0, <1>3, <4>1, <4>2
    <3>3. CASE op \in {State("off"), State("rx")}
      BY <1>9, <3>3 DEF StartStates
    <3> QED BY <1>16, <3>1, <3>2, <3>3
  <2>4. StartInv'
    BY <1>13, <2>2, <2>3
  <2>5. OffInv'
    <3> SUFFICES ASSUME ubRFState' = "off"
                 PROVE  Has(t, State("rx"))' /\ ~Has(t, Do("leave_if_busy"))'
      BY DEF OffInv
    <3>1. op = State("off")
      BY <1>9, <1>16, PartsOfOps
    <3> QED BY <1>1, <3>1 DEF Has, Passing, Closing, Special
  <2>6. PacketInv' /\ TimerInv'
    <3>1. ubRFState' \notin Preamble \cup {"tx_packet", "tx_xtalwait"}
      BY <2>2 DEF Sending
    <3> QED BY <3>1 DEF PacketInv, TimerInv
  <2>7. PacketsInv'
    <3>1. op \notin Special /\ op # State("tx_xtalwait")
      BY <1>16, PartsOfOps DEF Special, Loads
    <3>2. ToBegin' = ToBegin
      BY <1>0, <1>3, <3>1 DEF ToBegin
    <3>3. ubRFState' \notin Preamble \cup {"tx_xtalwait", "tx_packet"}
      BY <2>2 DEF Sending
    <3>4. Underway' = Underway \/ Underway' = 0
      BY <1>15, <3>1, <3>3 DEF Underway, Special
    <3>5. PICK w \in Int, b \in Int : w = Underway' /\ b = ToBegin'
      BY Terms
    <3>6. (w = Underway \/ w = 0) /\ b = ToBegin
      BY <3>2, <3>4, <3>5, Zenon
    <3>7. w + b <= Underway + ToBegin
      BY <3>6, Terms
    <3> QED BY <1>14, <3>5, <3>7, Zenon
  <2> QED BY <1>1, <2>1, <2>4, <2>5, <2>6, <2>7 DEF ControlInv, DriverStates
<1>17. CASE op = State("tx_xtalwait")
  <2>1. ubRFState' = "tx_xtalwait" /\ t = "dequeue"
    BY <1>0, <1>1, <1>9, <1>17, StateOps, PartsOfOps DEF Loads
  <2>2. StartInv'
    BY <1>2, <1>7, <1>13, <2>1 DEF StartStates
  <2>3. OffInv' /\ PacketInv'
    BY <2>1 DEF OffInv, PacketInv, Preamble
  <2>4. TimerInv'
    <3>1. Has("dequeue", <<"timer", "on">>)'
      BY <1>1, <1>17, <2>1 DEF Has
    <3>2. taskPrio = 8 => ~Has("task", <<"timer", "off">>)'
      BY <1>0, <1>3, <1>6, <2>1
    <3> QED BY <3>1, <3>2 DEF TimerInv
  <2>5. PacketsInv'
    <3>1. ToBegin = 1 /\ ToBegin' = 0
      BY <1>1, <1>4, <1>17, <2>1 DEF ToBegin, Has
    <3>2. PICK w \in Int, b \in Int : w = Underway' /\ b = ToBegin'
      BY Terms
    <3>3. w <= 1 /\ b = 0
      BY <3>1, <3>2, Terms, Zenon
    <3>4. w + b <= Underway + ToBegin
      BY <3>1, <3>3, Terms
    <3> QED BY <1>14, <3>2, <3>4, Zenon
  <2>6. ubRFState' \in DriverStates
    BY <2>1 DEF DriverStates, Sending
  <2> QED BY <1>1, <2>2, <2>3, <2>4, <2>5, <2>6 DEF ControlInv
<1>18. CASE op \in Loads
  <2>1. ubRFState' \in Preamble \cup {"tx_packet"} /\ t = "task" /\ op \in Special
    <3>1. ubRFState' \in Preamble \cup {"tx_packet"}
      BY <1>9, <1>18 DEF Loads, Preamble
    <3>2. op[2] \in Preamble \cup {"tx_packet"} /\ op \in Special
      BY <1>0, <1>18, <3>1 DEF Special
    <3>3. t = "task"
      BY <1>0, <1>1, <3>2, StateOps, PartsOfOps DEF Preamble
    <3> QED BY <3>1, <3>2, <3>3
  <2>2. StartInv'
    BY <1>2, <1>7, <1>13, <2>1 DEF StartStates, Preamble
  <2>3. OffInv' /\ TimerInv'
    BY <2>1 DEF OffInv, TimerInv, Preamble
  <2>4. PacketInv'
    BY <1>1, <1>18, <2>1 DEF PacketInv, Has
  <2>5. PacketsInv'
    <3>1. Underway = 1 /\ ToBegin' = ToBegin
      BY <1>4, <1>10, <1>18, <2>1 DEF Underway
    <3>2. PICK w \in Int, b \in Int : w = Underway' /\ b = ToBegin'
      BY Terms
    <3>3. w <= 1 /\ b = ToBegin
      BY <3>1, <3>2, Terms, Zenon
    <3>4. w + b <= Underway + ToBegin
      BY <3>1, <3>3, Terms
    <3> QED BY <1>14, <3>2, <3>4, Zenon
  <2>6. ubRFState' \in DriverStates
    BY <2>1 DEF DriverStates, Sending, Preamble
  <2> QED BY <1>1, <2>2, <2>3, <2>4, <2>5, <2>6 DEF ControlInv
<1>19. CASE op = State("tx_waitdone")
  <2>1. ubRFState' = "tx_waitdone" /\ t = "task" /\ op \in Special /\ op \in Closing
    BY <1>0, <1>1, <1>9, <1>19, StateOps, PartsOfOps DEF Special, Closing
  <2>2. StartInv'
    BY <1>2, <1>7, <1>13, <2>1 DEF StartStates
  <2>3. OffInv' /\ TimerInv' /\ PacketInv'
    BY <2>1 DEF OffInv, TimerInv, PacketInv, Preamble
  <2>4. PacketsInv'
    <3>1. ToBegin' = ToBegin
      BY <1>10, <2>1
    <3>2. \A o \in Special : ~Has("task", o)'
      BY <1>1, <2>1 DEF Has
    <3>3. Underway' = 0
      BY <2>1, <3>2 DEF Underway, Special, Preamble
    <3>4. PICK w \in Int, b \in Int : w = Underway' /\ b = ToBegin'
      BY Terms
    <3>5. w = 0 /\ b = ToBegin
      BY <3>1, <3>3, <3>4
    <3>6. w + b <= Underway + ToBegin
      BY <3>5, Terms
    <3> QED BY <1>14, <3>4, <3>6, Zenon
  <2>5. ubRFState' \in DriverStates
    BY <2>1 DEF DriverStates, Sending
  <2> QED BY <1>1, <2>2, <2>3, <2>4, <2>5 DEF ControlInv
<1> QED BY <1>0, <1>1, <1>16, <1>17, <1>18, <1>19, StateOps

(* Which thread has which of the other operations. *)
LEMMA OtherOps ==
    ASSUME NEW t \in Threads, NEW op \in OpsOf(t)
    PROVE  /\ op[1] \in {"transmit", "commit", "leave_if_busy"} => t = "task" /\ op = Do(op[1])
           /\ op[1] = "timer" => \/ t = "dequeue" /\ op = <<"timer", "on">>
                                 \/ t = "task" /\ op = <<"timer", "off">>
           /\ op[1] \in ChipNames => op \in ChipOps
<1>1. \A x : <<"while", x>>[1] = "while"
  OBVIOUS
<1>2. op \in ChipOps => op[1] \notin {"transmit", "commit", "leave_if_busy", "timer"}
  BY PartsOfOps DEF ChipNames
<1>3. \A o \in RestartOps : o \in ChipOps \/ o[1] = "state"
  BY PartsOfOps DEF RestartOps
<1>4. CASE t = "timer"
  BY <1>2, <1>3, <1>4 DEF OpsOf, ChipNames
<1>5. CASE t = "main"
  <2>1. op \in RestartOps \/ op[1] = "state" \/ op[1] = "while"
    BY <1>1, <1>5, PartsOfOps DEF OpsOf, MainOps
  <2> QED BY <1>2, <1>3, <2>1 DEF ChipNames
<1>6. CASE t = "dequeue"
  <2>1. op \in ChipOps \/ op[1] = "state" \/ op = <<"timer", "on">>
    BY <1>6, PartsOfOps DEF OpsOf, SendOps
  <2> QED BY <1>2, <1>6, <2>1, TimerParts DEF ChipNames
<1>7. CASE t = "task"
  <2>1. \/ op \in RestartOps \/ op[1] = "state" \/ op = <<"timer", "off">>
        \/ op = Do("transmit") \/ op = Do("commit") \/ op = Do("leave_if_busy")
    BY <1>7, PartsOfOps DEF OpsOf, TaskOps, Special, Loads
  <2> QED BY <1>2, <1>3, <1>7, <2>1, TimerParts, PartsOfOps DEF ChipNames
<1> QED BY <1>4, <1>5, <1>6, <1>7 DEF Threads

(* A step of SetTimer. *)
LEMMA SetTimerStep ==
    ASSUME Inv, Counts', NEW t \in Threads, ~Idle(t), SetTimer(t, Head(todo[t])),
           UNCHANGED <<taskPrio, sends, aired>>
    PROVE  ProgInv' /\ ControlInv' /\ sendTimer' \in {"off", "on", "due"}
<1> DEFINE op == Head(todo[t])
<1>0. /\ ProgInv /\ ControlInv /\ Continue(t) /\ Counts
      /\ UNCHANGED <<chip, ubRFState>> /\ sendTimer' = op[2] /\ op[1] = "timer"
      /\ {"task", "main", "dequeue", "timer"} \subseteq Threads
  BY DEF Inv, TypeInv, SetTimer, Counts, Threads
<1>1. /\ ProgInv' /\ \A u \in Threads \ {t} : todo'[u] = todo[u]
      /\ op \in OpsOf(t)
      /\ Ops(todo[t]) = {op} \cup Ops(todo'[t])
  BY <1>0, Advance
<1>2. /\ Started => Started' /\ t # "main"
      /\ Idle("timer") => Idle("timer")'
      /\ Idle("dequeue") => Idle("dequeue")'
  BY <1>1, StartedStays
<1> HIDE DEF op
<1>3. \A u \in Threads : \A o : /\ Has(u, o)' => Has(u, o)
                                /\ Has(u, o) /\ (u # t \/ o # op) => Has(u, o)'
  BY <1>1 DEF Has
<1>4. Has(t, op)
  BY <1>1 DEF Has
<1>5. \/ t = "dequeue" /\ op = <<"timer", "on">> /\ sendTimer' = "on" /\ Started
      \/ t = "task" /\ op = <<"timer", "off">> /\ sendTimer' = "off"
  <2>1. \/ t = "dequeue" /\ op = <<"timer", "on">>
        \/ t = "task" /\ op = <<"timer", "off">>
    BY <1>0, <1>1, OtherOps
  <2>2. <<"timer", "on">>[2] = "on" /\ <<"timer", "off">>[2] = "off"
    OBVIOUS
  <2>3. t = "dequeue" => Started
    BY <1>0 DEF ControlInv, StartInv
  <2> QED BY <1>0, <2>1, <2>2, <2>3
<1>6. \A x : State(x) # op
  BY <1>5, PartsOfOps, TimerParts
<1>7. \A x : x # "timer" => Do(x) # op
  BY <1>5, PartsOfOps, TimerParts
<1>8. \A u \in Threads : /\ \A x : Has(u, State(x))' <=> Has(u, State(x))
                         /\ \A x : x # "timer" => (Has(u, Do(x))' <=> Has(u, Do(x)))
  BY <1>3, <1>6, <1>7
<1>9. StartInv'
  <2>1. ~Started' => /\ Idle("timer")' /\ Idle("dequeue")' /\ sendTimer' = "off"
                     /\ ubRFState' \notin Sending
                     /\ \A o \in Special : ~Has("task", o)'
    BY <1>0, <1>2, <1>3, <1>5 DEF ControlInv, StartInv
  <2>2. \/ ubRFState' \in StartStates
        \/ Has("task", State("xtal_ready"))' \/ Has("task", State("pll_ranging_done"))'
        => Has("main", State("rx"))'
    BY <1>0, <1>8 DEF ControlInv, StartInv
  <2> QED BY <2>1, <2>2 DEF StartInv
<1>10. OffInv'
  BY <1>0, <1>8 DEF ControlInv, OffInv
<1>11. PacketInv'
  BY <1>0, <1>8 DEF ControlInv, PacketInv
<1>12. TimerInv'
  <2>1. CASE sendTimer' = "on"
    BY <1>0, <1>3, <2>1 DEF ControlInv, TimerInv
  <2>2. CASE t = "task" /\ op = <<"timer", "off">>
    <3>1. taskPrio = 8 => ubRFState # "tx_xtalwait"
      BY <1>0, <1>4, <2>2 DEF ControlInv, TimerInv
    <3> QED BY <1>0, <3>1 DEF TimerInv
  <2> QED BY <1>5, <2>1, <2>2
<1>13. PacketsInv'
  <2>1. Underway' = Underway /\ ToBegin' = ToBegin
    BY <1>0, <1>8 DEF Underway, ToBegin, Loads
  <2>2. Underway' + ToBegin' <= Underway + ToBegin
    BY <2>1, Terms
  <2>3. InFifo' = InFifo /\ aired' + InFifo' <= aired + InFifo
    BY <1>0, Terms DEF InFifo, Counts
  <2> QED BY <1>0, <2>2, <2>3, Balance DEF ControlInv
<1>14. sendTimer' \in {"off", "on", "due"}
  BY <1>5
<1> QED BY <1>1, <1>9, <1>10, <1>11, <1>12, <1>13, <1>14 DEF ControlInv

(* The task takes an operation of the transmission, or returns early. *)
LEMMA TaskOnly ==
    ASSUME ProgInv, ControlInv, NEW t \in Threads, ~Idle(t),
           Head(todo[t])[1] \in {"transmit", "commit", "leave_if_busy"}
    PROVE  /\ t = "task" /\ Started
           /\ Head(todo[t]) = Do(Head(todo[t])[1]) /\ Head(todo[t]) \in Special
           /\ Has("task", Head(todo[t]))
           /\ Head(todo[t])[1] # "commit" =>
                  /\ \A op \in Ops(Tail(todo[t])) : op \notin Special
                  /\ \A op \in Special : Has("task", op) => op = Head(todo[t])
<1> DEFINE op == Head(todo[t])
<1>1. todo[t] \in Seq(OpsOf(t)) /\ todo[t] # << >> /\ Orders(todo[t])
  BY DEF ProgInv, Idle
<1>2. op \in OpsOf(t) /\ Ops(todo[t]) = {op} \cup Ops(Tail(todo[t]))
  BY <1>1, TailOps
<1>3. op \in Closing => \A o \in Ops(Tail(todo[t])) : o \notin Special
  BY <1>1, TailOrders
<1> HIDE DEF op
<1>4. t = "task" /\ op = Do(op[1])
  BY <1>2, OtherOps DEF op
<1>5. op \in Special /\ Has("task", op)
  BY <1>2, <1>4 DEF op, Special, Has
<1>6. op[1] # "commit" => op \in Closing
  BY <1>4 DEF op, Closing
<1>7. Started
  BY <1>5 DEF ControlInv, StartInv
<1> QED BY <1>2, <1>3, <1>4, <1>5, <1>6, <1>7 DEF op, Has

(* The task alone moves, after the start-up, and the timer stays. *)
LEMMA TaskMoves ==
    ASSUME ControlInv, Counts, Counts', Started,
           \A u \in Threads \ {"task"} : todo'[u] = todo[u],
           UNCHANGED <<taskPrio, sendTimer, sends, aired>>,
           ubRFState' = ubRFState \/ ubRFState' \in Preamble \cup {"tx_packet"},
           Has("task", State("xtal_ready"))' => Has("task", State("xtal_ready")),
           Has("task", State("pll_ranging_done"))' => Has("task", State("pll_ranging_done")),
           Has("task", <<"timer", "off">>)' => Has("task", <<"timer", "off">>),
           ubRFState' = "off" /\ Has("task", State("rx")) /\ ~Has("task", Do("leave_if_busy"))
               => Has("task", State("rx"))' /\ ~Has("task", Do("leave_if_busy"))',
           PacketInv',
           \/ InFifo' <= InFifo /\ Underway' <= Underway
           \/ Underway = 1 /\ Underway' = 0
    PROVE  ControlInv'
<1>1. {"task", "main", "dequeue", "timer"} \subseteq Threads
  BY DEF Threads
<1>2. /\ \A o : Has("main", o)' <=> Has("main", o)
      /\ \A o : Has("dequeue", o)' <=> Has("dequeue", o)
      /\ \A o : Has("timer", o)' <=> Has("timer", o)
      /\ Started'
  BY <1>1 DEF Has, Started, Idle
<1>3. StartInv'
  <2>1. ubRFState' \in StartStates => ubRFState \in StartStates
    BY DEF StartStates, Preamble
  <2> QED BY <1>2, <2>1 DEF ControlInv, StartInv
<1>4. OffInv'
  <2> SUFFICES ASSUME ubRFState' = "off"
               PROVE  \E u \in Threads : Has(u, State("rx"))' /\ ~Has(u, Do("leave_if_busy"))'
    BY DEF OffInv
  <2>1. ubRFState = "off"
    BY DEF Preamble
  <2>2. PICK u \in Threads : Has(u, State("rx")) /\ ~Has(u, Do("leave_if_busy"))
    BY <2>1 DEF ControlInv, OffInv
  <2>3. CASE u = "task"
    BY <1>1, <2>2, <2>3
  <2>4. CASE u # "task"
    BY <2>2, <2>4 DEF Has
  <2> QED BY <2>3, <2>4
<1>5. TimerInv'
  <2>1. ubRFState' = "tx_xtalwait" => ubRFState = "tx_xtalwait"
    BY DEF Preamble
  <2> QED BY <1>2, <2>1 DEF ControlInv, TimerInv
<1>6. PacketsInv'
  <2>1. ToBegin' = ToBegin
    BY <1>2 DEF ToBegin
  <2>2. CASE InFifo' <= InFifo /\ Underway' <= Underway
    <3>1. PICK a \in Int, f \in Int, w \in Int, b \in Int :
              a = aired' /\ f = InFifo' /\ w = Underway' /\ b = ToBegin'
      BY Terms DEF Counts
    <3>2. f <= InFifo /\ w <= Underway /\ a = aired /\ b = ToBegin
      BY <2>1, <2>2, <3>1, Zenon
    <3>3. a + f <= aired + InFifo /\ w + b <= Underway + ToBegin
      BY <3>2, Terms DEF Counts
    <3>4. aired' + InFifo' <= aired + InFifo /\ Underway' + ToBegin' <= Underway + ToBegin
      BY <3>1, <3>3, Zenon
    <3> QED BY <3>4, Balance DEF ControlInv
  <2>3. CASE Underway = 1 /\ Underway' = 0
    BY <2>1, <2>3, Balance DEF ControlInv
  <2> QED BY <2>2, <2>3
<1> QED BY <1>3, <1>4, <1>5, <1>6 DEF ControlInv

(* A step of Transmit. *)
LEMMA TransmitStep ==
    ASSUME Inv, Counts', NEW t \in Threads, ~Idle(t), Transmit(t, Head(todo[t])),
           UNCHANGED <<taskPrio, sends, aired>>
    PROVE  ProgInv' /\ ControlInv' /\ ubRFState' \in DriverStates
<1> DEFINE op == Head(todo[t])
<1>0. /\ ProgInv /\ ControlInv /\ Counts /\ op[1] = "transmit"
      /\ UNCHANGED <<chip, ubRFState, sendTimer>> /\ ubRFState \in DriverStates
      /\ "task" \in Threads
  BY DEF Inv, TypeInv, Transmit, Counts, Threads
<1>1. /\ t = "task" /\ Started /\ op = Do("transmit") /\ Has("task", op)
      /\ \A o \in Ops(Tail(todo[t])) : o \notin Special
      /\ \A o \in Special : Has("task", o) => o = op
  BY <1>0, TaskOnly
<1>2. InFifo' = InFifo /\ InFifo' <= InFifo
  BY <1>0, Terms DEF InFifo
<1>3. /\ ~(\E o \in Loads : Has("task", o)) /\ ~Has("task", Do("commit"))
      /\ ~Has("task", State("tx_waitdone")) /\ ~Has("task", Do("leave_if_busy"))
  BY <1>1, PartsOfOps DEF Special, Loads
<1>4. CASE /\ ubRFState \in Preamble /\ FifoOn(chip)
           /\ todo' = [todo EXCEPT ![t] = <<State(AfterPreamble(ubRFState))>> \o @]
  <2> DEFINE x == State(AfterPreamble(ubRFState))
  <2> DEFINE p == <<x>> \o todo["task"]
  <2>1. /\ todo["task"] \in Seq(TaskOps) /\ Orders(todo["task"])
        /\ x \in Loads /\ Do("transmit") \in Ops(todo["task"])
        /\ Do("commit") \notin Ops(todo["task"])
    BY <1>0, <1>1, <1>3 DEF ProgInv, OpsOf, AfterPreamble, Loads, Has
  <2>2. /\ todo' = [u \in Threads |-> todo'[u]]
        /\ todo'["task"] = p /\ \A u \in Threads \ {"task"} : todo'[u] = todo[u]
    BY <1>0, <1>1, <1>4 DEF ProgInv
  <2> HIDE DEF p, x
  <2>3. /\ p \in Seq(TaskOps) /\ Orders(p) /\ Ops(p) = {x} \cup Ops(todo["task"])
    BY <2>1, LoadProgram DEF p
  <2>4. ProgInv'
    <3>1. ASSUME NEW u \in Threads PROVE todo'[u] \in Seq(OpsOf(u)) /\ Orders(todo'[u])
      <4>1. CASE u = "task"
        BY <2>2, <2>3, <4>1 DEF OpsOf
      <4>2. CASE u # "task"
        BY <1>0, <2>2, <4>2 DEF ProgInv
      <4> QED BY <4>1, <4>2
    <3> QED BY <2>2, <3>1 DEF ProgInv
  <2>5. \A o : Has("task", o)' <=> o = x \/ Has("task", o)
    BY <2>2, <2>3 DEF Has
  <2>6. x \notin {State("xtal_ready"), State("pll_ranging_done"), <<"timer", "off">>}
    BY <2>1, PartsOfOps, TimerParts DEF Loads
  <2>7. PacketInv'
    BY <1>0, <1>1, <2>5 DEF PacketInv
  <2>8. Underway = 1
    BY <1>3, <1>4 DEF Underway
  <2>9. Underway' <= Underway
    BY <2>8, Terms
  <2>10. ubRFState' # "off" /\ UNCHANGED ubRFState
    BY <1>0, <1>4 DEF Preamble
  <2>11. ControlInv'
    BY <1>0, <1>1, <1>2, <2>2, <2>5, <2>6, <2>7, <2>9, <2>10, TaskMoves
  <2> QED BY <1>0, <2>4, <2>10, <2>11
<1>5. CASE /\ ubRFState = "tx_packet" \/ (ubRFState \in Preamble /\ ~FifoOn(chip))
           /\ todo' = [todo EXCEPT ![t] = PktEnd \o Tail(@)]
  <2>1. /\ Tail(todo["task"]) \in Seq(TaskOps) /\ Orders(Tail(todo["task"]))
        /\ Ops(todo["task"]) = {op} \cup Ops(Tail(todo["task"]))
    <3>1. todo["task"] \in Seq(TaskOps) /\ todo["task"] # << >> /\ Orders(todo["task"])
      BY <1>0, <1>1 DEF ProgInv, OpsOf, Idle
    <3> QED BY <1>1, <3>1, TailOps, TailOrders
  <2> DEFINE p == PktEnd \o Tail(todo["task"])
  <2>2. /\ todo' = [u \in Threads |-> todo'[u]]
        /\ todo'["task"] = p /\ \A u \in Threads \ {"task"} : todo'[u] = todo[u]
    BY <1>0, <1>1, <1>5 DEF ProgInv
  <2> HIDE DEF p
  <2>3. /\ p \in Seq(TaskOps) /\ Orders(p)
        /\ Do("commit") \in Ops(p) /\ State("tx_waitdone") \in Ops(p)
        /\ \A o \in Ops(p) : \/ o \in Ops(Tail(todo["task"])) \cup ChipOps
                             \/ o = Do("commit") \/ o = State("tx_waitdone")
    BY <1>1, <2>1, PktEndProgram DEF p
  <2>4. ProgInv'
    <3>1. ASSUME NEW u \in Threads PROVE todo'[u] \in Seq(OpsOf(u)) /\ Orders(todo'[u])
      <4>1. CASE u = "task"
        BY <2>2, <2>3, <4>1 DEF OpsOf
      <4>2. CASE u # "task"
        BY <1>0, <2>2, <4>2 DEF ProgInv
      <4> QED BY <4>1, <4>2
    <3> QED BY <2>2, <3>1 DEF ProgInv
  <2>5. /\ Has("task", State("xtal_ready"))' => Has("task", State("xtal_ready"))
        /\ Has("task", State("pll_ranging_done"))' => Has("task", State("pll_ranging_done"))
        /\ Has("task", <<"timer", "off">>)' => Has("task", <<"timer", "off">>)
    <3>1. \A x \in {State("xtal_ready"), State("pll_ranging_done"), <<"timer", "off">>} :
              x \notin ChipOps /\ x # Do("commit") /\ x # State("tx_waitdone")
      BY DifferentOps, PartsOfOps, TimerParts
    <3> QED BY <2>1, <2>2, <2>3, <3>1 DEF Has
  <2>6. PacketInv'
    BY <2>2, <2>3 DEF PacketInv, Has
  <2>7. Underway = 1
    BY <1>3, <1>5 DEF Underway
  <2>8. Underway' <= Underway
    BY <2>7, Terms
  <2>9. ubRFState' # "off"
    BY <1>0, <1>5 DEF Preamble
  <2>10. ControlInv'
    BY <1>0, <1>1, <1>2, <1>5, <2>2, <2>5, <2>6, <2>8, <2>9, TaskMoves
  <2> QED BY <1>0, <1>5, <2>4, <2>10
<1>6. CASE /\ ubRFState \notin Preamble \cup {"tx_packet"}
           /\ Continue(t)
  <2>1. /\ ProgInv' /\ \A u \in Threads \ {"task"} : todo'[u] = todo[u]
        /\ Ops(todo["task"]) = {op} \cup Ops(todo'["task"])
    BY <1>0, <1>1, <1>6, Advance
  <2>2. /\ \A o : Has("task", o)' => Has("task", o)
        /\ \A o : o # op /\ Has("task", o) => Has("task", o)'
    BY <2>1 DEF Has
  <2>3. State("rx") # op
    BY <1>1, PartsOfOps
  <2>4. PacketInv'
    BY <1>0, <1>6 DEF PacketInv
  <2>5. Underway' = Underway
    BY <1>0, <1>3, <1>6, <2>2 DEF Underway
  <2>6. Underway' <= Underway
    BY <2>5, Terms
  <2>7. ControlInv'
    BY <1>0, <1>1, <1>2, <1>6, <2>1, <2>2, <2>3, <2>4, <2>6, TaskMoves
  <2> QED BY <1>0, <1>6, <2>1, <2>7
<1> QED BY <1>4, <1>5, <1>6 DEF Transmit

(* A step of Commit. *)
LEMMA CommitStep ==
    ASSUME Inv, Counts', NEW t \in Threads, ~Idle(t), Commit(t, Head(todo[t])),
           UNCHANGED <<taskPrio, sends, aired>>
    PROVE  ProgInv' /\ ControlInv'
<1> DEFINE op == Head(todo[t])
<1>0. /\ ProgInv /\ ControlInv /\ Counts /\ op[1] = "commit" /\ Continue(t)
      /\ UNCHANGED <<ubRFState, sendTimer>> /\ "task" \in Threads
  BY DEF Inv, TypeInv, Commit, Counts, Threads
<1>1. t = "task" /\ Started /\ op = Do("commit") /\ Has("task", op)
  BY <1>0, TaskOnly
<1>2. /\ ProgInv' /\ \A u \in Threads \ {"task"} : todo'[u] = todo[u]
      /\ Ops(todo["task"]) = {op} \cup Ops(todo'["task"])
      /\ State("tx_waitdone") \in Ops(todo'["task"])
      /\ \A o \in Ops(todo'["task"]) : o \notin Begun
  BY <1>0, <1>1, Advance
<1>3. /\ \A o : Has("task", o)' => Has("task", o)
      /\ \A o : o # op /\ Has("task", o) => Has("task", o)'
  BY <1>2 DEF Has
<1>4. State("rx") # op
  BY <1>1, PartsOfOps
<1>5. PacketInv'
  BY <1>2 DEF PacketInv, Has
<1>6. Underway = 1
  BY <1>1 DEF Underway
<1>7. Underway' = 0
  BY <1>2 DEF Underway, Begun, Has
<1>8. ControlInv'
  BY <1>0, <1>1, <1>2, <1>3, <1>4, <1>5, <1>6, <1>7, TaskMoves
<1> QED BY <1>2, <1>8

(* A step of LeaveIfBusy. *)
LEMMA LeaveStep ==
    ASSUME Inv, Counts', NEW t \in Threads, ~Idle(t), LeaveIfBusy(t, Head(todo[t])),
           UNCHANGED <<taskPrio, sends, aired>>
    PROVE  ProgInv' /\ ControlInv'
<1> DEFINE op == Head(todo[t])
<1>0. /\ ProgInv /\ ControlInv /\ Counts /\ op[1] = "leave_if_busy"
      /\ UNCHANGED <<chip, ubRFState, sendTimer>> /\ "task" \in Threads
      /\ Continue(t) \/ todo' = [todo EXCEPT ![t] = << >>]
  BY DEF Inv, TypeInv, LeaveIfBusy, Counts, Threads
<1>1. /\ t = "task" /\ Started /\ op = Do("leave_if_busy") /\ Has("task", op)
      /\ \A o \in Special : Has("task", o) => o = op
  BY <1>0, TaskOnly
<1>2. /\ ProgInv' /\ \A u \in Threads \ {"task"} : todo'[u] = todo[u]
      /\ \A o : Has("task", o)' => Has("task", o)
  <2>1. CASE Continue(t)
    BY <1>0, <1>1, <2>1, Advance DEF Has
  <2>2. CASE todo' = [todo EXCEPT ![t] = << >>]
    <3>1. /\ todo' = [u \in Threads |-> todo'[u]]
          /\ todo'["task"] = << >> /\ \A u \in Threads \ {"task"} : todo'[u] = todo[u]
      BY <1>0, <1>1, <2>2 DEF ProgInv
    <3>2. << >> \in Seq(OpsOf("task")) /\ Orders(<< >>) /\ Ops(<< >>) = {}
      BY EmptyProgram
    <3>3. ASSUME NEW u \in Threads PROVE todo'[u] \in Seq(OpsOf(u)) /\ Orders(todo'[u])
      <4>1. CASE u = "task"
        BY <3>1, <3>2, <4>1
      <4>2. CASE u # "task"
        BY <1>0, <3>1, <4>2 DEF ProgInv
      <4> QED BY <4>1, <4>2
    <3>4. ProgInv'
      BY <3>1, <3>3 DEF ProgInv
    <3>5. \A o : ~Has("task", o)'
      BY <3>1, <3>2 DEF Has
    <3> QED BY <3>1, <3>4, <3>5
  <2> QED BY <1>0, <2>1, <2>2
<1>3. /\ ~(\E o \in Loads : Has("task", o)) /\ ~Has("task", Do("commit"))
      /\ ~Has("task", State("tx_waitdone")) /\ ~Has("task", Do("transmit"))
  BY <1>1, PartsOfOps DEF Special, Loads
<1>4. PacketInv'
  BY <1>0, <1>3 DEF ControlInv, PacketInv
<1>5. Underway' = Underway
  BY <1>0, <1>2, <1>3 DEF Underway
<1>6. InFifo' <= InFifo /\ Underway' <= Underway
  <2>1. InFifo' = InFifo
    BY <1>0 DEF InFifo
  <2> QED BY <1>5, <2>1, Terms
<1>7. ControlInv'
  BY <1>0, <1>1, <1>2, <1>4, <1>6, TaskMoves
<1> QED BY <1>2, <1>7

-----------------------------------------------------------------------------
(* The chip.                                                               *)

(* What is written into which register. *)
LEMMA RegisterOps ==
    ASSUME NEW op \in ChipOps
    PROVE  \/ op[1] = "mask0" /\ op[2] \in {"none", "rx", "free", "radio"}
           \/ op[1] = "mask1" /\ op[2] \in {"none", "xtal", "pll"}
           \/ op[1] = "pwr" /\ op[2] \in {"down", "xtal", "fifo", "rx", "tx"}
           \/ op[1] = "revmask" /\ op[2] \in {"none", "rx", "done"}
           \/ op[1] = "regs" /\ op[2] \in {"init", "rx", "tx"}
           \/ op[1] = "rng" /\ op[2] = "busy"
           \/ op[1] = "done" /\ op[2] = FALSE
           \/ op[1] \in {"reset", "kick", "clear", "drain"}
<1>1. \A x, v : Set(x, v)[1] = x /\ Set(x, v)[2] = v
  BY DEF Set
<1>2. CASE \E v \in {"none", "rx", "free", "radio"} : op = Set("mask0", v)
  BY <1>1, <1>2
<1>3. CASE \E v \in {"none", "xtal", "pll"} : op = Set("mask1", v)
  BY <1>1, <1>3
<1>4. CASE \E v \in {"down", "xtal", "fifo", "rx", "tx"} : op = Set("pwr", v)
  BY <1>1, <1>4
<1>5. CASE \E v \in {"none", "rx", "done"} : op = Set("revmask", v)
  BY <1>1, <1>5
<1>6. CASE \E v \in {"init", "rx", "tx"} : op = Set("regs", v)
  BY <1>1, <1>6
<1>7. CASE op = Set("rng", "busy") \/ op = Set("done", FALSE)
  <2>1. CASE op = Set("rng", "busy")
    BY <2>1 DEF Set
  <2>2. CASE op = Set("done", FALSE)
    BY <2>2 DEF Set
  <2> QED BY <1>7, <2>1, <2>2
<1>8. CASE \E x \in {"reset", "kick", "clear", "drain"} : op = Do(x)
  BY <1>8, PartsOfOps
<1> QED BY <1>2, <1>3, <1>4, <1>5, <1>6, <1>7, <1>8 DEF ChipOps

(* A register is written: the FIFO keeps its packet or loses it. *)
LEMMA WriteType ==
    ASSUME NEW c \in Chips, NEW op \in ChipOps, op[1] \in DOMAIN c
    PROVE  /\ Write(c, op[1], op[2]) \in Chips
           /\ Write(c, op[1], op[2]).tx = c.tx \/ Write(c, op[1], op[2]).tx = "empty"
<1> DEFINE d == [c EXCEPT ![op[1]] = op[2]]
<1>1. op[1] \notin {"reset", "kick", "clear", "drain"}
  BY DEF Chips
<1>2. d \in Chips /\ d.tx = c.tx
  <2>1. CASE op[1] = "mask0" /\ op[2] \in {"none", "rx", "free", "radio"}
    BY <2>1 DEF Chips
  <2>2. CASE op[1] = "mask1" /\ op[2] \in {"none", "xtal", "pll"}
    BY <2>2 DEF Chips
  <2>3. CASE op[1] = "pwr" /\ op[2] \in {"down", "xtal", "fifo", "rx", "tx"}
    BY <2>3 DEF Chips
  <2>4. CASE op[1] = "revmask" /\ op[2] \in {"none", "rx", "done"}
    BY <2>4 DEF Chips
  <2>5. CASE op[1] = "regs" /\ op[2] \in {"init", "rx", "tx"}
    BY <2>5 DEF Chips
  <2>6. CASE op[1] = "rng" /\ op[2] = "busy"
    BY <2>6 DEF Chips
  <2>7. CASE op[1] = "done" /\ op[2] = FALSE
    BY <2>7 DEF Chips
  <2> QED BY <1>1, <2>1, <2>2, <2>3, <2>4, <2>5, <2>6, <2>7, RegisterOps
<1> HIDE DEF d
<1>3. Write(c, op[1], op[2]) = [d EXCEPT !.xtal = @ /\ d.pwr # "down",
                                         !.rx = @ /\ FifoOn(d),
                                         !.tx = IF FifoOn(d) THEN @ ELSE "empty"]
  BY DEF Write, d
<1>4. PICK x \in BOOLEAN, r \in BOOLEAN, f \in {d.tx, "empty"} :
          /\ x = (d.xtal /\ d.pwr # "down") /\ r = (d.rx /\ FifoOn(d))
          /\ f = IF FifoOn(d) THEN d.tx ELSE "empty"
  OBVIOUS
<1>5. Write(c, op[1], op[2]) = [d EXCEPT !.xtal = x, !.rx = r, !.tx = f]
  BY <1>2, <1>3, <1>4
<1>6. [d EXCEPT !.xtal = x, !.rx = r, !.tx = f] \in Chips
  <2>1. f \in {"empty", "queued", "sent"}
    BY <1>2, <1>4 DEF Chips
  <2>2. [d EXCEPT !.tx = f] \in Chips
    BY <1>2, <2>1 DEF Chips
  <2>a. ASSUME NEW e \in Chips
        PROVE  /\ [e EXCEPT !.xtal = TRUE] \in Chips /\ [e EXCEPT !.xtal = FALSE] \in Chips
               /\ [e EXCEPT !.rx = TRUE] \in Chips /\ [e EXCEPT !.rx = FALSE] \in Chips
    BY DEF Chips
  <2>b. (x = TRUE \/ x = FALSE) /\ (r = TRUE \/ r = FALSE)
    BY <1>4, Zenon
  <2>3. [[d EXCEPT !.tx = f] EXCEPT !.xtal = x] \in Chips
    BY <2>a, <2>b, <2>2, Zenon
  <2>4. [[[d EXCEPT !.tx = f] EXCEPT !.xtal = x] EXCEPT !.rx = r] \in Chips
    BY <2>a, <2>b, <2>3, Zenon
  <2>5. [d EXCEPT !.xtal = x, !.rx = r, !.tx = f]
            = [[[d EXCEPT !.tx = f] EXCEPT !.xtal = x] EXCEPT !.rx = r]
    BY <1>2 DEF Chips
  <2> QED BY <2>4, <2>5
<1>7. [d EXCEPT !.xtal = x, !.rx = r, !.tx = f].tx = f
  BY <1>2 DEF Chips
<1> QED BY <1>2, <1>5, <1>6, <1>7

(* The other accesses, and what the chip does by itself. *)
LEMMA ChipTypes ==
    ASSUME NEW c \in Chips
    PROVE  /\ ChipAfterReset \in Chips /\ ChipAfterReset.tx = "empty"
           /\ [c EXCEPT !.rx = FALSE, !.tx = "empty"] \in Chips
           /\ [c EXCEPT !.rx = FALSE,
                        !.mask0 = IF c.rx /\ @ = "rx" THEN "none" ELSE @] \in Chips
           /\ [c EXCEPT !.tx = IF FifoOn(c) THEN "queued" ELSE @] \in Chips
           /\ [c EXCEPT !.xtal = TRUE] \in Chips
           /\ [c EXCEPT !.rng = "done"] \in Chips
           /\ [c EXCEPT !.rx = TRUE, !.done = TRUE] \in Chips
           /\ [c EXCEPT !.tx = "sent", !.done = TRUE] \in Chips
           /\ [c EXCEPT !.hung = TRUE] \in Chips
<1>1. ChipAfterReset \in Chips /\ ChipAfterReset.tx = "empty"
  BY DEF Chips, ChipAfterReset
<1>a. ASSUME NEW e \in Chips
      PROVE  /\ [e EXCEPT !.tx = "empty"] \in Chips /\ [e EXCEPT !.mask0 = "none"] \in Chips
             /\ [e EXCEPT !.done = TRUE] \in Chips /\ [e EXCEPT !.rx = FALSE] \in Chips
  <2>1. [e EXCEPT !.tx = "empty"] \in Chips
    BY DEF Chips
  <2>2. [e EXCEPT !.mask0 = "none"] \in Chips
    BY DEF Chips
  <2>3. [e EXCEPT !.done = TRUE] \in Chips
    BY DEF Chips
  <2>4. [e EXCEPT !.rx = FALSE] \in Chips
    BY DEF Chips
  <2> QED BY <2>1, <2>2, <2>3, <2>4
<1>2. [c EXCEPT !.rx = FALSE, !.tx = "empty"] \in Chips
  <2>1. [[c EXCEPT !.rx = FALSE] EXCEPT !.tx = "empty"] \in Chips
    BY <1>a
  <2>2. [c EXCEPT !.rx = FALSE, !.tx = "empty"] = [[c EXCEPT !.rx = FALSE] EXCEPT !.tx = "empty"]
    BY DEF Chips
  <2> QED BY <2>1, <2>2
<1>3. [c EXCEPT !.rx = FALSE,
                !.mask0 = IF c.rx /\ @ = "rx" THEN "none" ELSE @] \in Chips
  <2>1. CASE c.rx /\ c.mask0 = "rx"
    <3>1. [[c EXCEPT !.rx = FALSE] EXCEPT !.mask0 = "none"] \in Chips
      BY <1>a
    <3>2. [c EXCEPT !.rx = FALSE, !.mask0 = IF c.rx /\ @ = "rx" THEN "none" ELSE @]
              = [[c EXCEPT !.rx = FALSE] EXCEPT !.mask0 = "none"]
      BY <2>1 DEF Chips
    <3> QED BY <3>1, <3>2
  <2>2. CASE ~(c.rx /\ c.mask0 = "rx")
    <3>1. [c EXCEPT !.rx = FALSE, !.mask0 = IF c.rx /\ @ = "rx" THEN "none" ELSE @]
              = [c EXCEPT !.rx = FALSE]
      BY <2>2 DEF Chips
    <3> QED BY <1>a, <3>1
  <2> QED BY <2>1, <2>2
<1>4. [c EXCEPT !.tx = IF FifoOn(c) THEN "queued" ELSE @] \in Chips
  BY DEF Chips
<1>5. [c EXCEPT !.xtal = TRUE] \in Chips
  BY DEF Chips
<1>6. [c EXCEPT !.rng = "done"] \in Chips
  BY DEF Chips
<1>7. [c EXCEPT !.rx = TRUE, !.done = TRUE] \in Chips
  BY DEF Chips
<1>8. [c EXCEPT !.tx = "sent", !.done = TRUE] \in Chips
  <2>1. [c EXCEPT !.tx = "sent"] \in Chips
    BY DEF Chips
  <2>2. [[c EXCEPT !.tx = "sent"] EXCEPT !.done = TRUE] \in Chips
    BY <1>a, <2>1
  <2>3. [c EXCEPT !.tx = "sent", !.done = TRUE] = [[c EXCEPT !.tx = "sent"] EXCEPT !.done = TRUE]
    BY DEF Chips
  <2> QED BY <2>2, <2>3
<1>9. [c EXCEPT !.hung = TRUE] \in Chips
  BY DEF Chips
<1> QED BY <1>1, <1>2, <1>3, <1>4, <1>5, <1>6, <1>7, <1>8, <1>9

(* The kinds of operations. *)
LEMMA Kinds ==
    ASSUME NEW t \in Threads, NEW op \in OpsOf(t)
    PROVE  \/ op \in ChipOps
           \/ op[1] \in {"state", "timer", "while", "transmit", "commit", "leave_if_busy"}
<1>1. \A x : <<"while", x>>[1] = "while"
  OBVIOUS
<1>2. \A o \in RestartOps : o \in ChipOps \/ o[1] = "state"
  BY PartsOfOps DEF RestartOps
<1>3. \A o \in Special : o[1] \in {"state", "transmit", "commit", "leave_if_busy"}
  BY PartsOfOps DEF Special, Loads
<1>4. \A o \in MainOps : o \in ChipOps \/ o[1] = "state" \/ o[1] = "while"
  BY <1>1, <1>2, PartsOfOps DEF MainOps
<1>5. \A o \in SendOps : o \in ChipOps \/ o[1] = "state" \/ o[1] = "timer"
  BY PartsOfOps, TimerParts DEF SendOps
<1>6. \A o \in TaskOps : \/ o \in ChipOps
                         \/ o[1] \in {"state", "timer", "transmit", "commit", "leave_if_busy"}
  BY <1>2, <1>3, PartsOfOps, TimerParts DEF TaskOps
<1> QED BY <1>2, <1>4, <1>5, <1>6 DEF OpsOf

(* An operation that only accesses the chip, or leaves a loop. *)
LEMMA ChipStep ==
    ASSUME Inv, Counts', NEW t \in Threads, ~Idle(t), NEW op, op = Head(todo[t]),
           \/ Access(t, op) \/ LeaveWhile(t, op) \/ SpiReset(t, op)
           \/ RaisePin(t, op) \/ ClearFifo(t, op) \/ Drain(t, op),
           UNCHANGED <<taskPrio, sends, aired>>
    PROVE  ProgInv' /\ ControlInv' /\ chip' \in Chips /\ IRQ_Sem' \in Nat
<1>0. /\ ProgInv /\ ControlInv /\ Counts /\ chip \in Chips /\ IRQ_Sem \in Nat
  BY DEF Inv, TypeInv, Counts
<1>1. op \in OpsOf(t)
  <2>1. todo[t] \in Seq(OpsOf(t)) /\ todo[t] # << >>
    BY <1>0 DEF ProgInv, Idle
  <2> QED BY <2>1, TailOps
<1>2. \A c : Edge(chip, c) \in Nat
  BY DEF Edge
<1>3. Continue(t) /\ UNCHANGED <<ubRFState, sendTimer>>
  BY DEF Access, LeaveWhile, SpiReset, RaisePin, ClearFifo, Drain
<1>4. op[1] \in ChipNames => op \in ChipOps
  BY <1>1, OtherOps
<1>5. /\ op \in ChipOps \/ op[1] = "while"
      /\ chip' \in Chips /\ IRQ_Sem' \in Nat
      /\ chip'.tx = chip.tx \/ chip'.tx = "empty"
  <2>1. CASE Access(t, op)
    <3>1. op \in ChipOps
      <4>1. op[1] \notin {"state", "timer", "while", "transmit", "commit", "leave_if_busy"}
        BY <1>0, <2>1 DEF Access, Chips
      <4> QED BY <1>1, <4>1, Kinds
    <3>2. chip' = Write(chip, op[1], op[2]) /\ IRQ_Sem' = IRQ_Sem + Edge(chip, chip')
          /\ op[1] \in DOMAIN chip
      BY <2>1 DEF Access, ChipBecomes
    <3>3. IRQ_Sem' \in Nat
      BY <1>0, <1>2, <3>2
    <3> QED BY <1>0, <3>1, <3>2, <3>3, WriteType
  <2>2. CASE LeaveWhile(t, op)
    BY <1>0, <2>2 DEF LeaveWhile
  <2>3. CASE SpiReset(t, op)
    <3>1. chip' = ChipAfterReset /\ IRQ_Sem' = IRQ_Sem + Edge(chip, chip') /\ op[1] = "reset"
      BY <2>3 DEF SpiReset, ChipBecomes
    <3>2. IRQ_Sem' \in Nat
      BY <1>0, <1>2, <3>1
    <3>3. op \in ChipOps
      BY <1>4, <3>1 DEF ChipNames
    <3> QED BY <1>0, <3>1, <3>2, <3>3, ChipTypes
  <2>4. CASE RaisePin(t, op)
    <3>1. op \in ChipOps
      BY <1>4, <2>4 DEF RaisePin, ChipNames
    <3> QED BY <1>0, <2>4, <3>1 DEF RaisePin
  <2>5. CASE ClearFifo(t, op)
    <3>1. /\ chip' = [chip EXCEPT !.rx = FALSE, !.tx = "empty"]
          /\ IRQ_Sem' = IRQ_Sem + Edge(chip, chip') /\ op[1] = "clear"
      BY <2>5 DEF ClearFifo, ChipBecomes
    <3>2. IRQ_Sem' \in Nat
      BY <1>0, <1>2, <3>1
    <3>3. op \in ChipOps
      BY <1>4, <3>1 DEF ChipNames
    <3>4. chip' \in Chips
      BY <1>0, <3>1, ChipTypes
    <3>5. chip'.tx = "empty"
      BY <1>0, <3>1 DEF Chips
    <3> QED BY <3>2, <3>3, <3>4, <3>5
  <2>6. CASE Drain(t, op)
    <3>1. /\ chip' = [chip EXCEPT !.rx = FALSE,
                          !.mask0 = IF chip.rx /\ @ = "rx" THEN "none" ELSE @]
          /\ IRQ_Sem' = IRQ_Sem + Edge(chip, chip') /\ op[1] = "drain"
      BY <2>6 DEF Drain, ChipBecomes
    <3>2. IRQ_Sem' \in Nat
      BY <1>0, <1>2, <3>1
    <3>3. op \in ChipOps
      BY <1>4, <3>1 DEF ChipNames
    <3>4. chip' \in Chips
      BY <1>0, <3>1, ChipTypes
    <3>5. chip'.tx = chip.tx
      BY <1>0, <3>1 DEF Chips
    <3> QED BY <3>2, <3>3, <3>4, <3>5
  <2> QED BY <2>1, <2>2, <2>3, <2>4, <2>5, <2>6
<1>6. ProgInv'
  BY <1>0, <1>3, Advance
<1>7. ControlInv'
  BY <1>0, <1>3, <1>5, PlainStep
<1> QED BY <1>5, <1>6, <1>7

-----------------------------------------------------------------------------
(* The steps preserve the invariant.                                       *)

(* The start. *)
LEMMA InitInv ==
    ASSUME Init PROVE Inv
<1>1. /\ \A u \in Threads : todo[u] = IF u = "main" THEN rf_startup ELSE << >>
      /\ todo = [t \in Threads |-> todo[t]]
      /\ {"task", "main", "dequeue", "timer"} \subseteq Threads
  BY DEF Init, Threads
<1>2. ProgInv
  BY <1>1, StartProgram, EmptyProgram DEF ProgInv, OpsOf
<1>3. /\ \A u \in Threads \ {"main"} : Idle(u) /\ \A o : ~Has(u, o)
      /\ Has("main", State("rx")) /\ ~Has("main", Do("leave_if_busy"))
  <2>1. \A o \in Ops(rf_startup) : o \in MainOps
    BY StartProgram DEF Ops
  <2>2. Do("leave_if_busy") \notin Ops(rf_startup)
    BY <2>1, DifferentOps DEF Special
  <2>3. Ops(<< >>) = {}
    BY EmptyProgram
  <2> QED BY <1>1, <2>2, <2>3, StartProgram DEF Has, Idle
<1>4. TypeInv
  <2>1. ChipAfterReset \in Chips
    BY DEF ChipAfterReset, Chips
  <2>2. 0 \in 0..MaxSends /\ 0 \in 0..MaxPackets /\ 0 \in 0..MaxHangs
    BY RadioAssumption
  <2> QED BY <2>1, <2>2 DEF Init, TypeInv, DriverStates
<1>5. StartInv
  BY <1>1, <1>3 DEF Init, StartInv, Sending, Preamble
<1>6. OffInv /\ PacketInv /\ TimerInv
  BY <1>1, <1>3 DEF Init, OffInv, PacketInv, TimerInv, Preamble
<1>7. PacketsInv
  <2>1. chip.tx # "queued"
    BY DEF Init, ChipAfterReset
  <2>2. InFifo = 0 /\ ToBegin = 0
    BY <1>1, <1>3, <2>1 DEF InFifo, ToBegin
  <2>3. Underway = 0
    BY <1>1, <1>3 DEF Underway, Init, Preamble
  <2> QED BY <2>2, <2>3 DEF PacketsInv, Init
<1> QED BY <1>2, <1>4, <1>5, <1>6, <1>7 DEF Inv, ControlInv

(* One operation of a thread. *)
LEMMA StepInv ==
    ASSUME Inv, NEW t \in Threads, Step(t)
    PROVE  Inv'
<1> DEFINE op == Head(todo[t])
<1>0. /\ TypeInv /\ ~Idle(t) /\ Runs(t)
      /\ UNCHANGED <<taskPrio, sends, aired>>
      /\ UNCHANGED <<rested, heard, packets, hangs, orderly>>
  BY DEF Inv, Step
<1>1. Counts'
  BY <1>0 DEF Counts, TypeInv
<1>2. met' \in BOOLEAN
  BY DEF Step
<1>3. \/ Access(t, op) \/ LeaveWhile(t, op) \/ SpiReset(t, op)
      \/ RaisePin(t, op) \/ ClearFifo(t, op) \/ Drain(t, op)
      \/ SetState(t, op) \/ SetTimer(t, op) \/ Transmit(t, op)
      \/ Commit(t, op) \/ LeaveIfBusy(t, op)
  BY DEF Step
<1> HIDE DEF op
<1>4. /\ ProgInv' /\ ControlInv' /\ chip' \in Chips /\ IRQ_Sem' \in Nat
      /\ ubRFState' \in DriverStates /\ sendTimer' \in {"off", "on", "due"}
  <2>0. /\ chip \in Chips /\ IRQ_Sem \in Nat /\ ubRFState \in DriverStates
        /\ sendTimer \in {"off", "on", "due"}
    BY <1>0 DEF TypeInv
  <2>1. CASE \/ Access(t, op) \/ LeaveWhile(t, op) \/ SpiReset(t, op)
             \/ RaisePin(t, op) \/ ClearFifo(t, op) \/ Drain(t, op)
    <3>1. UNCHANGED <<ubRFState, sendTimer>>
      BY <2>1 DEF Access, LeaveWhile, SpiReset, RaisePin, ClearFifo, Drain
    <3>2. ProgInv' /\ ControlInv' /\ chip' \in Chips /\ IRQ_Sem' \in Nat
      BY <1>0, <1>1, <2>1, ChipStep DEF op
    <3> QED BY <2>0, <3>1, <3>2
  <2>2. CASE SetState(t, op)
    <3>1. UNCHANGED <<chip, IRQ_Sem, sendTimer>>
      BY <2>2 DEF SetState
    <3>2. ProgInv' /\ ControlInv' /\ ubRFState' \in DriverStates
      BY <1>0, <1>1, <2>2, SetStateStep DEF op
    <3> QED BY <2>0, <3>1, <3>2
  <2>3. CASE SetTimer(t, op)
    <3>1. UNCHANGED <<chip, IRQ_Sem, ubRFState>>
      BY <2>3 DEF SetTimer
    <3>2. ProgInv' /\ ControlInv' /\ sendTimer' \in {"off", "on", "due"}
      BY <1>0, <1>1, <2>3, SetTimerStep DEF op
    <3> QED BY <2>0, <3>1, <3>2
  <2>4. CASE Transmit(t, op)
    <3>1. UNCHANGED <<chip, IRQ_Sem, sendTimer>>
      BY <2>4 DEF Transmit
    <3>2. ProgInv' /\ ControlInv' /\ ubRFState' \in DriverStates
      BY <1>0, <1>1, <2>4, TransmitStep DEF op
    <3> QED BY <2>0, <3>1, <3>2
  <2>5. CASE Commit(t, op)
    <3>1. /\ chip' = [chip EXCEPT !.tx = IF FifoOn(chip) THEN "queued" ELSE @]
          /\ IRQ_Sem' = IRQ_Sem + Edge(chip, chip')
          /\ UNCHANGED <<ubRFState, sendTimer>>
      BY <2>5 DEF Commit, ChipBecomes
    <3>2. ProgInv' /\ ControlInv'
      BY <1>0, <1>1, <2>5, CommitStep DEF op
    <3>3. chip' \in Chips
      BY <2>0, <3>1, ChipTypes
    <3>4. Edge(chip, chip') \in Nat
      BY DEF Edge
    <3>5. IRQ_Sem' \in Nat
      BY <2>0, <3>1, <3>4
    <3> QED BY <2>0, <3>1, <3>2, <3>3, <3>5
  <2>6. CASE LeaveIfBusy(t, op)
    <3>1. UNCHANGED <<chip, IRQ_Sem, ubRFState, sendTimer>>
      BY <2>6 DEF LeaveIfBusy
    <3>2. ProgInv' /\ ControlInv'
      BY <1>0, <1>1, <2>6, LeaveStep DEF op
    <3> QED BY <2>0, <3>1, <3>2
  <2> QED BY <1>3, <2>1, <2>2, <2>3, <2>4, <2>5, <2>6
<1>5. TypeInv'
  BY <1>0, <1>2, <1>4 DEF TypeInv
<1> QED BY <1>4, <1>5 DEF Inv

(* A thread that is idle gets a program. *)
LEMMA NewProgram ==
    ASSUME ProgInv, NEW t \in Threads, Idle(t), NEW p \in Seq(OpsOf(t)), Orders(p),
           todo' = [todo EXCEPT ![t] = p]
    PROVE  /\ ProgInv'
           /\ \A u \in Threads \ {t} : todo'[u] = todo[u]
           /\ \A u \in Threads \ {t} : \A o : Has(u, o)' <=> Has(u, o)
           /\ \A o : ~Has(t, o)
           /\ \A o : Has(t, o)' <=> o \in Ops(p)
<1>1. /\ todo' = [u \in Threads |-> todo'[u]]
      /\ todo'[t] = p /\ \A u \in Threads \ {t} : todo'[u] = todo[u]
  BY DEF ProgInv
<1>2. ASSUME NEW u \in Threads PROVE todo'[u] \in Seq(OpsOf(u)) /\ Orders(todo'[u])
  <2>1. CASE u = t
    BY <1>1, <2>1
  <2>2. CASE u # t
    BY <1>1, <2>2 DEF ProgInv
  <2> QED BY <2>1, <2>2
<1>3. ProgInv'
  BY <1>1, <1>2 DEF ProgInv
<1>4. \A o : ~Has(t, o)
  BY EmptyProgram DEF Idle, Has
<1> QED BY <1>1, <1>3, <1>4 DEF Has

(* The task takes an interrupt. *)
LEMMA TakeInv ==
    ASSUME Inv, Take
    PROVE  Inv'
<1> DEFINE h == Handler(ubRFState)
<1>0. /\ TypeInv /\ ProgInv /\ ControlInv /\ Idle("task")
      /\ todo' = [todo EXCEPT !["task"] = h]
      /\ UNCHANGED <<taskPrio, chip, ubRFState, sendTimer, sends, aired>>
      /\ {"task", "main", "dequeue", "timer"} \subseteq Threads
  BY DEF Inv, Take, Threads
<1>1. /\ h \in Seq(TaskOps) /\ Orders(h)
      /\ (\E o \in Special : o \in Ops(h)) => ubRFState \in Sending
      /\ (\E o \in Loads : o \in Ops(h)) <=> ubRFState = "tx_xtalwait"
      /\ Do("commit") \notin Ops(h) /\ State("tx_waitdone") \notin Ops(h)
      /\ State("xtal_ready") \in Ops(h) \/ State("pll_ranging_done") \in Ops(h)
             => ubRFState \in StartStates
      /\ <<"timer", "off">> \in Ops(h) => ubRFState = "tx_waitdone"
  BY <1>0, HandlerProgram DEF TypeInv
<1> HIDE DEF h
<1>2. /\ ProgInv' /\ \A u \in Threads \ {"task"} : todo'[u] = todo[u]
      /\ \A u \in Threads \ {"task"} : \A o : Has(u, o)' <=> Has(u, o)
      /\ \A o : ~Has("task", o)
      /\ \A o : Has("task", o)' <=> o \in Ops(h)
  BY <1>0, <1>1, NewProgram DEF OpsOf
<1>3. /\ Started' <=> Started
      /\ Idle("timer") => Idle("timer")'
      /\ Idle("dequeue") => Idle("dequeue")'
  BY <1>0, <1>2 DEF Started, Idle
<1>4. ubRFState \notin Preamble \cup {"tx_packet"}
  BY <1>0, <1>2 DEF ControlInv, PacketInv
<1>5. StartInv'
  <2>1. ~Started' => /\ Idle("timer")' /\ Idle("dequeue")' /\ sendTimer' = "off"
                     /\ ubRFState' \notin Sending
                     /\ \A o \in Special : ~Has("task", o)'
    BY <1>0, <1>1, <1>2, <1>3 DEF ControlInv, StartInv
  <2>2. \/ ubRFState' \in StartStates
        \/ Has("task", State("xtal_ready"))' \/ Has("task", State("pll_ranging_done"))'
        => Has("main", State("rx"))'
    BY <1>0, <1>1, <1>2 DEF ControlInv, StartInv
  <2> QED BY <2>1, <2>2 DEF StartInv
<1>6. OffInv'
  BY <1>0, <1>2 DEF ControlInv, OffInv
<1>7. PacketInv'
  BY <1>0, <1>4 DEF PacketInv
<1>8. TimerInv'
  BY <1>0, <1>1, <1>2 DEF ControlInv, TimerInv
<1>9. PacketsInv'
  <2>1. Underway' = Underway
    BY <1>0, <1>1, <1>2, <1>4 DEF Underway
  <2>2. ToBegin' = ToBegin /\ InFifo' = InFifo
    BY <1>0, <1>2 DEF ToBegin, InFifo
  <2>3. Counts /\ Counts' /\ sends' = sends
    BY <1>0 DEF TypeInv, Counts
  <2>4. aired' + InFifo' <= aired + InFifo /\ Underway' + ToBegin' <= Underway + ToBegin
    BY <1>0, <2>1, <2>2, <2>3, Terms DEF Counts
  <2> QED BY <1>0, <2>3, <2>4, Balance DEF ControlInv
<1>10. TypeInv'
  <2>1. IRQ_Sem' \in Nat
    BY <1>0 DEF Take, TypeInv
  <2>2. orderly' \in BOOLEAN
    BY DEF Take
  <2> QED BY <1>0, <2>1, <2>2 DEF TypeInv, Take
<1> QED BY <1>2, <1>5, <1>6, <1>7, <1>8, <1>9, <1>10 DEF Inv, ControlInv

(* All work has come to rest. *)
LEMMA RestInv ==
    ASSUME Inv, Rest
    PROVE  Inv'
<1>0. /\ TypeInv /\ ProgInv /\ ControlInv /\ Counts /\ Counts' /\ Started
      /\ UNCHANGED <<taskPrio, chip, ubRFState, IRQ_Sem, todo, sends, packets, hangs,
                     orderly, met, aired>>
      /\ sendTimer' = TimerDue /\ rested' = TRUE /\ heard' = FALSE
  BY DEF Inv, Rest, TypeInv, Counts
<1>1. sendTimer' = sendTimer \/ (sendTimer = "on" /\ sendTimer' = "due")
  BY <1>0 DEF TimerDue
<1>2. ProgInv'
  BY <1>0 DEF ProgInv
<1>3. Started' /\ InFifo' = InFifo
  BY <1>0 DEF Started, Idle, InFifo
<1>4. aired' + InFifo' <= aired + InFifo
  BY <1>0, <1>3, Terms DEF Counts
<1>5. ControlInv'
  BY <1>0, <1>1, <1>3, <1>4, SameMarkers
<1>6. TypeInv'
  BY <1>0, <1>1 DEF TypeInv
<1> QED BY <1>2, <1>5, <1>6 DEF Inv

(* The dequeue thread begins a transmission. *)
LEMMA SendInv ==
    ASSUME Inv, Send
    PROVE  Inv'
<1>0. /\ TypeInv /\ ProgInv /\ ControlInv /\ Started /\ Idle("dequeue")
      /\ todo' = [todo EXCEPT !["dequeue"] = Normal_send]
      /\ sends < MaxSends /\ sends' = sends + 1
      /\ UNCHANGED <<taskPrio, chip, ubRFState, IRQ_Sem, sendTimer, heard, packets,
                     hangs, aired>>
      /\ {"task", "main", "dequeue", "timer"} \subseteq Threads
  BY DEF Inv, Send, Threads
<1>1. Normal_send \in Seq(OpsOf("dequeue")) /\ Orders(Normal_send)
  BY SendProgram DEF OpsOf
<1>2. /\ ProgInv' /\ \A u \in Threads \ {"dequeue"} : todo'[u] = todo[u]
      /\ \A u \in Threads \ {"dequeue"} : \A o : Has(u, o)' <=> Has(u, o)
      /\ \A o : ~Has("dequeue", o)
  BY <1>0, <1>1, NewProgram
<1>3. Started'
  BY <1>0, <1>2 DEF Started, Idle
<1>4. StartInv'
  BY <1>0, <1>2, <1>3 DEF ControlInv, StartInv
<1>5. OffInv'
  BY <1>0, <1>2 DEF ControlInv, OffInv
<1>6. PacketInv' /\ TimerInv'
  BY <1>0, <1>2 DEF ControlInv, PacketInv, TimerInv
<1>7. Counts /\ Counts' /\ sends' \in 0..MaxSends
  BY <1>0, RadioAssumption DEF TypeInv, Counts
<1>8. PacketsInv'
  <2>1. InFifo' = InFifo /\ Underway' = Underway /\ ToBegin = 0
    BY <1>0, <1>2 DEF InFifo, Underway, ToBegin
  <2> QED BY <1>0, <1>7, <2>1, Balance DEF ControlInv
<1>9. TypeInv'
  <2>1. rested' \in BOOLEAN /\ orderly' \in BOOLEAN /\ met' \in BOOLEAN
    BY DEF Send
  <2> QED BY <1>0, <1>7, <2>1 DEF TypeInv
<1> QED BY <1>2, <1>4, <1>5, <1>6, <1>8, <1>9 DEF Inv, ControlInv

(* The program of the send timer. *)
LEMMA TimeoutProgram ==
    LET p == IF ubRFState = "rx" THEN << >> ELSE <<Set("revmask", "none")>> \o rf_restart
    IN  /\ p \in Seq(RestartOps) /\ Orders(p)
        /\ ubRFState # "rx" => State("rx") \in Ops(p)
<1> DEFINE a == <<Set("revmask", "none")>>
           q == a \o rf_restart
<1>1. a \in Seq(RestartOps)
  BY DEF RestartOps, ChipOps
<1> HIDE DEF a
<1>2. /\ q \in Seq(RestartOps) /\ State("rx") \in Ops(q)
      /\ Then(q, Passing, State("rx"))
  BY <1>1, RestartAfter
<1> HIDE DEF q
<1>3. \A o \in Ops(q) : o \notin Special \cup {State("tx_xtalwait")}
  <2>1. \A o \in Ops(q) : o \in RestartOps
    BY <1>2 DEF Ops
  <2> QED BY <2>1, DifferentOps DEF MainOps
<1>4. Orders(q)
  BY <1>2, <1>3, PlainOrders
<1>5. << >> \in Seq(RestartOps) /\ Orders(<< >>)
  BY EmptyProgram
<1> QED BY <1>2, <1>4, <1>5 DEF q, a

(* The send timer runs out. *)
LEMMA TimeoutInv ==
    ASSUME Inv, Timeout
    PROVE  Inv'
<1> DEFINE p == IF ubRFState = "rx" THEN << >> ELSE <<Set("revmask", "none")>> \o rf_restart
<1>0. /\ TypeInv /\ ProgInv /\ ControlInv /\ Idle("timer") /\ sendTimer = "due"
      /\ todo' = [todo EXCEPT !["timer"] = p] /\ sendTimer' = "off"
      /\ UNCHANGED <<taskPrio, chip, ubRFState, IRQ_Sem, rested, heard, sends, packets,
                     hangs, met, aired>>
      /\ {"task", "main", "dequeue", "timer"} \subseteq Threads
  BY DEF Inv, Timeout, Threads
<1>1. /\ p \in Seq(OpsOf("timer")) /\ Orders(p)
      /\ ubRFState # "rx" => State("rx") \in Ops(p)
  BY TimeoutProgram DEF OpsOf
<1> HIDE DEF p
<1>2. /\ ProgInv' /\ \A u \in Threads \ {"timer"} : todo'[u] = todo[u]
      /\ \A u \in Threads \ {"timer"} : \A o : Has(u, o)' <=> Has(u, o)
      /\ \A o : ~Has("timer", o)
      /\ \A o : Has("timer", o)' <=> o \in Ops(p)
  BY <1>0, <1>1, NewProgram
<1>3. Started /\ Started'
  <2>1. Started
    BY <1>0 DEF ControlInv, StartInv
  <2> QED BY <1>0, <1>2, <2>1 DEF Started, Idle
<1>4. StartInv'
  BY <1>0, <1>2, <1>3 DEF ControlInv, StartInv
<1>5. OffInv'
  BY <1>0, <1>2 DEF ControlInv, OffInv
<1>6. PacketInv'
  BY <1>0, <1>2 DEF ControlInv, PacketInv
<1>7. TimerInv'
  BY <1>0, <1>1, <1>2 DEF ControlInv, TimerInv
<1>8. PacketsInv'
  <2>1. InFifo' = InFifo /\ Underway' = Underway /\ ToBegin' = ToBegin
    BY <1>0, <1>2 DEF InFifo, Underway, ToBegin
  <2>2. Counts /\ Counts' /\ sends' = sends
    BY <1>0 DEF TypeInv, Counts
  <2>3. aired' + InFifo' <= aired + InFifo /\ Underway' + ToBegin' <= Underway + ToBegin
    BY <1>0, <2>1, <2>2, Terms DEF Counts
  <2> QED BY <1>0, <2>2, <2>3, Balance DEF ControlInv
<1>9. TypeInv'
  <2>1. orderly' \in BOOLEAN
    BY DEF Timeout
  <2> QED BY <1>0, <2>1 DEF TypeInv
<1> QED BY <1>2, <1>4, <1>5, <1>6, <1>7, <1>8, <1>9 DEF Inv, ControlInv

(* The chip moves by itself: a packet leaves the FIFO when it is out. *)
LEMMA ChipInv ==
    ASSUME Inv, XtalStarts \/ RangingEnds \/ PacketArrives \/ PacketSent \/ Hang
    PROVE  Inv'
<1>0. /\ TypeInv /\ ProgInv /\ ControlInv /\ Counts /\ chip \in Chips /\ IRQ_Sem \in Nat
      /\ UNCHANGED <<taskPrio, ubRFState, sendTimer, todo, rested, sends, orderly, met>>
      /\ IRQ_Sem' = IRQ_Sem + Edge(chip, chip')
  <2>1. TypeInv /\ ProgInv /\ ControlInv
    BY DEF Inv
  <2>2. ChipOnly /\ \E c : ChipBecomes(c)
    BY DEF XtalStarts, RangingEnds, PacketArrives, PacketSent, Hang
  <2>3. IRQ_Sem' = IRQ_Sem + Edge(chip, chip')
    BY <2>2 DEF ChipBecomes
  <2>4. UNCHANGED <<taskPrio, ubRFState, sendTimer, todo, rested, sends, orderly, met>>
    BY <2>2 DEF ChipOnly
  <2> QED BY <2>1, <2>3, <2>4 DEF TypeInv, Counts
<1>1. IRQ_Sem' \in Nat
  <2>1. Edge(chip, chip') \in Nat
    BY DEF Edge
  <2> QED BY <1>0, <2>1
<1>2. heard' \in BOOLEAN /\ packets' \in 0..MaxPackets /\ hangs' \in 0..MaxHangs
  <2>1. /\ heard \in BOOLEAN /\ packets \in 0..MaxPackets /\ hangs \in 0..MaxHangs
    BY <1>0 DEF TypeInv
  <2>2. heard' \in BOOLEAN
    BY <2>1 DEF XtalStarts, RangingEnds, PacketArrives, PacketSent, Hang
  <2>3. packets' = packets \/ (packets < MaxPackets /\ packets' = packets + 1)
    BY DEF XtalStarts, RangingEnds, PacketArrives, PacketSent, Hang
  <2>4. hangs' = hangs \/ (hangs < MaxHangs /\ hangs' = hangs + 1)
    BY DEF XtalStarts, RangingEnds, PacketArrives, PacketSent, Hang
  <2> QED BY <2>1, <2>2, <2>3, <2>4, RadioAssumption
<1>3. chip' \in Chips
  BY <1>0, ChipTypes
     DEF XtalStarts, RangingEnds, PacketArrives, PacketSent, Hang, ChipBecomes
<1>4. aired' \in Nat /\ aired' + InFifo' <= aired + InFifo
  <2>1. CASE PacketSent
    <3>1. InFifo = 1
      BY <2>1 DEF PacketSent, OnAir, InFifo
    <3>2. chip'.tx = "sent"
      BY <1>0, <2>1 DEF PacketSent, ChipBecomes, Chips
    <3>3. InFifo' = 0
      BY <3>2 DEF InFifo
    <3>4. aired' = aired \/ aired' = aired + 1
      BY <2>1 DEF PacketSent
    <3> QED BY <1>0, <3>1, <3>3, <3>4 DEF Counts
  <2>2. CASE XtalStarts \/ RangingEnds \/ PacketArrives \/ Hang
    <3>1. aired' = aired
      BY <2>2 DEF XtalStarts, RangingEnds, PacketArrives, Hang
    <3>2. chip'.tx = chip.tx
      BY <1>0, <2>2 DEF XtalStarts, RangingEnds, PacketArrives, Hang, ChipBecomes, Chips
    <3>3. InFifo' = InFifo
      BY <3>2 DEF InFifo
    <3> QED BY <1>0, <3>1, <3>3, Terms DEF Counts
  <2> QED BY <2>1, <2>2
<1>5. Counts'
  BY <1>0, <1>4 DEF Counts
<1>6. Started => Started'
  BY <1>0 DEF Started, Idle
<1>7. (Idle("timer") => Idle("timer")') /\ (Idle("dequeue") => Idle("dequeue")')
  BY <1>0 DEF Idle
<1>8. ControlInv'
  BY <1>0, <1>4, <1>5, <1>6, <1>7, SameMarkers
<1>9. TypeInv'
  BY <1>0, <1>1, <1>2, <1>3, <1>4 DEF TypeInv
<1>10. ProgInv'
  BY <1>0 DEF ProgInv
<1> QED BY <1>8, <1>9, <1>10 DEF Inv

(* Every step preserves the invariant. *)
LEMMA NextInv ==
    ASSUME Inv, [Next]_vars
    PROVE  Inv'
<1>1. CASE Next
  BY <1>1, StepInv, TakeInv, RestInv, SendInv, TimeoutInv, ChipInv DEF Next, ChipSteps
<1>2. CASE UNCHANGED vars
  BY <1>2 DEF vars, Inv, TypeInv, ProgInv, ControlInv, StartInv, OffInv, PacketInv,
       TimerInv, PacketsInv, InFifo, Underway, ToBegin, Has, Started, Idle
<1> QED BY <1>1, <1>2

(* The programs of the four threads keep their order, the start-up is left *)
(* for good, each state that only a thread can leave is left by one that   *)
(* still has to, and each packet has a transmission of its own.            *)
THEOREM RadioInvariant == Spec => []Inv
<1>1. Init => Inv
  BY InitInv
<1>2. Inv /\ [Next]_vars => Inv'
  BY NextInv
<1> QED BY <1>1, <1>2, PTL DEF Spec

-----------------------------------------------------------------------------
(* The theorems.                                                           *)

(* Types; the states of the start-up never return and no other thread      *)
(* sends before its end; and no transmission puts a second packet on the   *)
(* air, whatever restarts, interrupts and hangs fall into it and in which  *)
(* order the four threads access the chip and ubRFState (TransmitData).    *)
THEOREM RadioTypeOK == Spec => []TypeOK
<1>1. Inv => TypeOK
  <2> SUFFICES ASSUME Inv PROVE TypeOK
    OBVIOUS
  <2>0. TypeInv /\ ProgInv /\ StartInv /\ PacketsInv
    BY DEF Inv, ControlInv
  <2>1. ubRFState \in {"off", "rx"} \cup (IF Started THEN Sending ELSE StartStates)
    <3>1. CASE Started
      <4>1. ~Has("main", State("rx"))
        BY <3>1, EmptyProgram DEF Started, Idle, Has
      <4> QED BY <2>0, <3>1, <4>1 DEF TypeInv, StartInv, DriverStates
    <3>2. CASE ~Started
      BY <2>0, <3>2 DEF TypeInv, StartInv, DriverStates
    <3> QED BY <3>1, <3>2
  <2>2. aired \in 0..sends
    <3>1. aired \in Int /\ 0 <= aired /\ sends \in Int
      BY <2>0 DEF TypeInv
    <3>2. aired + InFifo + Underway + ToBegin <= sends
      BY <2>0 DEF PacketsInv
    <3> QED BY <3>1, <3>2, Terms
  <2>3. DOMAIN todo = Threads
    BY <2>0 DEF ProgInv
  <2>4. {rested, heard, orderly, met} \subseteq BOOLEAN
    BY <2>0, Zenon DEF TypeInv
  <2> QED BY <2>0, <2>1, <2>2, <2>3, <2>4 DEF TypeInv, TypeOK, Chips
<1> QED BY <1>1, RadioInvariant, PTL

(* The driver is never left in a state that no interrupt and no timer gets *)
(* it out of, whatever the chip does and whatever falls into what: when no *)
(* thread has anything to do it is in reception, waits for the crystal (on *)
(* the 433 radio with the send timer running) or for the end of a packet,  *)
(* or main waits in one of the two loops of the start-up.                  *)
THEOREM NeverLeftStranded == Spec => []NeverStranded
<1>1. Inv => NeverStranded
  <2> SUFFICES ASSUME Inv, Quiet
               PROVE  IF Started
                      THEN /\ ubRFState \in {"rx", "tx_xtalwait", "tx_waitdone"}
                           /\ taskPrio = 8 /\ ubRFState = "tx_xtalwait" => sendTimer # "off"
                      ELSE ubRFState \in {"wait_xtal", "pll_ranging"}
    BY DEF NeverStranded
  <2>0. /\ TypeInv /\ ProgInv /\ StartInv /\ OffInv /\ PacketInv /\ TimerInv
        /\ {"task", "main", "dequeue", "timer"} \subseteq Threads
    BY DEF Inv, ControlInv, Threads
  <2>1. \A u \in Threads \ {"main"} : Idle(u)
    BY <2>0, OnlyMainWaits DEF Quiet, Ready
  <2>2. \A u \in Threads : Idle(u) => \A o : ~Has(u, o)
    BY EmptyProgram DEF Idle, Has
  <2>3. CASE Started
    <3>1. \A u \in Threads : \A o : ~Has(u, o)
      BY <2>1, <2>2, <2>3 DEF Started
    <3>2. ubRFState \notin {"off"} \cup StartStates \cup Preamble \cup {"tx_packet"}
      BY <2>0, <3>1 DEF OffInv, StartInv, PacketInv
    <3>3. ubRFState \in {"rx", "tx_xtalwait", "tx_waitdone"}
      BY <2>0, <3>2 DEF TypeInv, DriverStates, Sending
    <3>4. taskPrio = 8 /\ ubRFState = "tx_xtalwait" => sendTimer # "off"
      BY <2>0, <3>1 DEF TimerInv
    <3> QED BY <2>3, <3>3, <3>4
  <2>4. CASE ~Started
    <3>1. Waits("main")
      BY <2>0, <2>4 DEF Quiet, Ready, Started
    <3> QED BY <2>0, <2>4, <3>1, OnlyMainWaits
  <2> QED BY <2>3, <2>4
<1> QED BY <1>1, RadioInvariant, PTL

=============================================================================
