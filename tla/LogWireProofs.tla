--------------------------- MODULE LogWireProofs ---------------------------
(* Theorems about module LogWire, for any number of messages and connections,
   any sizes of headers and bytes, and whatever is logged.                  *)
EXTENDS LogWire, SequenceTheorems, WellFoundedInduction, TLAPS

-----------------------------------------------------------------------------
(* The inductive invariant.                                                 *)

\* What Log makes of e, as the k-th message.
Entry(e, k) ==
    [msg |-> Built(e, k), exc |-> e.exc, throws |-> e.throws, size |-> e.size,
     text |-> serialize(Built(e, k), e.throws)]

LogEntry == {Entry(e, k) : e \in Entries, k \in Nat}

\* What a session may hand out.
Received ==
    {synthetize(text, Now(0)) :
        text \in {entry.text : entry \in LogEntry} \union {[json |-> FALSE, text |-> "garbled"]}}

\* A byte on a connection.
WireByte == Nat \X Nat

TypeInv ==
    /\ logged \in Seq(LogEntry) /\ Len(logged) <= MaxLogged
    /\ posted \in Seq(Nat) /\ queue \in Seq(Nat)
    /\ Len(posted) + Len(queue) <= Len(logged)
    /\ written \in Nat
    /\ client \in {"waiting", "connected", "closed", "broken", "undefined"}
    /\ terminate \in BOOLEAN
    /\ left \subseteq 1 .. Len(logged)
    /\ conn \in 0 .. MaxConnections
    /\ wire \in [Connections -> Seq(WireByte)]
    /\ ended \subseteq Connections
    /\ session \in [Connections -> [state : {"none", "header", "message", "gone"}, size : Nat]]
    /\ got \in [Connections -> Seq(Received)]
    /\ first \in [Connections -> Nat]
    /\ lost \in BOOLEAN

LoggedInv ==
    /\ logged \in Seq(LogEntry)
    /\ \A k \in 1 .. Len(logged) : \E e \in Entries : logged[k] = Entry(e, k)

Width(size) == HeaderSize + IF TooLarge(size) THEN 1 ELSE 0
FrameSize(k) == Width(logged[k].size) + logged[k].size

\* The queue, the posted handlers behind it, and the part of its head that was written.
QueueInv ==
    /\ client # "undefined" =>
          /\ \A i \in 1 .. Len(queue) : queue[i] = Current + i - 1
          /\ \A i \in 1 .. Len(posted) : posted[i] = Current + Len(queue) + i - 1
          /\ queue # <<>> => written < FrameSize(Current)
          /\ queue = <<>> => written = 0
    /\ client = "waiting" => written = 0

\* The sessions are those of the connections made.
ConnInv ==
    /\ client = "connected" => conn # 0
    /\ \A c \in Connections :
          /\ session[c].state = "none" <=> c > conn
          /\ c > conn => wire[c] = <<>> /\ got[c] = <<>> /\ c \notin ended

\* The place of each frame among all the bytes that were ever to be written.
Offsets(off) ==
    /\ \A k \in 1 .. Len(logged) + 1 : off[k] \in Nat
    /\ \A k \in 1 .. Len(logged) : off[k + 1] = off[k] + FrameSize(k)
    /\ \A j, k \in 1 .. Len(logged) + 1 : j < k => off[j] < off[k]

\* The message that session c is at.
Turn(c) == first[c] + Len(got[c])

\* All sizes that session c has read fit a header.
InStep(c) ==
    /\ session[c].state \in {"header", "message"}
    /\ \A k \in first[c] .. Turn(c) - 1 : k \in DOMAIN logged => ~TooLarge(logged[k].size)
    /\ session[c].state = "message" /\ Turn(c) \in DOMAIN logged =>
          ~TooLarge(logged[Turn(c)].size)

\* The place of the first byte that session c has not read.
Place0(c, off) == off[Turn(c)] + IF session[c].state = "message" THEN HeaderSize ELSE 0

\* The client is writing to connection c.
Live(c) == client = "connected" /\ c = conn /\ c \notin ended

\* The bytes on connection c are those of the frames.
InPlace(c, off) ==
    \A p \in 1 .. Len(wire[c]) : \A k \in 1 .. Len(logged) : \A i \in 1 .. FrameSize(k) :
        Place0(c, off) + p = off[k] + i => wire[c][p] = Frame(k)[i]

\* What is on its way to session c follows what it has read; while the client writes to it
\* nothing is missing up to what is written next.
Aligned(c, off) ==
    /\ Turn(c) \in 1 .. Len(logged) + 1
    /\ session[c].state = "message" =>
          Turn(c) <= Len(logged) /\ session[c].size = logged[Turn(c)].size
    /\ Place0(c, off) + Len(wire[c]) <= off[Len(logged) + 1]
    /\ Live(c) => /\ Turn(c) <= Current
                  /\ Place0(c, off) + Len(wire[c]) = off[Current] + written
    /\ InPlace(c, off)

StreamInv(off) == Offsets(off) /\ \A c \in Connections : InStep(c) => Aligned(c, off)

Basics == TypeInv /\ LoggedInv /\ QueueInv /\ ConnInv

IInv ==
    /\ Basics
    /\ (\E off : StreamInv(off))
    /\ SessionsGetRuns

-----------------------------------------------------------------------------
(* Induction over the natural numbers: the smallest number that a claim     *)
(* does not hold of has a predecessor.                                      *)

\* A set of natural numbers that is not empty has a smallest element.
LEMMA NatMin ==
    ASSUME NEW T \in SUBSET Nat, T # {}
    PROVE  \E x \in T : \A y \in T : ~(y < x)
  <1> DEFINE R == OpToRel(<, Nat)
  <1>1. IsWellFoundedOn(R, Nat)
    BY NatLessThanWellFounded
  <1>2. PICK x \in T : \A y \in T : <<y, x>> \notin R
    BY <1>1, WFMin
  <1>3. \A y \in T : y < x => <<y, x>> \in R
    BY DEF OpToRel
  <1>4. QED
    BY <1>2, <1>3

\* The principle of induction, over the set of the numbers that a claim holds of.
LEMMA NatInd ==
    ASSUME NEW T, 0 \in T, \A n \in Nat : n \in T => n + 1 \in T
    PROVE  \A n \in Nat : n \in T
  <1>1. SUFFICES ASSUME Nat \ T # {}
                 PROVE  FALSE
    OBVIOUS
  <1>2. PICK x \in Nat \ T : \A y \in Nat \ T : ~(y < x)
    BY <1>1, NatMin
  <1>3. x # 0
    OBVIOUS
  <1>4. x - 1 \in Nat /\ x - 1 < x /\ (x - 1) + 1 = x
    BY <1>3
  <1>5. x - 1 \in T
    BY <1>2, <1>4
  <1>6. QED
    BY <1>4, <1>5

\* Definitions by recursion define something.  The functions on 0 .. n to S that begin
\* with base and go on as step tells:
Start(S, base, step, n) ==
    {g \in [0 .. n -> S] : g[0] = base /\ \A i \in 0 .. n - 1 : g[i + 1] = step[i][g[i]]}

LEMMA StartExists ==
    ASSUME NEW S, NEW base \in S, NEW step \in [Nat -> [S -> S]]
    PROVE  \A n \in Nat : Start(S, base, step, n) # {}
  <1> DEFINE T == {n \in Nat : Start(S, base, step, n) # {}}
  <1>1. 0 \in T
    <2> DEFINE g == [i \in 0 .. 0 |-> base]
    <2>1. g \in [0 .. 0 -> S] /\ g[0] = base
      OBVIOUS
    <2>2. \A i \in 0 .. 0 - 1 : FALSE
      OBVIOUS
    <2>3. QED
      BY <2>1, <2>2 DEF Start
  <1>2. ASSUME NEW n \in Nat, n \in T
        PROVE  n + 1 \in T
    <2>1. PICK g \in [0 .. n -> S] :
              g[0] = base /\ \A i \in 0 .. n - 1 : g[i + 1] = step[i][g[i]]
      BY <1>2 DEF Start
    <2> DEFINE h == [i \in 0 .. n + 1 |-> IF i = n + 1 THEN step[n][g[n]] ELSE g[i]]
    <2>2. h \in [0 .. n + 1 -> S]
      <3>1. step[n][g[n]] \in S
        OBVIOUS
      <3>2. QED
        BY <3>1
    <2>3. h[0] = base
      BY <2>1
    <2>4. ASSUME NEW i \in 0 .. n
          PROVE  h[i + 1] = step[i][h[i]]
      <3>1. h[i] = g[i]
        OBVIOUS
      <3>2. CASE i = n
        <4>1. h[i + 1] = step[n][g[n]]
          BY <3>2
        <4>2. QED
          BY <3>1, <3>2, <4>1
      <3>3. CASE i < n
        BY <2>1, <3>1, <3>3
      <3>4. QED
        BY <3>2, <3>3
    <2>5. 0 .. (n + 1) - 1 = 0 .. n
      OBVIOUS
    <2> HIDE DEF h
    <2>6. h \in Start(S, base, step, n + 1)
      BY <2>2, <2>3, <2>4, <2>5 DEF Start
    <2>7. QED
      BY <2>6
  <1> HIDE DEF T
  <1>3. \A n \in Nat : n \in T
    BY <1>1, <1>2, NatInd
  <1>4. QED
    BY <1>3 DEF T

\* Two of them agree as far as both go.
LEMMA StartsAgree ==
    ASSUME NEW S, NEW base, NEW step, NEW m \in Nat, NEW n \in Nat,
           NEW g \in Start(S, base, step, m), NEW h \in Start(S, base, step, n)
    PROVE  \A i \in Nat : i <= m /\ i <= n => g[i] = h[i]
  <1> DEFINE T == {i \in Nat : i <= m /\ i <= n => g[i] = h[i]}
  <1>1. 0 \in T
    BY DEF Start
  <1>2. ASSUME NEW i \in Nat, i \in T
        PROVE  i + 1 \in T
    <2>1. SUFFICES ASSUME i + 1 <= m, i + 1 <= n
                   PROVE  g[i + 1] = h[i + 1]
      OBVIOUS
    <2>2. i \in 0 .. m - 1 /\ i \in 0 .. n - 1
      BY <2>1
    <2>3. g[i] = h[i]
      BY <1>2, <2>1
    <2>4. g[i + 1] = step[i][g[i]] /\ h[i + 1] = step[i][h[i]]
      BY <2>2 DEF Start
    <2>5. QED
      BY <2>3, <2>4
  <1> HIDE DEF T
  <1>3. \A i \in Nat : i \in T
    BY <1>1, <1>2, NatInd
  <1>4. QED
    BY <1>3 DEF T

\* The functions that go on for ever.
Recursion(S, base, step) ==
    {f \in [Nat -> S] : f[0] = base /\ \A n \in Nat : f[n + 1] = step[n][f[n]]}

LEMMA RecursionExists ==
    ASSUME NEW S, NEW base \in S, NEW step \in [Nat -> [S -> S]]
    PROVE  Recursion(S, base, step) # {}
  <1> DEFINE G(n) == CHOOSE g \in Start(S, base, step, n) : TRUE
             f == [n \in Nat |-> G(n)[n]]
  <1>1. \A n \in Nat : G(n) \in Start(S, base, step, n)
    BY StartExists
  <1> HIDE DEF G
  <1>2. f \in [Nat -> S]
    BY <1>1 DEF Start
  <1>3. f[0] = base
    BY <1>1 DEF Start
  <1>4. ASSUME NEW n \in Nat
        PROVE  f[n + 1] = step[n][f[n]]
    <2>1. n + 1 \in Nat /\ n \in 0 .. (n + 1) - 1
      OBVIOUS
    <2>2. G(n + 1) \in Start(S, base, step, n + 1) /\ G(n) \in Start(S, base, step, n)
      BY <1>1, <2>1
    <2>3. G(n + 1)[n + 1] = step[n][G(n + 1)[n]]
      BY <2>1, <2>2 DEF Start
    <2>4. G(n + 1)[n] = G(n)[n]
      BY <2>1, <2>2, StartsAgree
    <2>5. QED
      BY <2>1, <2>3, <2>4
  <1>5. f \in Recursion(S, base, step)
    BY <1>2, <1>3, <1>4 DEF Recursion
  <1>6. QED
    BY <1>5

-----------------------------------------------------------------------------
(* Numbers in digits.                                                       *)

\* The powers of DecBase exist, and are positive.
LEMMA PowerDefined == Power = [n \in Nat |-> IF n = 0 THEN 1 ELSE DecBase * Power[n - 1]]
  <1> DEFINE step == [n \in Nat |-> [x \in Nat |-> DecBase * x]]
  <1>1. step \in [Nat -> [Nat -> Nat]]
    BY LogWireAssumption
  <1> HIDE DEF step
  <1>2. Recursion(Nat, 1, step) # {}
    BY <1>1, RecursionExists
  <1>3. PICK f \in [Nat -> Nat] : f[0] = 1 /\ \A n \in Nat : f[n + 1] = step[n][f[n]]
    BY <1>2 DEF Recursion
  <1>4. ASSUME NEW n \in Nat
        PROVE  f[n] = IF n = 0 THEN 1 ELSE DecBase * f[n - 1]
    <2>1. CASE n = 0
      BY <1>3, <2>1
    <2>2. CASE n # 0
      <3>1. n - 1 \in Nat /\ (n - 1) + 1 = n
        BY <2>2
      <3>2. f[n] = step[n - 1][f[n - 1]]
        BY <1>3, <3>1
      <3>3. QED
        BY <2>2, <3>1, <3>2 DEF step
    <2>3. QED
      BY <2>1, <2>2
  <1>5. f = [n \in Nat |-> IF n = 0 THEN 1 ELSE DecBase * f[n - 1]]
    BY <1>4
  <1>6. QED
    BY <1>5 DEF Power

LEMMA PowerValues ==
    /\ Power[0] = 1
    /\ \A n \in Nat : Power[n] \in Nat \ {0} /\ Power[n + 1] = DecBase * Power[n]
  <1>1. Power[0] = 1 /\ \A n \in Nat : Power[n + 1] = DecBase * Power[n]
    BY PowerDefined
  <1> DEFINE T == {n \in Nat : Power[n] \in Nat \ {0}}
  <1>2. 0 \in T
    BY <1>1
  <1>3. ASSUME NEW n \in Nat, n \in T
        PROVE  n + 1 \in T
    <2>1. \A a, b \in Nat \ {0} : a * b \in Nat \ {0}
      OBVIOUS
    <2>2. DecBase \in Nat \ {0} /\ Power[n] \in Nat \ {0}
      BY <1>3, LogWireAssumption
    <2>3. DecBase * Power[n] \in Nat \ {0}
      BY <2>1, <2>2
    <2>4. QED
      BY <1>1, <2>3
  <1> HIDE DEF T
  <1>4. \A n \in Nat : n \in T
    BY <1>2, <1>3, NatInd
  <1>5. QED
    BY <1>1, <1>4 DEF T

\* Cutting off one digit, and putting it back.
LEMMA OneDigit ==
    ASSUME NEW a \in Nat, NEW b \in Nat \ {0}
    PROVE  /\ (a \div b) \in Nat
           /\ (a \div b) % DecBase \in Nat
           /\ DecBase * (a \div (DecBase * b)) + ((a \div b) % DecBase) = a \div b
  <1>1. DecBase \in Nat \ {0, 1}
    BY LogWireAssumption
  <1>2. (a \div b) \in Nat /\ (a \div b) % DecBase \in Nat
    BY <1>1
  <1>3. (a \div b) \div DecBase = a \div (DecBase * b)
    BY <1>1
  <1>4. \A q \in Nat : DecBase * (q \div DecBase) + (q % DecBase) = q
    BY <1>1
  <1>5. QED
    BY <1>2, <1>3, <1>4

LEMMA ByteParts == \A x \in WireByte : x[1] \in Nat /\ x[2] \in Nat
  BY DEF WireByte

\* The values that atoi goes through exist.
LEMMA AtoiDefined ==
    ASSUME NEW h \in Seq(WireByte)
    PROVE  \E v : /\ v = [n \in 0 .. Len(h) |->
                            IF n = 0 THEN 0
                            ELSE IF \A i \in 1 .. n : h[i][1] = 0
                                 THEN DecBase * v[n - 1] + h[n][2]
                                 ELSE v[n - 1]]
                  /\ atoi(h) = v[Len(h)]
  <1> DEFINE digits(n) == \A i \in 1 .. n : h[i][1] = 0
             step == [n \in Nat |-> [x \in Nat |->
                        IF n < Len(h) /\ digits(n + 1) THEN DecBase * x + h[n + 1][2] ELSE x]]
  <1>1. Len(h) \in Nat /\ \A n \in Nat : n < Len(h) => h[n + 1][2] \in Nat
    BY ByteParts
  <1> HIDE DEF digits
  <1>2. step \in [Nat -> [Nat -> Nat]]
    <2>1. ASSUME NEW n \in Nat, NEW x \in Nat
          PROVE  (IF n < Len(h) /\ digits(n + 1) THEN DecBase * x + h[n + 1][2] ELSE x) \in Nat
      <3>1. DecBase * x \in Nat
        BY LogWireAssumption
      <3>2. QED
        BY <1>1, <3>1
    <2>2. QED
      BY <2>1
  <1> HIDE DEF step
  <1>3. Recursion(Nat, 0, step) # {}
    BY <1>2, RecursionExists
  <1>4. PICK f \in [Nat -> Nat] : f[0] = 0 /\ \A n \in Nat : f[n + 1] = step[n][f[n]]
    BY <1>3 DEF Recursion
  <1> DEFINE v == [n \in 0 .. Len(h) |-> f[n]]
  <1>5. ASSUME NEW n \in 0 .. Len(h)
        PROVE  v[n] = IF n = 0 THEN 0
                      ELSE IF digits(n) THEN DecBase * v[n - 1] + h[n][2] ELSE v[n - 1]
    <2>1. CASE n = 0
      BY <1>1, <1>4, <2>1
    <2>2. CASE n # 0
      <3>1. /\ n - 1 \in Nat /\ (n - 1) + 1 = n /\ n - 1 < Len(h)
            /\ n \in 0 .. Len(h) /\ n - 1 \in 0 .. Len(h)
        <4>1. Len(h) \in Nat
          BY <1>1
        <4>2. \A l \in Nat : \A m \in 0 .. l :
                 m # 0 => /\ m - 1 \in Nat /\ (m - 1) + 1 = m /\ m - 1 < l
                          /\ m - 1 \in 0 .. l
          OBVIOUS
        <4>3. QED
          BY <2>2, <4>1, <4>2
      <3>2. f[n] = step[n - 1][f[n - 1]] /\ f[n - 1] \in Nat
        BY <1>4, <3>1
      <3>3. f[n] = IF digits(n) THEN DecBase * f[n - 1] + h[n][2] ELSE f[n - 1]
        BY <3>1, <3>2 DEF step
      <3>4. QED
        BY <2>2, <3>1, <3>3
    <2>3. QED
      BY <2>1, <2>2
  <1> HIDE DEF v
  <1>6. v = [n \in 0 .. Len(h) |->
               IF n = 0 THEN 0
               ELSE IF digits(n) THEN DecBase * v[n - 1] + h[n][2] ELSE v[n - 1]]
    BY <1>5 DEF v
  <1>7. QED
    BY <1>6 DEF digits, atoi

LEMMA AtoiNat ==
    ASSUME NEW h \in Seq(WireByte)
    PROVE  atoi(h) \in Nat
  <1>1. PICK v : /\ v = [n \in 0 .. Len(h) |->
                           IF n = 0 THEN 0
                           ELSE IF \A i \in 1 .. n : h[i][1] = 0
                                THEN DecBase * v[n - 1] + h[n][2]
                                ELSE v[n - 1]]
                 /\ atoi(h) = v[Len(h)]
    BY AtoiDefined
  <1>2. Len(h) \in Nat /\ \A n \in 1 .. Len(h) : h[n][2] \in Nat
    BY ByteParts
  <1> DEFINE T == {n \in Nat : n <= Len(h) => v[n] \in Nat}
  <1>3. 0 \in T
    <2>1. 0 \in 0 .. Len(h)
      BY <1>2
    <2>2. v[0] = 0
      BY <1>1, <2>1
    <2>3. QED
      BY <2>2
  <1>4. ASSUME NEW n \in Nat, n \in T
        PROVE  n + 1 \in T
    <2>1. SUFFICES ASSUME n + 1 <= Len(h)
                   PROVE  v[n + 1] \in Nat
      OBVIOUS
    <2>2. n + 1 \in 0 .. Len(h) /\ n + 1 # 0 /\ (n + 1) - 1 = n /\ n + 1 \in 1 .. Len(h)
      BY <1>2, <2>1
    <2>3. v[n + 1] = IF \A i \in 1 .. n + 1 : h[i][1] = 0
                     THEN DecBase * v[n] + h[n + 1][2] ELSE v[n]
      BY <1>1, <2>2
    <2>4. v[n] \in Nat /\ h[n + 1][2] \in Nat
      BY <1>2, <1>4, <2>1, <2>2
    <2>5. DecBase * v[n] \in Nat
      BY <2>4, LogWireAssumption
    <2>6. DecBase * v[n] + h[n + 1][2] \in Nat
      BY <2>4, <2>5
    <2>7. QED
      BY <2>3, <2>4, <2>6
  <1> HIDE DEF T
  <1>5. \A n \in Nat : n \in T
    BY <1>3, <1>4, NatInd
  <1>6. QED
    BY <1>1, <1>2, <1>5 DEF T

\* The header of a text, and its whole frame, byte by byte.
LEMMA HeaderBytes ==
    ASSUME NEW size \in Nat
    PROVE  /\ Width(size) \in Nat \ {0} /\ Width(size) >= HeaderSize
           /\ ~TooLarge(size) => Width(size) = HeaderSize
           /\ Header(size) \in Seq(WireByte) /\ Len(Header(size)) = Width(size)
           /\ \A i \in 1 .. Width(size) :
                 Header(size)[i] = <<0, (size \div Power[Width(size) - i]) % DecBase>>
  <1>1. /\ Width(size) \in Nat \ {0} /\ Width(size) >= HeaderSize
        /\ ~TooLarge(size) => Width(size) = HeaderSize
    BY LogWireAssumption DEF Width
  <1>2. Header(size) =
          [i \in 1 .. Width(size) |-> <<0, (size \div Power[Width(size) - i]) % DecBase>>]
    BY DEF Header, Width
  <1>3. ASSUME NEW i \in 1 .. Width(size)
        PROVE  <<0, (size \div Power[Width(size) - i]) % DecBase>> \in WireByte
    <2>1. Width(size) - i \in Nat
      BY <1>1
    <2>2. Power[Width(size) - i] \in Nat \ {0}
      BY <2>1, PowerValues
    <2>3. (size \div Power[Width(size) - i]) % DecBase \in Nat
      BY <2>2, OneDigit
    <2>4. QED
      BY <2>3 DEF WireByte
  <1> HIDE DEF Width
  <1>4. Header(size) \in [1 .. Width(size) -> WireByte]
    BY <1>2, <1>3
  <1>5. Header(size) \in Seq(WireByte) /\ Len(Header(size)) = Width(size)
    BY <1>1, <1>4
  <1>6. QED
    BY <1>1, <1>2, <1>5

\* What atoi reads from a header is the size that was written into it.
LEMMA HeaderRead ==
    ASSUME NEW size \in Nat, ~TooLarge(size)
    PROVE  atoi(Header(size)) = size
  <1> DEFINE h == Header(size)
  <1>1. /\ h \in Seq(WireByte) /\ Len(h) = HeaderSize
        /\ \A i \in 1 .. HeaderSize : h[i] = <<0, (size \div Power[HeaderSize - i]) % DecBase>>
    BY HeaderBytes
  <1> HIDE DEF h
  <1>2. PICK v : /\ v = [n \in 0 .. Len(h) |->
                           IF n = 0 THEN 0
                           ELSE IF \A i \in 1 .. n : h[i][1] = 0
                                THEN DecBase * v[n - 1] + h[n][2]
                                ELSE v[n - 1]]
                 /\ atoi(h) = v[Len(h)]
    BY <1>1, AtoiDefined
  <1>3. HeaderSize \in Nat
    BY LogWireAssumption
  <1> DEFINE T == {n \in Nat : n <= HeaderSize => v[n] = size \div Power[HeaderSize - n]}
  <1>4. 0 \in T
    <2>1. v[0] = 0
      BY <1>1, <1>2, <1>3
    <2>2. Power[HeaderSize] \in Nat \ {0} /\ size < Power[HeaderSize]
      BY <1>3, PowerValues DEF TooLarge
    <2>3. size \div Power[HeaderSize] = 0
      BY <2>2
    <2>4. HeaderSize - 0 = HeaderSize
      BY <1>3
    <2>5. QED
      BY <2>1, <2>3, <2>4
  <1>5. ASSUME NEW n \in Nat, n \in T
        PROVE  n + 1 \in T
    <2>1. SUFFICES ASSUME n + 1 <= HeaderSize
                   PROVE  v[n + 1] = size \div Power[HeaderSize - (n + 1)]
      OBVIOUS
    <2> DEFINE m == HeaderSize - (n + 1)
    <2>2. /\ m \in Nat /\ HeaderSize - n = m + 1
          /\ n + 1 \in 0 .. Len(h) /\ n + 1 # 0 /\ (n + 1) - 1 = n
          /\ n + 1 \in 1 .. HeaderSize /\ 1 .. n + 1 \subseteq 1 .. HeaderSize
      BY <1>1, <1>3, <2>1
    <2>3. v[n + 1] = IF \A i \in 1 .. n + 1 : h[i][1] = 0
                     THEN DecBase * v[n] + h[n + 1][2] ELSE v[n]
      BY <1>2, <2>2
    <2>4. \A i \in 1 .. HeaderSize : h[i][1] = 0
      BY <1>1
    <2>5. h[n + 1][2] = (size \div Power[m]) % DecBase
      BY <1>1, <2>2
    <2>6. v[n] = size \div (DecBase * Power[m]) /\ Power[m] \in Nat \ {0}
      <3>1. v[n] = size \div Power[HeaderSize - n]
        BY <1>3, <1>5, <2>1
      <3>2. Power[m + 1] = DecBase * Power[m] /\ Power[m] \in Nat \ {0}
        BY <2>2, PowerValues
      <3> HIDE DEF m
      <3>3. QED
        BY <2>2, <3>1, <3>2
    <2>7. v[n + 1] = DecBase * v[n] + h[n + 1][2]
      BY <2>2, <2>3, <2>4
    <2> HIDE DEF m
    <2>8. v[n + 1] = size \div Power[m]
      BY <2>5, <2>6, <2>7, OneDigit
    <2>9. QED
      BY <2>8 DEF m
  <1> HIDE DEF T
  <1>6. \A n \in Nat : n \in T
    BY <1>4, <1>5, NatInd
  <1>7. v[HeaderSize] = size \div Power[HeaderSize - HeaderSize]
    BY <1>3, <1>6 DEF T
  <1>8. HeaderSize - HeaderSize = 0 /\ size \div 1 = size
    BY <1>3
  <1>9. v[HeaderSize] = size
    BY <1>7, <1>8, PowerValues
  <1>10. QED
    BY <1>1, <1>2, <1>9 DEF h

LEMMA FrameBytes ==
    ASSUME NEW k \in Nat, logged[k].size \in Nat
    PROVE  /\ FrameSize(k) \in Nat \ {0} /\ Frame(k) \in Seq(WireByte)
           /\ Len(Frame(k)) = FrameSize(k)
           /\ \A p \in 1 .. FrameSize(k) :
                 Frame(k)[p] = IF p <= Width(logged[k].size) THEN Header(logged[k].size)[p]
                               ELSE <<k, p - Width(logged[k].size)>>
  <1> DEFINE size == logged[k].size
             text == [i \in 1 .. size |-> <<k, i>>]
  <1>1. /\ Width(size) \in Nat \ {0}
        /\ Header(size) \in Seq(WireByte) /\ Len(Header(size)) = Width(size)
    BY HeaderBytes
  <1>2. FrameSize(k) = Width(size) + size /\ Frame(k) = Header(size) \o text
    BY DEF FrameSize, Frame
  <1>3. text \in Seq(WireByte) /\ Len(text) = size
    <2>1. text \in [1 .. size -> WireByte]
      BY DEF WireByte
    <2>2. QED
      BY <2>1
  <1>4. \A i \in 1 .. size : text[i] = <<k, i>>
    OBVIOUS
  <1> HIDE DEF text, size
  <1>5. size \in Nat
    BY DEF size
  <1>6. /\ Frame(k) \in Seq(WireByte) /\ Len(Frame(k)) = Width(size) + size
        /\ \A p \in 1 .. Width(size) + size :
              Frame(k)[p] = IF p <= Width(size) THEN Header(size)[p] ELSE text[p - Width(size)]
    <2> DEFINE head == Header(size)
    <2>1. head \in Seq(WireByte) /\ Len(head) = Width(size) /\ Frame(k) = head \o text
      BY <1>1, <1>2
    <2> HIDE DEF head
    <2>2. /\ head \o text \in Seq(WireByte) /\ Len(head \o text) = Len(head) + Len(text)
          /\ \A p \in 1 .. Len(head) + Len(text) :
                (head \o text)[p] = IF p <= Len(head) THEN head[p] ELSE text[p - Len(head)]
      BY <1>3, <2>1, ConcatProperties
    <2>3. QED
      BY <1>3, <2>1, <2>2 DEF head
  <1>7. ASSUME NEW p \in 1 .. FrameSize(k)
        PROVE  Frame(k)[p] = IF p <= Width(size) THEN Header(size)[p]
                             ELSE <<k, p - Width(size)>>
    <2>1. ~(p <= Width(size)) => p - Width(size) \in 1 .. size
      BY <1>1, <1>2, <1>5
    <2>2. QED
      BY <1>2, <1>4, <1>6, <2>1
  <1>8. QED
    BY <1>1, <1>2, <1>5, <1>6, <1>7 DEF size

-----------------------------------------------------------------------------
(* Messages, in text and out of it again.                                   *)

\* unhex takes back what hex has done.
LEMMA HexUndone ==
    ASSUME NEW raw \in Seq(Byte)
    PROVE  IsHex(hex(raw)) /\ unhex(hex(raw)) = raw
  <1> DEFINE digits == hex(raw)
  <1>1. Len(raw) \in Nat /\ HexBase \in Nat \ {0, 1} /\ \A i \in 1 .. Len(raw) : raw[i] \in Nat
    BY LogMessageAssumption DEF Byte
  <1>2. digits = [i \in 1 .. 2 * Len(raw) |->
                    IF i % 2 = 1 THEN raw[(i + 1) \div 2] \div HexBase
                    ELSE raw[i \div 2] % HexBase]
    BY DEF hex
  <1> HIDE DEF digits
  <1>3. ASSUME NEW i \in 1 .. 2 * Len(raw)
        PROVE  digits[i] \in Nat
    <2>1. i % 2 = 1 => (i + 1) \div 2 \in 1 .. Len(raw)
      BY <1>1
    <2>2. i % 2 # 1 => i \div 2 \in 1 .. Len(raw)
      BY <1>1
    <2>3. \A a \in Nat : a \div HexBase \in Nat /\ a % HexBase \in Nat
      BY <1>1
    <2>4. QED
      BY <1>1, <1>2, <2>1, <2>2, <2>3
  <1>4. Len(digits) = 2 * Len(raw)
    <2>1. digits \in [1 .. 2 * Len(raw) -> Nat] /\ 2 * Len(raw) \in Nat
      BY <1>1, <1>2, <1>3
    <2>2. QED
      BY <2>1
  <1>5. ASSUME NEW i \in 1 .. Len(raw)
        PROVE  digits[2 * i - 1] = raw[i] \div HexBase /\ digits[2 * i] = raw[i] % HexBase
    <2>1. /\ 2 * i - 1 \in 1 .. 2 * Len(raw) /\ (2 * i - 1) % 2 = 1
          /\ ((2 * i - 1) + 1) \div 2 = i
          /\ 2 * i \in 1 .. 2 * Len(raw) /\ (2 * i) % 2 # 1 /\ (2 * i) \div 2 = i
      BY <1>1
    <2>2. QED
      BY <1>2, <2>1
  <1>6. \A a \in Nat : HexBase * (a \div HexBase) + (a % HexBase) = a
    BY <1>1
  <1>7. \A i \in 1 .. Len(raw) : HexBase * digits[2 * i - 1] + digits[2 * i] = raw[i]
    BY <1>1, <1>5, <1>6
  <1>8. Len(digits) \div 2 = Len(raw) /\ Len(digits) % 2 = 0
    BY <1>1, <1>4
  <1>9. unhex(digits) = [i \in 1 .. Len(raw) |-> raw[i]]
    BY <1>7, <1>8 DEF unhex
  <1>10. raw = [i \in 1 .. Len(raw) |-> raw[i]]
    OBVIOUS
  <1>11. QED
    BY <1>8, <1>9, <1>10 DEF digits, IsHex

LEMMA NowBytes ==
    ASSUME NEW n \in Nat
    PROVE  Now(n) \in Seq(Byte) /\ Len(Now(n)) = RepSize
  <1>1. HexBase * HexBase \in Nat \ {0} /\ RepSize \in Nat
    BY LogMessageAssumption
  <1>2. n % (HexBase * HexBase) \in Byte
    BY <1>1 DEF Byte
  <1>3. Now(n) \in [1 .. RepSize -> Byte]
    BY <1>2 DEF Now
  <1>4. QED
    BY <1>1, <1>3

\* The members of a message that is logged.
LEMMA BuiltMembers ==
    ASSUME NEW e, NEW k
    PROVE  Built(e, k) =
               [type |-> IF e.exc = NoException THEN "Info" ELSE "Error",
                build_info |-> "here", process_info |-> "program", time |-> Now(k),
                message |-> <<e.size>>,
                exception_info |-> IF e.exc = NoException THEN <<>>
                                   ELSE <<ExceptionInfo(e.exc)>>]
  BY DEF Built, NewMessage, NewMessageWithException

\* What synthetize makes of the text of a message.
LEMMA TextRead ==
    ASSUME NEW e, e.throws \in BOOLEAN, NEW k \in Nat
    PROVE  LET text == serialize(Built(e, k), e.throws)
               msg == synthetize(text, Now(0))
           IN /\ msg.type \in Types /\ Len(msg.time) = RepSize
              /\ IF e.throws THEN msg = SynthesisFailed(text, msg.time) ELSE msg = Built(e, k)
  <1> DEFINE built == Built(e, k)
             text == serialize(built, e.throws)
             msg == synthetize(text, Now(0))
  <1>1. CASE e.throws
    <2>1. text.json = FALSE
      BY <1>1 DEF serialize
    <2>2. msg = SynthesisFailed(text, Now(0))
      BY <2>1 DEF synthetize
    <2> HIDE DEF msg, text
    <2>3. msg.type = "Unknown" /\ msg.time = Now(0)
      BY <2>2 DEF SynthesisFailed, NewMessage
    <2>4. QED
      BY <1>1, <2>2, <2>3, NowBytes DEF Types, msg, text
  <1>2. CASE ~e.throws
    <2>1. /\ text.json = TRUE /\ text.node = M_jsonTemplate(built)
          /\ text.exception_info = ExceptionInfoWrapper(built)
      BY <1>2 DEF serialize
    <2> HIDE DEF text
    <2>2. /\ text.node.type = built.type /\ text.node.build_info = built.build_info
          /\ text.node.process_info = built.process_info /\ text.node.message = built.message
          /\ text.node.time = hex(built.time)
      BY <2>1 DEF M_jsonTemplate, SynthetizeTime
    <2>3. built.time = Now(k)
      BY BuiltMembers
    <2>4. IsHex(text.node.time) /\ unhex(text.node.time) = built.time
      BY <2>2, <2>3, NowBytes, HexUndone
    <2>5. ExtractsTime(text.node.time)
      BY <2>3, <2>4, NowBytes DEF ExtractsTime
    <2>6. msg = [type |-> built.type, build_info |-> built.build_info,
                 process_info |-> built.process_info, time |-> built.time,
                 message |-> built.message,
                 exception_info |-> IF text.exception_info.set
                                    THEN <<text.exception_info.data>> ELSE <<>>]
      BY <2>1, <2>2, <2>4, <2>5 DEF synthetize
    <2>7. (IF text.exception_info.set THEN <<text.exception_info.data>> ELSE <<>>)
            = built.exception_info
      <3>1. built.exception_info = IF e.exc = NoException THEN <<>>
                                   ELSE <<ExceptionInfo(e.exc)>>
        BY BuiltMembers
      <3>2. CASE e.exc = NoException
        BY <2>1, <3>1, <3>2 DEF ExceptionInfoWrapper, Unset
      <3>3. CASE e.exc # NoException
        BY <2>1, <3>1, <3>3 DEF ExceptionInfoWrapper
      <3>4. QED
        BY <3>2, <3>3
    <2>8. msg = built
      <3> HIDE DEF msg
      <3>1. QED
        BY <2>6, <2>7, BuiltMembers
    <2>9. built.type \in Types /\ Len(built.time) = RepSize
      BY <2>3, BuiltMembers, NowBytes DEF Types
    <2>10. QED
      BY <1>2, <2>8, <2>9 DEF text
  <1>3. QED
    BY <1>1, <1>2

\* What synthetize makes of a text that is none of a message.
LEMMA OtherTextRead ==
    ASSUME NEW text, text.json = FALSE
    PROVE  /\ synthetize(text, Now(0)).type \in Types
           /\ Len(synthetize(text, Now(0)).time) = RepSize
  <1> DEFINE msg == synthetize(text, Now(0))
  <1>1. msg = SynthesisFailed(text, Now(0))
    BY DEF synthetize
  <1> HIDE DEF msg
  <1>2. msg.type = "Unknown" /\ msg.time = Now(0)
    BY <1>1 DEF SynthesisFailed, NewMessage
  <1>3. Len(Now(0)) = RepSize
    BY NowBytes
  <1>4. QED
    BY <1>2, <1>3 DEF Types, msg

\* What is known of a message that was logged.
LEMMA LoggedMembers ==
    ASSUME LoggedInv, NEW k \in 1 .. Len(logged)
    PROVE  /\ logged[k].size \in Nat \ {0} /\ logged[k].throws \in BOOLEAN
           /\ logged[k].msg.type \in Types
           /\ \E e \in Entries : logged[k] = Entry(e, k)
  <1>1. PICK e \in Entries : logged[k] = Entry(e, k)
    BY DEF LoggedInv
  <1>2. logged[k].size = e.size /\ logged[k].throws = e.throws /\ logged[k].msg = Built(e, k)
    BY <1>1 DEF Entry
  <1>3. Built(e, k).type \in Types
    BY BuiltMembers DEF Types
  <1>4. QED
    BY <1>1, <1>2, <1>3, LogWireAssumption

\* The bytes of a text are read as that text.
LEMMA TextOfWhole ==
    ASSUME LoggedInv, NEW k \in 1 .. Len(logged)
    PROVE  TextOf([i \in 1 .. logged[k].size |-> <<k, i>>]) = logged[k].text
  <1> DEFINE bytes == [i \in 1 .. logged[k].size |-> <<k, i>>]
  <1>1. DOMAIN logged = 1 .. Len(logged)
    BY DEF LoggedInv
  <1>2. 1 \in 1 .. logged[k].size
    BY LoggedMembers
  <1>3. bytes[1][1] = k
    BY <1>2
  <1>4. \E j \in DOMAIN logged : bytes = [i \in 1 .. logged[j].size |-> <<j, i>>]
    BY <1>1
  <1> HIDE DEF bytes
  <1>5. TextOf(bytes) = logged[bytes[1][1]].text
    BY <1>4 DEF TextOf
  <1>6. QED
    BY <1>3, <1>5 DEF bytes

\* What a subscriber is given for the text of the k-th message.
LEMMA LoggedRead ==
    ASSUME LoggedInv, NEW k \in 1 .. Len(logged)
    PROVE  /\ synthetize(logged[k].text, Now(0)).type \in Types
           /\ Len(synthetize(logged[k].text, Now(0)).time) = RepSize
           /\ Faithful(synthetize(logged[k].text, Now(0)), k)
  <1>1. PICK e \in Entries : logged[k] = Entry(e, k)
    BY LoggedMembers
  <1>2. /\ logged[k].throws = e.throws /\ logged[k].msg = Built(e, k)
        /\ logged[k].text = serialize(Built(e, k), e.throws)
    BY <1>1 DEF Entry
  <1>3. k \in Nat /\ e.throws \in BOOLEAN
    BY LogWireAssumption DEF LoggedInv
  <1> DEFINE text == serialize(Built(e, k), e.throws)
             msg == synthetize(text, Now(0))
  <1>4. /\ msg.type \in Types /\ Len(msg.time) = RepSize
        /\ IF e.throws THEN msg = SynthesisFailed(text, msg.time) ELSE msg = Built(e, k)
    BY <1>3, TextRead
  <1> HIDE DEF msg
  <1>5. Faithful(msg, k)
    BY <1>2, <1>4 DEF Faithful
  <1>6. QED
    BY <1>2, <1>4, <1>5 DEF msg

-----------------------------------------------------------------------------
(* The type invariant.                                                      *)

LEMMA ReceivedMembers ==
    ASSUME NEW m \in Received
    PROVE  m.type \in Types /\ Len(m.time) = RepSize
  <1>1. CASE m = synthetize([json |-> FALSE, text |-> "garbled"], Now(0))
    <2> DEFINE text == [json |-> FALSE, text |-> "garbled"]
    <2>1. text.json = FALSE
      OBVIOUS
    <2> HIDE DEF text
    <2>2. synthetize(text, Now(0)).type \in Types /\ Len(synthetize(text, Now(0)).time) = RepSize
      BY <2>1, OtherTextRead
    <2>3. QED
      BY <1>1, <2>2 DEF text
  <1>2. CASE \E entry \in LogEntry : m = synthetize(entry.text, Now(0))
    <2>1. PICK e \in Entries, k \in Nat : m = synthetize(Entry(e, k).text, Now(0))
      BY <1>2 DEF LogEntry
    <2>2. Entry(e, k).text = serialize(Built(e, k), e.throws) /\ e.throws \in BOOLEAN
      BY LogWireAssumption DEF Entry
    <2>3. QED
      BY <2>1, <2>2, TextRead
  <1>3. QED
    BY <1>1, <1>2 DEF Received

LEMMA ReadReceived ==
    ASSUME LoggedInv, NEW bytes
    PROVE  synthetize(TextOf(bytes), Now(0)) \in Received
  <1>1. DOMAIN logged = 1 .. Len(logged) /\ \A k \in 1 .. Len(logged) : logged[k] \in LogEntry
    BY DEF LoggedInv
  <1>2. CASE \E k \in DOMAIN logged : bytes = [i \in 1 .. logged[k].size |-> <<k, i>>]
    <2>1. PICK k \in 1 .. Len(logged) : bytes = [i \in 1 .. logged[k].size |-> <<k, i>>]
      BY <1>1, <1>2
    <2>2. TextOf(bytes) = logged[k].text
      BY <2>1, TextOfWhole
    <2>3. QED
      BY <1>1, <2>2 DEF Received
  <1>3. CASE ~\E k \in DOMAIN logged : bytes = [i \in 1 .. logged[k].size |-> <<k, i>>]
    <2>1. TextOf(bytes) = [json |-> FALSE, text |-> "garbled"]
      BY <1>3 DEF TextOf
    <2>2. QED
      BY <2>1 DEF Received
  <1>4. QED
    BY <1>2, <1>3

LEMMA TypesAndInv ==
    ASSUME TypeInv, LoggedInv, QueueInv
    PROVE  TypeOK
  <1>1. /\ DOMAIN logged = 1 .. Len(logged) /\ DOMAIN queue = 1 .. Len(queue)
        /\ DOMAIN posted = 1 .. Len(posted)
        /\ \A c \in Connections : DOMAIN got[c] = 1 .. Len(got[c])
    BY DEF TypeInv
  <1>2. \A k \in DOMAIN logged : logged[k].size \in Nat /\ logged[k].msg.type \in Types
    BY <1>1, LoggedMembers
  <1>3. client # "undefined" =>
           /\ \A i \in DOMAIN queue : queue[i] = Current + i - 1
           /\ \A i \in DOMAIN posted : posted[i] = Current + Len(queue) + i - 1
    BY <1>1 DEF QueueInv
  <1>4. ASSUME NEW c \in Connections
        PROVE  /\ session[c].state \in {"none", "header", "message", "gone"}
               /\ session[c].size \in Nat
               /\ first[c] \in Nat
               /\ \A i \in DOMAIN got[c] :
                     got[c][i].type \in Types /\ Len(got[c][i].time) = RepSize
    <2>1. \A i \in DOMAIN got[c] : got[c][i] \in Received
      BY <1>1 DEF TypeInv
    <2>2. QED
      BY <2>1, ReceivedMembers DEF TypeInv
  <1>5. QED
    BY <1>1, <1>2, <1>3, <1>4 DEF TypeOK, TypeInv

-----------------------------------------------------------------------------
(* What each action does to the queue, the connections and the types.       *)

LEMMA CurrentType ==
    ASSUME TypeInv
    PROVE  /\ Len(logged) \in Nat /\ Len(posted) \in Nat /\ Len(queue) \in Nat
           /\ Current \in 1 .. Len(logged) + 1
           /\ queue # <<>> => Current \in 1 .. Len(logged)
           /\ posted # <<>> => Current + Len(queue) \in 1 .. Len(logged)
  BY EmptySeq DEF TypeInv, Current

LEMMA Sizes ==
    ASSUME NEW size \in Nat \ {0}
    PROVE  /\ Width(size) \in Nat \ {0} /\ Width(size) >= HeaderSize
           /\ Width(size) + size \in Nat \ {0}
  <1>1. Width(size) \in Nat \ {0} /\ Width(size) >= HeaderSize
    BY LogWireAssumption DEF Width
  <1>2. QED
    BY <1>1

LEMMA FrameSizes ==
    ASSUME LoggedInv, NEW k \in 1 .. Len(logged)
    PROVE  FrameSize(k) \in Nat \ {0}
  BY LoggedMembers, Sizes DEF FrameSize

\* Log leaves what was logged before as it was, and puts one message behind it.
LEMMA LogAdds ==
    ASSUME TypeInv, LoggedInv, NEW e \in Entries, Log(e)
    PROVE  /\ logged' \in Seq(LogEntry) /\ Len(logged') = Len(logged) + 1
           /\ Len(logged') <= MaxLogged
           /\ \A k \in 1 .. Len(logged) : logged'[k] = logged[k]
           /\ logged'[Len(logged) + 1] = Entry(e, Len(logged) + 1)
  <1>1. logged' = Append(logged, Entry(e, Len(logged) + 1)) /\ Len(logged) + 1 <= MaxLogged
    BY DEF Log, Entry
  <1>2. Len(logged) \in Nat /\ Len(logged) + 1 \in Nat
    BY DEF TypeInv
  <1>3. Entry(e, Len(logged) + 1) \in LogEntry
    BY <1>2 DEF LogEntry
  <1>4. QED
    BY <1>1, <1>2, <1>3, AppendProperties DEF TypeInv

LEMMA LogBasics ==
    ASSUME Basics, NEW e \in Entries, Log(e)
    PROVE  Basics'
  <1> USE DEF Basics
  <1>1. /\ client \in {"waiting", "connected"}
        /\ \/ posted' = Append(posted, Len(logged) + 1) /\ client' = client
           \/ client' = "undefined" /\ posted' = posted
        /\ UNCHANGED <<queue, written, terminate, conn, first, left, wire, ended, session, got,
                       lost>>
    BY DEF Log, serverVars
  <1>2. /\ logged' \in Seq(LogEntry) /\ Len(logged') = Len(logged) + 1
        /\ Len(logged') <= MaxLogged
        /\ \A k \in 1 .. Len(logged) : logged'[k] = logged[k]
        /\ logged'[Len(logged) + 1] = Entry(e, Len(logged) + 1)
    BY LogAdds
  <1>3. /\ Len(logged) \in Nat /\ Len(posted) \in Nat /\ Len(queue) \in Nat
        /\ Len(posted) + Len(queue) <= Len(logged)
        /\ posted \in Seq(Nat) /\ left \subseteq 1 .. Len(logged) + 1
    BY DEF TypeInv
  <1>4. LoggedInv'
    BY <1>2, <1>3 DEF LoggedInv
  <1>5. CASE posted' = Append(posted, Len(logged) + 1) /\ client' = client
    <2>1. /\ posted' \in Seq(Nat) /\ Len(posted') = Len(posted) + 1
          /\ \A i \in 1 .. Len(posted) : posted'[i] = posted[i]
          /\ posted'[Len(posted) + 1] = Len(logged) + 1
      BY <1>3, <1>5, AppendProperties
    <2>2. TypeInv'
      BY <1>1, <1>2, <1>3, <1>5, <2>1 DEF TypeInv
    <2>3. Current' = Current /\ Current \in 1 .. Len(logged) + 1
      BY <1>1, <1>2, <1>3, <2>1 DEF Current
    <2>4. ASSUME NEW i \in 1 .. Len(posted')
          PROVE  posted'[i] = Current' + Len(queue') + i - 1
      <3>1. CASE i = Len(posted) + 1
        <4>1. posted'[i] = Len(logged) + 1
          BY <2>1, <3>1
        <4>2. Current' = Len(logged) - Len(posted) - Len(queue) + 1
          BY <2>3 DEF Current
        <4>3. QED
          BY <1>1, <1>3, <3>1, <4>1, <4>2
      <3>2. CASE i # Len(posted) + 1
        <4>1. i \in 1 .. Len(posted)
          BY <1>3, <2>1, <3>2
        <4>2. posted[i] = Current + Len(queue) + i - 1
          BY <1>1, <4>1 DEF QueueInv
        <4>3. QED
          BY <1>1, <2>1, <2>3, <4>1, <4>2
      <3>3. QED
        BY <3>1, <3>2
    <2>5. queue # <<>> => written < FrameSize(Current)'
      <3>1. SUFFICES ASSUME queue # <<>>
                     PROVE  written < FrameSize(Current)'
        OBVIOUS
      <3>2. Current \in 1 .. Len(logged)
        BY <3>1, CurrentType
      <3>3. logged'[Current'] = logged[Current]
        BY <1>2, <2>3, <3>2
      <3>4. written < FrameSize(Current)
        BY <1>1, <3>1 DEF QueueInv
      <3>5. QED
        BY <3>3, <3>4 DEF FrameSize
    <2>6. QueueInv'
      BY <1>1, <1>5, <2>3, <2>4, <2>5 DEF QueueInv
    <2>7. ConnInv'
      BY <1>1, <1>5 DEF ConnInv
    <2>8. QED
      BY <1>4, <2>2, <2>6, <2>7
  <1>6. CASE client' = "undefined" /\ posted' = posted
    <2>1. TypeInv'
      BY <1>1, <1>2, <1>3, <1>6 DEF TypeInv
    <2>2. QED
      BY <1>1, <1>4, <1>6, <2>1 DEF QueueInv, ConnInv
  <1>7. QED
    BY <1>1, <1>5, <1>6

\* The posted handler that is first puts the next message behind those in the queue.
LEMMA HandleMessageBasics ==
    ASSUME Basics, HandleMessage
    PROVE  Basics'
  <1> USE DEF Basics
  <1>1. /\ client # "undefined" /\ posted # <<>>
        /\ queue' = Append(queue, Head(posted)) /\ posted' = Tail(posted)
        /\ UNCHANGED <<logged, written, client, terminate, conn, first, left, wire, ended,
                       session, got, lost>>
    BY DEF HandleMessage, serverVars
  <1>2. /\ Len(logged) \in Nat /\ Len(posted) \in Nat \ {0} /\ Len(queue) \in Nat
        /\ Len(posted) + Len(queue) <= Len(logged)
        /\ posted \in Seq(Nat) /\ queue \in Seq(Nat)
    BY <1>1, EmptySeq DEF TypeInv
  <1>3. /\ posted' \in Seq(Nat) /\ Len(posted') = Len(posted) - 1
        /\ \A i \in 1 .. Len(posted') : posted'[i] = posted[i + 1] /\ i + 1 \in 1 .. Len(posted)
        /\ Head(posted) = posted[1] /\ Head(posted) \in Nat /\ 1 \in 1 .. Len(posted)
    BY <1>1, <1>2, HeadTailProperties
  <1>4. /\ queue' \in Seq(Nat) /\ Len(queue') = Len(queue) + 1
        /\ \A i \in 1 .. Len(queue) : queue'[i] = queue[i]
        /\ queue'[Len(queue) + 1] = Head(posted)
    BY <1>1, <1>2, <1>3, AppendProperties
  <1>5. Current' = Current /\ Current \in Int
    BY <1>1, <1>2, <1>3, <1>4 DEF Current
  <1>6. TypeInv'
    BY <1>1, <1>2, <1>3, <1>4 DEF TypeInv
  <1>7. LoggedInv' /\ ConnInv'
    BY <1>1 DEF LoggedInv, ConnInv
  <1>8. ASSUME NEW i \in 1 .. Len(queue')
        PROVE  queue'[i] = Current' + i - 1
    <2>1. CASE i = Len(queue) + 1
      <3>1. posted[1] = Current + Len(queue) + 1 - 1
        BY <1>1, <1>3 DEF QueueInv
      <3>2. QED
        BY <1>2, <1>3, <1>4, <1>5, <2>1, <3>1
    <2>2. CASE i # Len(queue) + 1
      <3>1. i \in 1 .. Len(queue)
        BY <1>2, <1>4, <2>2
      <3>2. QED
        BY <1>1, <1>4, <1>5, <3>1 DEF QueueInv
    <2>3. QED
      BY <2>1, <2>2
  <1>9. ASSUME NEW i \in 1 .. Len(posted')
        PROVE  posted'[i] = Current' + Len(queue') + i - 1
    <2>1. posted[i + 1] = Current + Len(queue) + (i + 1) - 1
      BY <1>1, <1>3 DEF QueueInv
    <2>2. QED
      BY <1>2, <1>3, <1>4, <1>5, <2>1
  <1>10. written < FrameSize(Current)'
    <2>1. FrameSize(Current)' = FrameSize(Current)
      BY <1>1, <1>5 DEF FrameSize
    <2>2. CASE queue # <<>>
      BY <1>1, <2>1, <2>2 DEF QueueInv
    <2>3. CASE queue = <<>>
      <3>1. written = 0
        BY <1>1, <2>3 DEF QueueInv
      <3>2. Current \in 1 .. Len(logged)
        BY <1>2, <2>3 DEF Current
      <3>3. QED
        BY <2>1, <3>1, <3>2, FrameSizes
    <2>4. QED
      BY <2>2, <2>3
  <1>11. queue' # <<>>
    BY <1>2, <1>4, EmptySeq
  <1>12. QueueInv'
    BY <1>1, <1>8, <1>9, <1>10, <1>11 DEF QueueInv
  <1>13. QED
    BY <1>6, <1>7, <1>12

LEMMA ConnectBasics ==
    ASSUME Basics, Connect
    PROVE  Basics'
  <1> USE DEF Basics
  <1>1. /\ client = "waiting" /\ client' = "connected" /\ conn < MaxConnections
        /\ conn' = conn + 1
        /\ first' = [first EXCEPT ![conn + 1] = Current]
        /\ session' = [session EXCEPT ![conn + 1].state = "header"]
        /\ UNCHANGED <<logged, posted, queue, written, terminate, left, wire, ended, got, lost>>
    BY DEF Connect
  <1>2. /\ conn \in Nat /\ conn + 1 \in Connections /\ conn + 1 \in 0 .. MaxConnections
        /\ Current \in Nat
    <2>1. conn \in Nat /\ conn + 1 \in Connections /\ conn + 1 \in 0 .. MaxConnections
      BY <1>1, LogWireAssumption DEF TypeInv, Connections
    <2>2. Current \in 1 .. Len(logged) + 1 /\ Len(logged) \in Nat
      BY CurrentType
    <2>3. QED
      BY <2>1, <2>2
  <1>3. TypeInv'
    BY <1>1, <1>2 DEF TypeInv
  <1>4. LoggedInv' /\ QueueInv'
    BY <1>1 DEF LoggedInv, QueueInv, Current, FrameSize
  <1>5. \A c \in Connections : c # conn + 1 => session'[c] = session[c]
    BY <1>1 DEF TypeInv
  <1>6. session'[conn + 1].state = "header"
    BY <1>1, <1>2 DEF TypeInv
  <1>7. ConnInv'
    <2>1. ASSUME NEW c \in Connections
          PROVE  /\ session'[c].state = "none" <=> c > conn'
                 /\ c > conn' => wire'[c] = <<>> /\ got'[c] = <<>> /\ c \notin ended'
      <3>1. c \in Int
        BY DEF Connections
      <3>2. CASE c = conn + 1
        BY <1>1, <1>2, <1>6, <3>2
      <3>3. CASE c # conn + 1
        <4>1. c > conn' <=> c > conn
          BY <1>1, <1>2, <3>1, <3>3
        <4>2. QED
          BY <1>1, <1>5, <3>3, <4>1 DEF ConnInv
      <3>4. QED
        BY <3>2, <3>3
    <2>2. conn' # 0
      BY <1>1, <1>2
    <2>3. QED
      BY <2>1, <2>2 DEF ConnInv
  <1>8. QED
    BY <1>3, <1>4, <1>7

\* The frame that is being written.
LEMMA HeadFrame ==
    ASSUME Basics, client = "connected", queue # <<>>
    PROVE  /\ Head(queue) = Current /\ Current \in 1 .. Len(logged)
           /\ Frame(Current) \in Seq(WireByte) /\ Len(Frame(Current)) = FrameSize(Current)
           /\ FrameSize(Current) \in Nat \ {0}
           /\ written \in Nat /\ written < FrameSize(Current)
  <1> USE DEF Basics
  <1>1. Current \in 1 .. Len(logged)
    BY CurrentType
  <1>2. Head(queue) = Current
    <2>1. Len(queue) \in Nat \ {0} /\ Len(logged) \in Nat
      BY EmptySeq DEF TypeInv
    <2>2. Head(queue) = queue[1]
      BY DEF TypeInv
    <2>3. queue[1] = Current + 1 - 1
      BY <2>1 DEF QueueInv
    <2>4. QED
      BY <1>1, <2>2, <2>3
  <1>3. Current \in Nat /\ logged[Current].size \in Nat
    BY <1>1, LoggedMembers, CurrentType
  <1>4. written \in Nat /\ written < FrameSize(Current)
    BY DEF QueueInv, TypeInv
  <1> HIDE DEF Basics
  <1>5. QED
    BY <1>1, <1>2, <1>3, <1>4, FrameBytes

\* What WriteSome does.
LEMMA WriteEffect ==
    ASSUME Basics, WriteSome
    PROVE  \E upto \in written + 1 .. FrameSize(Current) :
               /\ wire' = IF conn \in ended THEN wire
                          ELSE [wire EXCEPT ![conn] =
                                  @ \o SubSeq(Frame(Current), written + 1, upto)]
               /\ IF upto < FrameSize(Current)
                  THEN written' = upto /\ queue' = queue
                  ELSE written' = 0 /\ queue' = Tail(queue)
  <1>1. client = "connected" /\ queue # <<>>
    BY DEF WriteSome
  <1>2. Head(queue) = Current /\ Len(Frame(Current)) = FrameSize(Current)
    BY <1>1, HeadFrame
  <1>3. \E upto \in written + 1 .. Len(Frame(Head(queue))) :
            /\ wire' = IF conn \in ended THEN wire
                       ELSE [wire EXCEPT ![conn] =
                               @ \o SubSeq(Frame(Head(queue)), written + 1, upto)]
            /\ IF upto < Len(Frame(Head(queue)))
               THEN written' = upto /\ queue' = queue
               ELSE written' = 0 /\ queue' = Tail(queue)
    BY DEF WriteSome
  <1>4. QED
    BY <1>2, <1>3

LEMMA WriteBasics ==
    ASSUME Basics, WriteSome
    PROVE  Basics'
  <1> USE DEF Basics
  <1>1. /\ client = "connected" /\ queue # <<>>
        /\ UNCHANGED <<logged, posted, client, terminate, conn, first, left, ended, session, got,
                       lost>>
    BY DEF WriteSome, serverVars
  <1>2. PICK upto \in written + 1 .. FrameSize(Current) :
            /\ wire' = IF conn \in ended THEN wire
                       ELSE [wire EXCEPT ![conn] =
                               @ \o SubSeq(Frame(Current), written + 1, upto)]
            /\ IF upto < FrameSize(Current)
               THEN written' = upto /\ queue' = queue
               ELSE written' = 0 /\ queue' = Tail(queue)
    BY WriteEffect
  <1>3. /\ Current \in 1 .. Len(logged) /\ written \in Nat
        /\ Frame(Current) \in Seq(WireByte) /\ Len(Frame(Current)) = FrameSize(Current)
        /\ FrameSize(Current) \in Nat \ {0}
    BY <1>1, HeadFrame
  <1>4. conn \in Connections
    BY <1>1 DEF ConnInv, TypeInv, Connections
  <1>5. SubSeq(Frame(Current), written + 1, upto) \in Seq(WireByte)
    BY <1>3
  <1>6. wire' \in [Connections -> Seq(WireByte)]
    <2>1. wire[conn] \o SubSeq(Frame(Current), written + 1, upto) \in Seq(WireByte)
      BY <1>4, <1>5, ConcatProperties DEF TypeInv
    <2>2. QED
      BY <1>2, <1>4, <2>1 DEF TypeInv
  <1>7. /\ queue' \in Seq(Nat) /\ Len(posted) + Len(queue') <= Len(logged) /\ written' \in Nat
        /\ Len(queue) \in Nat \ {0} /\ Len(logged) \in Nat /\ Len(posted) \in Nat
        /\ Len(posted) + Len(queue) <= Len(logged)
    <2>1. /\ Len(queue) \in Nat \ {0} /\ Len(logged) \in Nat /\ Len(posted) \in Nat
          /\ Len(posted) + Len(queue) <= Len(logged)
      BY <1>1, EmptySeq DEF TypeInv
    <2>2. CASE upto < FrameSize(Current)
      BY <1>2, <1>3, <2>1, <2>2 DEF TypeInv
    <2>3. CASE ~(upto < FrameSize(Current))
      <3>1. written' = 0 /\ queue' = Tail(queue)
        BY <1>2, <2>3
      <3>2. Tail(queue) \in Seq(Nat) /\ Len(Tail(queue)) = Len(queue) - 1
        BY <1>1, HeadTailProperties DEF TypeInv
      <3>3. QED
        BY <2>1, <3>1, <3>2
    <2>4. QED
      BY <2>2, <2>3
  <1>8. TypeInv'
    BY <1>1, <1>6, <1>7 DEF TypeInv
  <1>9. LoggedInv'
    BY <1>1 DEF LoggedInv
  <1>10. QueueInv'
    <2>1. CASE upto < FrameSize(Current)
      BY <1>1, <1>2, <2>1 DEF QueueInv, Current, FrameSize
    <2>2. CASE ~(upto < FrameSize(Current))
      <3>1. written' = 0 /\ queue' = Tail(queue)
        BY <1>2, <2>2
      <3>2. /\ Len(queue') = Len(queue) - 1
            /\ \A i \in 1 .. Len(queue') : queue'[i] = queue[i + 1] /\ i + 1 \in 1 .. Len(queue)
        BY <1>1, <1>7, <3>1, HeadTailProperties DEF TypeInv
      <3>3. Current' = Current + 1
        BY <1>1, <1>7, <3>2 DEF Current
      <3>4. /\ \A i \in 1 .. Len(queue') : queue'[i] = Current' + i - 1
            /\ \A i \in 1 .. Len(posted') : posted'[i] = Current' + Len(queue') + i - 1
        <4>1. /\ \A i \in 1 .. Len(queue) : queue[i] = Current + i - 1
              /\ \A i \in 1 .. Len(posted) : posted[i] = Current + Len(queue) + i - 1
          BY <1>1 DEF QueueInv
        <4>2. ASSUME NEW i \in 1 .. Len(queue')
              PROVE  queue'[i] = Current' + i - 1
          <5>1. queue'[i] = Current + (i + 1) - 1
            BY <3>2, <4>1
          <5>2. QED
            BY <1>3, <3>3, <5>1
        <4>3. ASSUME NEW i \in 1 .. Len(posted')
              PROVE  posted'[i] = Current' + Len(queue') + i - 1
          <5>1. posted'[i] = Current + Len(queue) + i - 1
            BY <1>1, <4>1
          <5>2. QED
            BY <1>3, <1>7, <3>2, <3>3, <5>1
        <4>4. QED
          BY <4>2, <4>3
      <3>5. queue' # <<>> => FrameSize(Current)' \in Nat \ {0}
        <4>1. SUFFICES ASSUME queue' # <<>>
                       PROVE  FrameSize(Current)' \in Nat \ {0}
          OBVIOUS
        <4>2. Len(queue') \in Nat \ {0}
          BY <1>7, <4>1, EmptySeq
        <4>3. Current + 1 \in 1 .. Len(logged)
          <5>1. Current = Len(logged) - Len(posted) - Len(queue) + 1
            BY DEF Current
          <5>2. Len(queue) >= 2
            BY <1>7, <3>2, <4>2
          <5>3. QED
            BY <1>7, <5>1, <5>2
        <4>4. FrameSize(Current + 1) \in Nat \ {0}
          BY <4>3, FrameSizes
        <4>5. QED
          BY <1>1, <3>3, <4>4 DEF FrameSize
      <3>6. QED
        BY <1>1, <3>1, <3>4, <3>5 DEF QueueInv
    <2>3. QED
      BY <2>1, <2>2
  <1>11. ConnInv'
    <2>1. \A c \in Connections : c > conn => wire'[c] = wire[c]
      BY <1>2, <1>4 DEF TypeInv, Connections
    <2>2. QED
      BY <1>1, <2>1 DEF ConnInv
  <1>12. QED
    BY <1>8, <1>9, <1>10, <1>11

LEMMA LoseBasics ==
    ASSUME Basics, Lose
    PROVE  Basics'
  <1> USE DEF Basics
  <1>1. /\ client = "connected" /\ ended' = ended \union {conn} /\ lost' = TRUE
        /\ UNCHANGED <<logged, posted, queue, written, client, terminate, conn, first, left,
                       session, got>>
    BY DEF Lose, clientVars, serverVars
  <1>2. PICK n \in 0 .. Len(wire[conn]) : wire' = [wire EXCEPT ![conn] = SubSeq(@, 1, n)]
    BY DEF Lose
  <1>3. conn \in Connections
    BY <1>1 DEF ConnInv, TypeInv, Connections
  <1>4. SubSeq(wire[conn], 1, n) \in Seq(WireByte)
    BY <1>3 DEF TypeInv
  <1>5. TypeInv'
    BY <1>1, <1>2, <1>3, <1>4 DEF TypeInv
  <1>6. LoggedInv' /\ QueueInv'
    BY <1>1 DEF LoggedInv, QueueInv, Current, FrameSize
  <1>7. \A c \in Connections : c > conn => wire'[c] = wire[c] /\ c # conn
    BY <1>2, <1>3 DEF TypeInv, Connections
  <1>8. ConnInv'
    BY <1>1, <1>7 DEF ConnInv
  <1>9. QED
    BY <1>5, <1>6, <1>8

LEMMA ClientEndBasics ==
    ASSUME Basics, NoticeEnd \/ CloseSocket
    PROVE  Basics'
  <1> USE DEF Basics
  <1>1. /\ UNCHANGED <<logged, posted, queue, terminate, conn, first, left, wire, session, got,
                       lost>>
        /\ client \in {"waiting", "connected"} /\ client' \in {"waiting", "broken", "closed"}
        /\ client' = "waiting" => written' = 0
        /\ \/ written' = written
           \/ client = "connected" /\ written' = 0
        /\ \/ ended' = ended
           \/ client = "connected" /\ ended' = ended \union {conn}
    BY DEF NoticeEnd, CloseSocket, serverVars
  <1>2. client = "connected" => conn \in Connections
    BY DEF ConnInv, TypeInv, Connections
  <1>3. TypeInv'
    <2>1. written' \in Nat
      BY <1>1 DEF TypeInv
    <2>2. QED
      BY <1>1, <1>2, <2>1 DEF TypeInv
  <1>4. LoggedInv'
    BY <1>1 DEF LoggedInv
  <1>5. QueueInv'
    <2>1. Current' = Current /\ FrameSize(Current)' = FrameSize(Current)
      BY <1>1 DEF Current, FrameSize
    <2>2. queue # <<>> => written' < FrameSize(Current)
      <3>1. SUFFICES ASSUME queue # <<>>
                     PROVE  written' < FrameSize(Current)
        OBVIOUS
      <3>2. written < FrameSize(Current)
        BY <1>1, <3>1 DEF QueueInv
      <3>3. FrameSize(Current) \in Nat \ {0}
        BY <3>1, CurrentType, FrameSizes
      <3>4. QED
        BY <1>1, <3>2, <3>3
    <2>3. queue = <<>> => written' = 0
      BY <1>1 DEF QueueInv
    <2>4. QED
      BY <1>1, <2>1, <2>2, <2>3 DEF QueueInv
  <1>6. \A c \in Connections : c > conn => c # conn
    BY DEF TypeInv, Connections
  <1>7. ConnInv'
    BY <1>1, <1>6 DEF ConnInv
  <1>8. QED
    BY <1>3, <1>4, <1>5, <1>7

\* What ~Client leaves behind are messages that were logged.
LEMMA DestroyBasics ==
    ASSUME Basics, Destroy
    PROVE  Basics'
  <1> USE DEF Basics
  <1>1. /\ client \in {"waiting", "connected"} /\ terminate' = TRUE /\ left' = LeftBehind
        /\ UNCHANGED <<logged, posted, queue, written, client, conn, first, wire, ended, session,
                       got, lost>>
    BY DEF Destroy, serverVars
  <1>2. /\ Len(logged) \in Nat /\ Len(posted) \in Nat /\ Len(queue) \in Nat
        /\ Len(posted) + Len(queue) <= Len(logged)
        /\ DOMAIN posted = 1 .. Len(posted) /\ DOMAIN queue = 1 .. Len(queue)
    BY DEF TypeInv
  <1>3. ASSUME NEW k \in LeftBehind
        PROVE  k \in 1 .. Len(logged)
    <2>1. CASE k \in Range(posted)
      <3>1. PICK i \in 1 .. Len(posted) : k = posted[i]
        BY <1>2, <2>1 DEF Range
      <3>2. k = Current + Len(queue) + i - 1
        BY <1>1, <3>1 DEF QueueInv
      <3>3. QED
        BY <1>2, <3>2 DEF Current
    <2>2. CASE k \in Range(queue)
      <3>1. PICK i \in 1 .. Len(queue) : k = queue[i]
        BY <1>2, <2>2 DEF Range
      <3>2. k = Current + i - 1
        BY <1>1, <3>1 DEF QueueInv
      <3>3. QED
        BY <1>2, <3>2 DEF Current
    <2>3. QED
      BY <2>1, <2>2 DEF LeftBehind
  <1>4. TypeInv'
    BY <1>1, <1>3 DEF TypeInv
  <1>5. LoggedInv' /\ ConnInv'
    BY <1>1 DEF LoggedInv, ConnInv
  <1>6. QueueInv'
    BY <1>1 DEF QueueInv, Current, FrameSize
  <1>7. QED
    BY <1>4, <1>5, <1>6

\* What is left of the bytes of a connection when the first ones are read.
LEMMA RestOfWire ==
    ASSUME NEW w \in Seq(WireByte), NEW n \in Nat, n <= Len(w)
    PROVE  /\ SubSeq(w, 1, n) \in Seq(WireByte) /\ Len(SubSeq(w, 1, n)) = n
           /\ \A p \in 1 .. n : SubSeq(w, 1, n)[p] = w[p]
           /\ SubSeq(w, n + 1, Len(w)) \in Seq(WireByte)
           /\ Len(SubSeq(w, n + 1, Len(w))) = Len(w) - n
           /\ \A p \in 1 .. Len(w) - n : SubSeq(w, n + 1, Len(w))[p] = w[n + p]
  <1>1. Len(w) \in Nat
    OBVIOUS
  <1>2. SubSeq(w, 1, n) \in Seq(WireByte) /\ Len(SubSeq(w, 1, n)) = n
    BY <1>1
  <1>3. \A p \in 1 .. n : SubSeq(w, 1, n)[p] = w[p]
    BY <1>1
  <1>4. SubSeq(w, n + 1, Len(w)) \in Seq(WireByte)
    BY <1>1
  <1>5. Len(SubSeq(w, n + 1, Len(w))) = Len(w) - n
    BY <1>1
  <1>6. \A p \in 1 .. Len(w) - n : SubSeq(w, n + 1, Len(w))[p] = w[n + p]
    BY <1>1
  <1>7. QED
    BY <1>2, <1>3, <1>4, <1>5, <1>6

LEMMA ReadHeaderBasics ==
    ASSUME Basics, NEW c \in Connections, ReadHeader(c)
    PROVE  Basics'
  <1> USE DEF Basics
  <1> DEFINE size == atoi(SubSeq(wire[c], 1, HeaderSize))
  <1>1. /\ session[c].state = "header" /\ Len(wire[c]) >= HeaderSize
        /\ session' = [session EXCEPT ![c] = [state |-> "message", size |-> size]]
        /\ wire' = [wire EXCEPT ![c] = SubSeq(@, HeaderSize + 1, Len(@))]
        /\ UNCHANGED <<logged, posted, queue, written, client, terminate, conn, first, left,
                       ended, got, lost>>
    BY DEF ReadHeader, clientVars
  <1>2. wire[c] \in Seq(WireByte) /\ HeaderSize \in Nat
    BY LogWireAssumption DEF TypeInv
  <1>3. /\ SubSeq(wire[c], 1, HeaderSize) \in Seq(WireByte)
        /\ SubSeq(wire[c], HeaderSize + 1, Len(wire[c])) \in Seq(WireByte)
    BY <1>1, <1>2, RestOfWire
  <1>4. size \in Nat
    BY <1>3, AtoiNat
  <1> HIDE DEF size
  <1>5. TypeInv'
    BY <1>1, <1>3, <1>4 DEF TypeInv
  <1>6. LoggedInv' /\ QueueInv'
    BY <1>1 DEF LoggedInv, QueueInv, Current, FrameSize
  <1>7. ConnInv'
    <2>1. session'[c].state = "message" /\ ~(c > conn)
      BY <1>1 DEF TypeInv, ConnInv
    <2>2. \A d \in Connections : d # c => session'[d] = session[d] /\ wire'[d] = wire[d]
      BY <1>1 DEF TypeInv
    <2>3. QED
      BY <1>1, <2>1, <2>2 DEF ConnInv
  <1>8. QED
    BY <1>5, <1>6, <1>7

LEMMA ReadMessageBasics ==
    ASSUME Basics, NEW c \in Connections, ReadMessage(c)
    PROVE  Basics'
  <1> USE DEF Basics
  <1> DEFINE msg == synthetize(TextOf(SubSeq(wire[c], 1, session[c].size)), Now(0))
  <1>1. /\ session[c].state = "message" /\ Len(wire[c]) >= session[c].size
        /\ got' = [got EXCEPT ![c] = Append(@, msg)]
        /\ wire' = [wire EXCEPT ![c] = SubSeq(@, session[c].size + 1, Len(@))]
        /\ session' = [session EXCEPT ![c].state = "header"]
        /\ UNCHANGED <<logged, posted, queue, written, client, terminate, conn, first, left,
                       ended, lost>>
    BY DEF ReadMessage, clientVars
  <1>2. wire[c] \in Seq(WireByte) /\ session[c].size \in Nat /\ got[c] \in Seq(Received)
    BY DEF TypeInv
  <1>3. SubSeq(wire[c], session[c].size + 1, Len(wire[c])) \in Seq(WireByte)
    BY <1>1, <1>2, RestOfWire
  <1>4. msg \in Received
    BY ReadReceived
  <1> HIDE DEF msg
  <1>5. Append(got[c], msg) \in Seq(Received)
    BY <1>2, <1>4
  <1>6. TypeInv'
    <2>1. session' \in [Connections -> [state : {"none", "header", "message", "gone"}, size : Nat]]
      BY <1>1 DEF TypeInv
    <2>2. got' \in [Connections -> Seq(Received)] /\ wire' \in [Connections -> Seq(WireByte)]
      BY <1>1, <1>3, <1>5 DEF TypeInv
    <2>3. QED
      BY <1>1, <2>1, <2>2 DEF TypeInv
  <1>7. LoggedInv' /\ QueueInv'
    BY <1>1 DEF LoggedInv, QueueInv, Current, FrameSize
  <1>8. ConnInv'
    <2>1. session'[c].state = "header" /\ ~(c > conn)
      BY <1>1 DEF TypeInv, ConnInv
    <2>2. \A d \in Connections :
             d # c => session'[d] = session[d] /\ wire'[d] = wire[d] /\ got'[d] = got[d]
      BY <1>1 DEF TypeInv
    <2>3. QED
      BY <1>1, <2>1, <2>2 DEF ConnInv
  <1>9. QED
    BY <1>6, <1>7, <1>8

LEMMA ReadErrorBasics ==
    ASSUME Basics, NEW c \in Connections, ReadError(c)
    PROVE  Basics'
  <1> USE DEF Basics
  <1>1. /\ session[c].state \in {"header", "message"}
        /\ session' = [session EXCEPT ![c].state = "gone"]
        /\ UNCHANGED <<logged, posted, queue, written, client, terminate, conn, first, left,
                       wire, ended, got, lost>>
    BY DEF ReadError, clientVars
  <1>2. TypeInv'
    BY <1>1 DEF TypeInv
  <1>3. LoggedInv' /\ QueueInv'
    BY <1>1 DEF LoggedInv, QueueInv, Current, FrameSize
  <1>4. ConnInv'
    <2>1. session'[c].state = "gone" /\ ~(c > conn)
      BY <1>1 DEF TypeInv, ConnInv
    <2>2. \A d \in Connections : d # c => session'[d] = session[d]
      BY <1>1 DEF TypeInv
    <2>3. QED
      BY <1>1, <2>1, <2>2 DEF ConnInv
  <1>5. QED
    BY <1>2, <1>3, <1>4

LEMMA BasicsStep ==
    ASSUME Basics, [Next]_vars
    PROVE  Basics'
  <1>1. CASE \E e \in Entries : Log(e)
    BY <1>1, LogBasics
  <1>2. CASE Connect
    BY <1>2, ConnectBasics
  <1>3. CASE WriteSome
    BY <1>3, WriteBasics
  <1>4. CASE Lose
    BY <1>4, LoseBasics
  <1>5. CASE NoticeEnd \/ CloseSocket
    BY <1>5, ClientEndBasics
  <1>6. CASE Server
    BY <1>6, ReadHeaderBasics, ReadMessageBasics, ReadErrorBasics DEF Server, Serve
  <1>7. CASE UNCHANGED vars
    BY <1>7 DEF vars, Basics, TypeInv, LoggedInv, QueueInv, ConnInv, Current, FrameSize
  <1>8. CASE HandleMessage
    BY <1>8, HandleMessageBasics
  <1>9. CASE Destroy
    BY <1>9, DestroyBasics
  <1>10. QED
    BY <1>1, <1>2, <1>3, <1>4, <1>5, <1>6, <1>7, <1>8, <1>9 DEF Next, IoThread

LEMMA BasicsInit ==
    ASSUME Init
    PROVE  Basics
  <1>1. TypeInv
    <2>1. /\ logged \in Seq(LogEntry) /\ posted \in Seq(Nat) /\ queue \in Seq(Nat)
          /\ Len(logged) = 0 /\ Len(posted) = 0 /\ Len(queue) = 0
      BY DEF Init
    <2>2. /\ wire \in [Connections -> Seq(WireByte)] /\ got \in [Connections -> Seq(Received)]
          /\ first \in [Connections -> Nat]
      BY DEF Init
    <2>3. session \in [Connections -> [state : {"none", "header", "message", "gone"}, size : Nat]]
      BY DEF Init
    <2>4. MaxLogged \in Nat /\ MaxConnections \in Nat
      BY LogWireAssumption
    <2>5. /\ written = 0 /\ client = "waiting" /\ conn = 0 /\ ended = {} /\ lost = FALSE
          /\ terminate = FALSE /\ left = {}
      BY DEF Init
    <2>6. Len(logged) <= MaxLogged /\ Len(posted) + Len(queue) <= Len(logged) /\ conn \in 0 .. MaxConnections
      BY <2>1, <2>4, <2>5
    <2>7. lost \in BOOLEAN /\ terminate \in BOOLEAN
      BY <2>5
    <2>8. QED
      BY <2>1, <2>2, <2>3, <2>5, <2>6, <2>7 DEF TypeInv
  <1>2. LoggedInv /\ QueueInv
    BY <1>1 DEF Init, TypeInv, LoggedInv, QueueInv
  <1>3. ConnInv
    BY DEF Init, ConnInv, Connections
  <1>4. QED
    BY <1>1, <1>2, <1>3 DEF Basics

-----------------------------------------------------------------------------
(* What a session finds on its connection.                                  *)

LEMMA OffsetsGrow ==
    ASSUME NEW off, Offsets(off), Len(logged) \in Nat,
           NEW a \in 1 .. Len(logged) + 1, NEW b \in 1 .. Len(logged) + 1, a <= b
    PROVE  off[a] \in Nat /\ off[b] \in Nat /\ off[a] <= off[b] /\ (a < b => off[a] < off[b])
  <1>1. a \in Nat /\ b \in Nat
    OBVIOUS
  <1>2. off[a] \in Nat /\ off[b] \in Nat
    BY DEF Offsets
  <1>3. a < b => off[a] < off[b]
    BY DEF Offsets
  <1>4. QED
    BY <1>1, <1>2, <1>3

\* One byte is in one frame.
LEMMA OneFrame ==
    ASSUME NEW off, Offsets(off), Len(logged) \in Nat,
           NEW j \in 1 .. Len(logged), NEW k \in 1 .. Len(logged), j < k
    PROVE  off[j + 1] <= off[k]
  <1>1. j + 1 \in 1 .. Len(logged) + 1 /\ k \in 1 .. Len(logged) + 1 /\ j + 1 <= k
    OBVIOUS
  <1>2. QED
    BY <1>1, OffsetsGrow

\* A session that is in step reads the header of the message whose turn it is.
LEMMA HeaderNext ==
    ASSUME Basics, NEW off, Offsets(off),
           NEW c \in Connections, Aligned(c, off),
           session[c].state = "header", Len(wire[c]) >= HeaderSize
    PROVE  /\ Turn(c) \in 1 .. Len(logged)
           /\ ~TooLarge(logged[Turn(c)].size) =>
                 atoi(SubSeq(wire[c], 1, HeaderSize)) = logged[Turn(c)].size
  <1> DEFINE t == Turn(c)
             size == logged[t].size
  <1>1. /\ Len(logged) \in Nat /\ HeaderSize \in Nat \ {0}
        /\ wire[c] \in Seq(WireByte) /\ Len(wire[c]) \in Nat /\ LoggedInv
    BY LogWireAssumption DEF Basics, TypeInv
  <1>2. /\ t \in 1 .. Len(logged) + 1 /\ Place0(c, off) = off[t]
        /\ off[t] + Len(wire[c]) <= off[Len(logged) + 1]
    <2>1. t \in 1 .. Len(logged) + 1
      BY DEF Aligned
    <2>2. off[t] \in Nat
      BY <2>1 DEF Offsets
    <2>3. Place0(c, off) = off[t]
      BY <2>2 DEF Place0
    <2>4. QED
      BY <2>1, <2>3 DEF Aligned
  <1> HIDE DEF t
  <1>3. off[t] \in Nat /\ off[Len(logged) + 1] \in Nat /\ off[t] < off[Len(logged) + 1]
    <2>1. off[t] \in Nat /\ off[Len(logged) + 1] \in Nat
      BY <1>1, <1>2 DEF Offsets
    <2>2. QED
      BY <1>1, <1>2, <2>1
  <1>4. t \in 1 .. Len(logged)
    BY <1>1, <1>2, <1>3
  <1>5. ASSUME ~TooLarge(size)
        PROVE  SubSeq(wire[c], 1, HeaderSize) = Header(size)
    <2>1. size \in Nat \ {0} /\ t \in Nat
      BY <1>1, <1>4, LoggedMembers
    <2>2. Header(size) \in Seq(WireByte) /\ Len(Header(size)) = HeaderSize /\ Width(size) = HeaderSize
      BY <1>5, <2>1, HeaderBytes
    <2>3. /\ SubSeq(wire[c], 1, HeaderSize) \in Seq(WireByte)
          /\ Len(SubSeq(wire[c], 1, HeaderSize)) = HeaderSize
          /\ \A p \in 1 .. HeaderSize : SubSeq(wire[c], 1, HeaderSize)[p] = wire[c][p]
      BY <1>1, RestOfWire
    <2>4. off[t + 1] = off[t] + FrameSize(t) /\ FrameSize(t) = HeaderSize + size
      BY <1>4, <2>2 DEF Offsets, FrameSize
    <2>5. ASSUME NEW p \in 1 .. HeaderSize
          PROVE  wire[c][p] = Header(size)[p]
      <3>1. p \in 1 .. Len(wire[c]) /\ p \in 1 .. FrameSize(t)
        BY <1>1, <2>1, <2>4
      <3>2. wire[c][p] = Frame(t)[p]
        BY <1>2, <1>4, <3>1 DEF Aligned, InPlace
      <3>3. Frame(t)[p] = Header(size)[p]
        <4>1. Frame(t)[p] = IF p <= Width(size) THEN Header(size)[p] ELSE <<t, p - Width(size)>>
          BY <2>1, <3>1, FrameBytes
        <4>2. QED
          BY <2>2, <4>1
      <3>4. QED
        BY <3>2, <3>3
    <2> HIDE DEF size
    <2>6. QED
      BY <2>2, <2>3, <2>5, SeqEqual
  <1>6. ~TooLarge(size) => atoi(SubSeq(wire[c], 1, HeaderSize)) = size
    <2>1. size \in Nat
      BY <1>1, <1>4, LoggedMembers
    <2>2. QED
      BY <1>5, <2>1, HeaderRead
  <1>7. QED
    BY <1>4, <1>6 DEF t

\* And then it reads the text of that message; the client is past it.
LEMMA TextNext ==
    ASSUME Basics, NEW off, Offsets(off),
           NEW c \in Connections, Aligned(c, off), session[c].state = "message",
           ~TooLarge(logged[Turn(c)].size), Len(wire[c]) >= session[c].size
    PROVE  /\ Turn(c) \in 1 .. Len(logged) /\ session[c].size = logged[Turn(c)].size
           /\ off[Turn(c) + 1] = off[Turn(c)] + HeaderSize + session[c].size
           /\ SubSeq(wire[c], 1, session[c].size) =
                 [i \in 1 .. logged[Turn(c)].size |-> <<Turn(c), i>>]
           /\ Live(c) => Turn(c) < Current
  <1> DEFINE t == Turn(c)
             size == logged[t].size
  <1>1. /\ Len(logged) \in Nat /\ HeaderSize \in Nat \ {0}
        /\ wire[c] \in Seq(WireByte) /\ Len(wire[c]) \in Nat /\ LoggedInv
    BY LogWireAssumption DEF Basics, TypeInv
  <1>2. /\ t \in 1 .. Len(logged) /\ Place0(c, off) = off[t] + HeaderSize
        /\ session[c].size = size
    BY <1>1 DEF Aligned, Place0
  <1> HIDE DEF t
  <1>3. size \in Nat \ {0} /\ t \in Nat /\ off[t] \in Nat
    BY <1>1, <1>2, LoggedMembers DEF Offsets
  <1>4. Width(size) = HeaderSize /\ FrameSize(t) = HeaderSize + size
    BY <1>1 DEF Width, FrameSize, t
  <1>5. off[t + 1] = off[t] + HeaderSize + size
    BY <1>1, <1>2, <1>3, <1>4 DEF Offsets
  <1> DEFINE text == [i \in 1 .. size |-> <<t, i>>]
  <1>6. SubSeq(wire[c], 1, size) = text
    <2>1. /\ SubSeq(wire[c], 1, size) \in Seq(WireByte)
          /\ Len(SubSeq(wire[c], 1, size)) = size
          /\ \A p \in 1 .. size : SubSeq(wire[c], 1, size)[p] = wire[c][p]
      BY <1>1, <1>2, <1>3, RestOfWire
    <2>2. text \in Seq(WireByte) /\ Len(text) = size
      <3>1. text \in [1 .. size -> WireByte]
        BY <1>3 DEF WireByte
      <3>2. QED
        BY <1>3, <3>1
    <2>3. \A p \in 1 .. size : text[p] = <<t, p>>
      OBVIOUS
    <2>4. ASSUME NEW p \in 1 .. size
          PROVE  wire[c][p] = <<t, p>>
      <3> DEFINE i == HeaderSize + p
      <3>1. /\ p \in 1 .. Len(wire[c]) /\ i \in 1 .. FrameSize(t)
            /\ off[t] + HeaderSize + p = off[t] + i /\ ~(i <= HeaderSize) /\ i - HeaderSize = p
        BY <1>1, <1>2, <1>3, <1>4
      <3> HIDE DEF i
      <3>2. wire[c][p] = Frame(t)[i]
        BY <1>2, <3>1 DEF Aligned, InPlace
      <3>3. Frame(t)[i] = IF i <= Width(size) THEN Header(size)[i] ELSE <<t, i - Width(size)>>
        BY <1>3, <3>1, FrameBytes
      <3>4. QED
        BY <1>4, <3>1, <3>2, <3>3
    <2> HIDE DEF text, size
    <2>5. QED
      BY <2>1, <2>2, <2>3, <2>4, SeqEqual
  <1>7. Live(c) => t < Current
    <2>1. SUFFICES ASSUME Live(c)
                   PROVE  t < Current
      OBVIOUS
    <2>2. /\ t <= Current /\ off[t] + HeaderSize + Len(wire[c]) = off[Current] + written
          /\ Current \in 1 .. Len(logged) + 1 /\ written \in Nat
      BY <1>2, <2>1, CurrentType DEF Aligned, t, Basics, TypeInv
    <2>3. SUFFICES ASSUME t = Current
                   PROVE  FALSE
      BY <1>3, <2>2
    <2>4. written = HeaderSize + Len(wire[c])
      <3>1. off[t] + HeaderSize + Len(wire[c]) = off[t] + written
        BY <2>2, <2>3
      <3>2. \A x, y, z, w \in Nat : x + y + z = x + w => w = y + z
        OBVIOUS
      <3>3. off[t] \in Nat /\ HeaderSize \in Nat /\ Len(wire[c]) \in Nat /\ written \in Nat
        BY <1>1, <1>3, <2>2
      <3>4. QED
        BY <3>1, <3>2, <3>3
    <2>5. queue # <<>> /\ client # "undefined"
      BY <1>1, <2>1, <2>4 DEF Live, Basics, QueueInv
    <2>6. written < FrameSize(t)
      BY <2>3, <2>5 DEF Basics, QueueInv
    <2>7. QED
      BY <1>1, <1>2, <1>3, <1>4, <2>4, <2>6
  <1>8. QED
    BY <1>2, <1>5, <1>6, <1>7 DEF t

-----------------------------------------------------------------------------
(* The bytes on the connections stay those of the frames.                   *)

\* Nothing changes for a session that no byte comes to or leaves.
LEMMA SessionKept ==
    ASSUME NEW off, NEW c \in Connections, InStep(c) => Aligned(c, off),
           UNCHANGED <<logged, wire[c], session[c], got[c], first[c]>>,
           Live(c)' => Live(c) /\ UNCHANGED <<Current, written>>
    PROVE  InStep(c)' => Aligned(c, off)'
  <1>1. Turn(c)' = Turn(c)
    BY DEF Turn
  <1>2. InStep(c)' = InStep(c)
    BY <1>1 DEF InStep
  <1>3. Place0(c, off)' = Place0(c, off)
    BY <1>1 DEF Place0
  <1>4. InPlace(c, off) => InPlace(c, off)'
    <2>1. \A k : Frame(k)' = Frame(k) /\ FrameSize(k)' = FrameSize(k)
      BY DEF Frame, FrameSize
    <2>2. QED
      BY <1>3, <2>1 DEF InPlace
  <1>5. Live(c)' => /\ Aligned(c, off) => Turn(c)' <= Current'
                    /\ Aligned(c, off) => Place0(c, off)' + Len(wire'[c]) = off[Current'] + written'
    BY <1>1, <1>3 DEF Aligned
  <1>6. QED
    BY <1>1, <1>2, <1>3, <1>4, <1>5 DEF Aligned

LEMMA OffsetsKept ==
    ASSUME NEW off, Offsets(off), UNCHANGED logged
    PROVE  Offsets(off)'
  BY DEF Offsets, FrameSize

\* Steps that leave every byte where it is, and stop no client from being live.
LEMMA QuietStream ==
    ASSUME NEW off, StreamInv(off), UNCHANGED <<logged, wire, got, first>>,
           \A c \in Connections : session'[c] = session[c] \/ session'[c].state = "gone",
           \A c \in Connections : Live(c)' => Live(c) /\ UNCHANGED <<Current, written>>
    PROVE  StreamInv(off)'
  <1>1. Offsets(off)'
    BY OffsetsKept DEF StreamInv
  <1>2. ASSUME NEW c \in Connections
        PROVE  InStep(c)' => Aligned(c, off)'
    <2>1. CASE session'[c] = session[c]
      BY <2>1, SessionKept DEF StreamInv
    <2>2. CASE session'[c].state = "gone"
      BY <2>2 DEF InStep
    <2>3. QED
      BY <2>1, <2>2
  <1>3. QED
    BY <1>1, <1>2 DEF StreamInv

LEMMA PlaceType ==
    ASSUME Basics, NEW off, Offsets(off), NEW c \in Connections, Aligned(c, off)
    PROVE  off[Turn(c)] \in Nat /\ Place0(c, off) \in Nat
  <1>1. off[Turn(c)] \in Nat
    BY DEF Aligned, Offsets
  <1>2. QED
    BY <1>1, LogWireAssumption DEF Place0

LEMMA ConnectStream ==
    ASSUME Basics, NEW off, StreamInv(off), Connect
    PROVE  StreamInv(off)'
  <1>0. PICK d : d = conn + 1
    OBVIOUS
  <1>1. /\ client = "waiting" /\ conn < MaxConnections /\ conn' = d
        /\ first' = [first EXCEPT ![d] = Current]
        /\ session' = [session EXCEPT ![d].state = "header"]
        /\ UNCHANGED <<logged, posted, queue, written, wire, ended, got, lost>>
    BY <1>0 DEF Connect
  <1>2. /\ d \in Connections /\ d > conn /\ Len(logged) \in Nat
        /\ Current \in 1 .. Len(logged) + 1
    <2>1. conn \in Nat /\ MaxConnections \in Nat
      BY LogWireAssumption DEF Basics, TypeInv
    <2>2. d \in Connections /\ d > conn
      BY <1>0, <1>1, <2>1 DEF Connections
    <2>3. QED
      BY <2>2, CurrentType DEF Basics
  <1>3. Offsets(off)'
    BY <1>1, OffsetsKept DEF StreamInv
  <1>4. Current' = Current
    BY <1>1 DEF Current
  <1>5. ASSUME NEW c \in Connections, c # d
        PROVE  InStep(c)' => Aligned(c, off)'
    <2>1. UNCHANGED <<logged, wire[c], session[c], got[c], first[c]>>
      BY <1>1, <1>2, <1>5 DEF Basics, TypeInv
    <2>2. ~Live(c)'
      BY <1>1, <1>5 DEF Live
    <2>3. QED
      BY <2>1, <2>2, SessionKept DEF StreamInv
  <1>6. Aligned(d, off)'
    <2>1. /\ wire'[d] = <<>> /\ got'[d] = <<>> /\ first'[d] = Current
          /\ session'[d].state = "header" /\ written' = 0
      BY <1>1, <1>2 DEF Basics, TypeInv, ConnInv, QueueInv
    <2>2. off[Current] \in Nat /\ off[Len(logged) + 1] \in Nat /\ off[Current] <= off[Len(logged) + 1]
      BY <1>2, OffsetsGrow DEF StreamInv
    <2>3. Turn(d)' = Current
      BY <1>2, <2>1 DEF Turn
    <2>4. Place0(d, off)' = off[Current]
      BY <2>1, <2>2, <2>3 DEF Place0
    <2>5. Len(wire'[d]) = 0
      BY <2>1
    <2>6. InPlace(d, off)'
      BY <2>5 DEF InPlace
    <2>7. QED
      BY <1>1, <1>2, <1>4, <2>1, <2>2, <2>3, <2>4, <2>5, <2>6 DEF Aligned
  <1>7. QED
    BY <1>3, <1>5, <1>6 DEF StreamInv

LEMMA LoseStream ==
    ASSUME Basics, NEW off, StreamInv(off), Lose
    PROVE  StreamInv(off)'
  <1>1. /\ client = "connected" /\ ended' = ended \union {conn}
        /\ UNCHANGED <<logged, posted, queue, written, client, conn, first, session, got>>
    BY DEF Lose, clientVars, serverVars
  <1>2. PICK n \in 0 .. Len(wire[conn]) : wire' = [wire EXCEPT ![conn] = SubSeq(@, 1, n)]
    BY DEF Lose
  <1>3. conn \in Connections /\ Len(logged) \in Nat
    BY <1>1 DEF Basics, ConnInv, TypeInv, Connections
  <1>4. Offsets(off)'
    BY <1>1, OffsetsKept DEF StreamInv
  <1>5. \A c \in Connections : c # conn => wire'[c] = wire[c]
    BY <1>2 DEF Basics, TypeInv
  <1>6. ASSUME NEW c \in Connections, c # conn
        PROVE  InStep(c)' => Aligned(c, off)'
    <2>1. UNCHANGED <<logged, wire[c], session[c], got[c], first[c]>>
      BY <1>1, <1>5, <1>6
    <2>2. ~Live(c)'
      BY <1>1, <1>6 DEF Live
    <2>3. QED
      BY <2>1, <2>2, SessionKept DEF StreamInv
  <1>7. ASSUME NEW c \in Connections, c = conn, InStep(c)'
        PROVE  Aligned(c, off)'
    <2> DEFINE w == wire[c]
    <2>1. w \in Seq(WireByte) /\ Len(w) \in Nat /\ n \in Nat /\ n <= Len(w)
      BY <1>2, <1>7 DEF Basics, TypeInv
    <2>2. wire'[c] = SubSeq(w, 1, n)
      BY <1>2, <1>7 DEF Basics, TypeInv
    <2> HIDE DEF w
    <2>3. Len(wire'[c]) = n /\ \A p \in 1 .. n : wire'[c][p] = w[p]
      BY <2>1, <2>2, RestOfWire
    <2>4. Turn(c)' = Turn(c)
      BY <1>1 DEF Turn
    <2>5. InStep(c)
      BY <1>1, <1>7, <2>4 DEF InStep
    <2>6. Aligned(c, off)
      BY <2>5 DEF StreamInv
    <2>7. Place0(c, off)' = Place0(c, off)
      BY <1>1, <2>4 DEF Place0
    <2>8. Place0(c, off) \in Nat /\ off[Len(logged) + 1] \in Nat
      BY <1>3, <2>6, PlaceType DEF StreamInv, Offsets, Basics
    <2>9. Place0(c, off)' + Len(wire'[c]) <= off[Len(logged) + 1]
      BY <2>1, <2>3, <2>6, <2>7, <2>8 DEF Aligned, w
    <2>10. InPlace(c, off)'
      <3>1. \A k : Frame(k)' = Frame(k) /\ FrameSize(k)' = FrameSize(k)
        BY <1>1 DEF Frame, FrameSize
      <3>2. \A p \in 1 .. n : p \in 1 .. Len(w)
        BY <2>1
      <3>3. InPlace(c, off)
        BY <2>6 DEF Aligned
      <3>4. QED
        BY <1>1, <2>3, <2>7, <3>1, <3>2, <3>3 DEF InPlace, w
    <2>11. ~Live(c)'
      BY <1>1, <1>7 DEF Live
    <2>12. QED
      BY <1>1, <2>4, <2>6, <2>9, <2>10, <2>11 DEF Aligned
  <1>8. QED
    BY <1>1, <1>4, <1>6, <1>7 DEF StreamInv

\* A message that is logged extends the places by one.
LEMMA LogStream ==
    ASSUME Basics, NEW off, StreamInv(off), NEW e \in Entries, Log(e)
    PROVE  \E places : StreamInv(places)'
  <1>0. PICK n : n = Len(logged)
    OBVIOUS
  <1>1. /\ client \in {"waiting", "connected"}
        /\ \/ posted' = Append(posted, Len(logged) + 1) /\ client' = client
           \/ client' = "undefined" /\ posted' = posted
        /\ UNCHANGED <<queue, written, conn, first, wire, ended, session, got, lost>>
    BY DEF Log, serverVars
  <1>2. /\ Len(logged') = n + 1 /\ \A k \in 1 .. n : logged'[k] = logged[k]
        /\ logged'[n + 1] = Entry(e, n + 1)
        /\ DOMAIN logged = 1 .. n /\ DOMAIN logged' = 1 .. n + 1
    BY <1>0, LogAdds DEF Basics, TypeInv
  <1>3. n \in Nat /\ Len(queue) \in Nat /\ Len(posted) \in Nat /\ posted \in Seq(Nat)
    BY <1>0 DEF Basics, TypeInv
  <1>4. \A k \in 1 .. n : FrameSize(k)' = FrameSize(k) /\ Frame(k)' = Frame(k)
    BY <1>2 DEF FrameSize, Frame
  <1>5. PICK size \in Nat \ {0} : FrameSize(n + 1)' = size
    <2>1. logged'[n + 1].size \in Nat \ {0}
      BY <1>2, LogWireAssumption DEF Entry
    <2>2. QED
      BY <2>1, Sizes DEF FrameSize
  <1> DEFINE places == [k \in 1 .. n + 2 |-> IF k = n + 2 THEN off[n + 1] + size ELSE off[k]]
  <1>6. (\A k \in 1 .. n + 1 : places[k] = off[k]) /\ places[n + 2] = off[n + 1] + size
    BY <1>3
  <1> HIDE DEF places
  <1>7. off[n + 1] \in Nat /\ \A k \in 1 .. n + 1 : off[k] \in Nat /\ off[k] <= off[n + 1]
    BY <1>0, <1>3, OffsetsGrow DEF StreamInv
  <1>8. Offsets(places)'
    <2>1. ASSUME NEW k \in 1 .. n + 2
          PROVE  places[k] \in Nat
      BY <1>3, <1>5, <1>6, <1>7
    <2>2. ASSUME NEW k \in 1 .. n + 1
          PROVE  places[k + 1] = places[k] + FrameSize(k)'
      <3>1. CASE k = n + 1
        BY <1>3, <1>5, <1>6, <3>1
      <3>2. CASE k \in 1 .. n
        <4>1. off[k + 1] = off[k] + FrameSize(k)
          BY <1>0, <3>2 DEF StreamInv, Offsets
        <4>2. k + 1 \in 1 .. n + 1
          BY <1>3, <3>2
        <4>3. QED
          BY <1>4, <1>6, <3>2, <4>1, <4>2
      <3>3. QED
        BY <1>3, <3>1, <3>2
    <2>3. ASSUME NEW j \in 1 .. n + 2, NEW k \in 1 .. n + 2, j < k
          PROVE  places[j] < places[k]
      <3>1. j \in 1 .. n + 1
        BY <1>3, <2>3
      <3>2. CASE k = n + 2
        BY <1>5, <1>6, <1>7, <3>1, <3>2
      <3>3. CASE k \in 1 .. n + 1
        <4>1. off[j] < off[k]
          BY <1>0, <2>3, <3>1, <3>3 DEF StreamInv, Offsets
        <4>2. QED
          BY <1>6, <3>1, <3>3, <4>1
      <3>4. QED
        BY <1>3, <3>2, <3>3
    <2>4. Len(logged') + 1 = n + 2
      BY <1>2, <1>3
    <2>5. QED
      BY <1>2, <2>1, <2>2, <2>3, <2>4 DEF Offsets
  <1>9. ASSUME NEW c \in Connections, InStep(c)'
        PROVE  Aligned(c, places)'
    <2>1. Turn(c)' = Turn(c)
      BY <1>1 DEF Turn
    <2>2. InStep(c)
      <3>1. /\ session'[c] = session[c] /\ first'[c] = first[c]
            /\ \A k \in DOMAIN logged : k \in DOMAIN logged' /\ logged'[k] = logged[k]
        BY <1>1, <1>2, <1>3
      <3>2. QED
        BY <1>9, <2>1, <3>1 DEF InStep
    <2>3. Aligned(c, off)
      BY <2>2 DEF StreamInv
    <2>4. Turn(c) \in 1 .. n + 1 /\ Place0(c, off) \in Nat
      BY <1>0, <2>3, PlaceType DEF Aligned, StreamInv
    <2>5. Place0(c, places)' = Place0(c, off)
      BY <1>1, <1>6, <2>1, <2>4 DEF Place0
    <2>6. wire[c] \in Seq(WireByte) /\ Len(wire[c]) \in Nat
      BY DEF Basics, TypeInv
    <2>7. Place0(c, off) + Len(wire[c]) <= off[n + 1]
      BY <1>0, <2>3 DEF Aligned
    <2>8. Place0(c, places)' + Len(wire'[c]) <= places[n + 2]
      BY <1>1, <1>5, <1>6, <1>7, <2>4, <2>5, <2>6, <2>7
    <2>9. Live(c)' => /\ Turn(c)' <= Current'
                      /\ Place0(c, places)' + Len(wire'[c]) = places[Current'] + written'
      <3>1. SUFFICES ASSUME Live(c)'
                     PROVE  /\ Turn(c)' <= Current'
                            /\ Place0(c, places)' + Len(wire'[c]) = places[Current'] + written'
        OBVIOUS
      <3>2. posted' = Append(posted, Len(logged) + 1) /\ client' = client
        BY <1>1, <3>1 DEF Live
      <3>3. Len(posted') = Len(posted) + 1
        BY <1>0, <1>3, <3>2, AppendProperties
      <3>4. Current' = Current /\ Current \in 1 .. n + 1
        BY <1>0, <1>1, <1>2, <1>3, <3>3, CurrentType DEF Current, Basics
      <3>5. Live(c)
        BY <1>1, <3>1, <3>2 DEF Live
      <3>6. Turn(c) <= Current /\ Place0(c, off) + Len(wire[c]) = off[Current] + written
        BY <2>3, <3>5 DEF Aligned
      <3>7. QED
        BY <1>1, <1>6, <2>1, <2>5, <3>4, <3>6
    <2>10. InPlace(c, places)'
      <3>1. SUFFICES ASSUME NEW p \in 1 .. Len(wire[c]), NEW k \in 1 .. n + 1,
                            NEW i \in 1 .. FrameSize(k)', Place0(c, off) + p = places[k] + i
                     PROVE  wire[c][p] = Frame(k)'[i]
        BY <1>1, <1>2, <2>5 DEF InPlace
      <3>2. CASE k \in 1 .. n
        <4>1. i \in 1 .. FrameSize(k) /\ Place0(c, off) + p = off[k] + i
          BY <1>4, <1>6, <3>1, <3>2
        <4>2. InPlace(c, off)
          BY <2>3 DEF Aligned
        <4>3. QED
          BY <1>0, <1>4, <3>2, <4>1, <4>2 DEF InPlace
      <3>3. CASE k = n + 1
        <4>1. Place0(c, off) + p = off[n + 1] + i
          BY <1>3, <1>6, <3>1, <3>3
        <4>2. /\ Place0(c, off) \in Nat /\ Len(wire[c]) \in Nat /\ off[n + 1] \in Nat
              /\ p \in Nat /\ p <= Len(wire[c])
          BY <1>7, <2>4, <2>6, <3>1
        <4>3. i \in Nat /\ i > 0
          BY <1>5, <3>1, <3>3
        <4>4. \A x, y, z, a, b \in Nat : x + y <= z /\ a <= y /\ x + a = z + b => b = 0
          OBVIOUS
        <4>5. i = 0
          BY <2>7, <4>1, <4>2, <4>3, <4>4
        <4>6. QED
          BY <4>3, <4>5
      <3>4. QED
        BY <1>3, <3>2, <3>3
    <2>11. Turn(c)' \in 1 .. (n + 1) + 1
      BY <1>3, <2>1, <2>4
    <2>12. session'[c].state = "message" =>
              Turn(c)' <= n + 1 /\ session'[c].size = logged'[Turn(c)'].size
      BY <1>0, <1>1, <1>2, <1>3, <2>1, <2>3, <2>4 DEF Aligned
    <2>13. (n + 1) + 1 = n + 2
      BY <1>3
    <2>14. QED
      BY <1>2, <2>8, <2>9, <2>10, <2>11, <2>12, <2>13 DEF Aligned
  <1>10. QED
    BY <1>8, <1>9 DEF StreamInv

\* The bytes that the client writes are the next ones of its frame.
LEMMA WriteStream ==
    ASSUME Basics, NEW off, StreamInv(off), WriteSome
    PROVE  StreamInv(off)'
  <1>1. /\ client = "connected" /\ queue # <<>>
        /\ UNCHANGED <<logged, posted, client, terminate, conn, first, left, ended, session, got,
                       lost>>
    BY DEF WriteSome, serverVars
  <1>0. PICK at : at = Current
    OBVIOUS
  <1>2. PICK upto \in written + 1 .. FrameSize(at) :
            /\ wire' = IF conn \in ended THEN wire
                       ELSE [wire EXCEPT ![conn] = @ \o SubSeq(Frame(at), written + 1, upto)]
            /\ IF upto < FrameSize(at)
               THEN written' = upto /\ queue' = queue
               ELSE written' = 0 /\ queue' = Tail(queue)
    BY <1>0, WriteEffect
  <1>3. /\ at \in 1 .. Len(logged) /\ written \in Nat /\ Len(logged) \in Nat /\ LoggedInv
        /\ Frame(at) \in Seq(WireByte) /\ Len(Frame(at)) = FrameSize(at)
        /\ FrameSize(at) \in Nat \ {0}
    BY <1>0, <1>1, HeadFrame DEF Basics, TypeInv
  <1>4. Offsets(off) /\ Offsets(off)'
    BY <1>1, OffsetsKept DEF StreamInv
  <1>5. /\ off[at + 1] = off[at] + FrameSize(at) /\ off[at] \in Nat
        /\ off[Len(logged) + 1] \in Nat /\ off[at + 1] <= off[Len(logged) + 1]
    <2>1. off[at + 1] = off[at] + FrameSize(at) /\ off[at] \in Nat /\ off[Len(logged) + 1] \in Nat
      BY <1>3, <1>4 DEF Offsets
    <2>2. at + 1 \in 1 .. Len(logged) + 1 /\ at + 1 <= Len(logged) + 1
      BY <1>3
    <2>3. QED
      BY <1>3, <1>4, <2>1, <2>2, OffsetsGrow
  \* What was written stays where the next byte is put.
  <1>6. off[Current'] + written' = off[at] + upto /\ Current' \in {at, at + 1}
    <2>1. /\ Len(queue) \in Nat \ {0} /\ Len(Tail(queue)) = Len(queue) - 1
          /\ Len(posted) \in Nat /\ at = Len(logged) - Len(posted) - Len(queue) + 1
      BY <1>0, <1>1, EmptySeq, HeadTailProperties DEF Basics, TypeInv, Current
    <2>2. CASE upto < FrameSize(at)
      BY <1>0, <1>1, <1>2, <2>2 DEF Current
    <2>3. CASE ~(upto < FrameSize(at))
      <3>1. upto = FrameSize(at) /\ written' = 0 /\ queue' = Tail(queue)
        BY <1>2, <1>3, <2>3
      <3>2. Current' = at + 1
        BY <1>1, <1>3, <2>1, <3>1 DEF Current
      <3>3. QED
        BY <1>3, <1>5, <3>1, <3>2
    <2>4. QED
      BY <2>2, <2>3
  <1>7. \A k : Frame(k)' = Frame(k) /\ FrameSize(k)' = FrameSize(k)
    BY <1>1 DEF Frame, FrameSize
  <1>8. ASSUME NEW c \in Connections, ~Live(c)
        PROVE  InStep(c)' => Aligned(c, off)'
    <2>1. wire'[c] = wire[c]
      BY <1>1, <1>2, <1>8 DEF Live, Basics, TypeInv
    <2>2. ~Live(c)'
      BY <1>1, <1>8 DEF Live
    <2>3. QED
      BY <1>1, <2>1, <2>2, SessionKept DEF StreamInv
  <1>9. ASSUME NEW c \in Connections, Live(c), InStep(c)'
        PROVE  Aligned(c, off)'
    <2> DEFINE w == wire[c]
               more == SubSeq(Frame(at), written + 1, upto)
    <2>1. w \in Seq(WireByte) /\ Len(w) \in Nat /\ c = conn /\ c \notin ended
      BY <1>9 DEF Live, Basics, TypeInv
    <2>2. wire'[c] = w \o more
      BY <1>2, <2>1 DEF Basics, TypeInv
    <2>3. /\ more \in Seq(WireByte) /\ Len(more) = upto - written
          /\ \A j \in 1 .. upto - written : more[j] = Frame(at)[written + j]
      BY <1>2, <1>3
    <2> HIDE DEF w, more
    <2>4. /\ Len(wire'[c]) = Len(w) + (upto - written)
          /\ \A p \in 1 .. Len(w) + (upto - written) :
                wire'[c][p] = IF p <= Len(w) THEN w[p] ELSE more[p - Len(w)]
      <3>1. /\ Len(w \o more) = Len(w) + Len(more)
            /\ \A p \in 1 .. Len(w) + Len(more) :
                  (w \o more)[p] = IF p <= Len(w) THEN w[p] ELSE more[p - Len(w)]
        BY <2>1, <2>3, ConcatProperties
      <3>2. QED
        BY <2>2, <2>3, <3>1
    <2>5. Turn(c)' = Turn(c)
      BY <1>1 DEF Turn
    <2>6. InStep(c)
      BY <1>1, <1>9, <2>5 DEF InStep
    <2>7. Aligned(c, off)
      BY <2>6 DEF StreamInv
    <2>8. Place0(c, off)' = Place0(c, off) /\ Place0(c, off) \in Nat
      BY <1>1, <1>4, <2>5, <2>7, PlaceType DEF Place0
    <2>9. Turn(c) <= at /\ Place0(c, off) + Len(w) = off[at] + written
      BY <1>0, <1>9, <2>7 DEF Aligned, w
    <2>10. upto \in Nat /\ written < upto /\ upto <= FrameSize(at)
      BY <1>2, <1>3
    <2>11. Place0(c, off)' + Len(wire'[c]) = off[at] + upto
      <3>1. /\ Place0(c, off) \in Nat /\ Len(w) \in Nat /\ off[at] \in Nat
            /\ written \in Nat /\ upto \in Nat
        BY <1>3, <1>5, <2>1, <2>8, <2>10
      <3>2. Place0(c, off)' + Len(wire'[c]) = Place0(c, off) + (Len(w) + (upto - written))
        BY <2>4, <2>8
      <3>3. Place0(c, off) + (Len(w) + (upto - written)) = off[at] + upto
        BY <2>9, <3>1
      <3>4. QED
        BY <3>2, <3>3
    <2>12. Place0(c, off)' + Len(wire'[c]) <= off[Len(logged) + 1]
      BY <1>3, <1>5, <2>10, <2>11
    <2>13. Turn(c) <= Current'
      BY <1>3, <1>6, <2>7, <2>9 DEF Aligned
    <2>14. InPlace(c, off)'
      <3>1. SUFFICES ASSUME NEW p \in 1 .. Len(w) + (upto - written),
                            NEW k \in 1 .. Len(logged), NEW i \in 1 .. FrameSize(k),
                            Place0(c, off) + p = off[k] + i
                     PROVE  wire'[c][p] = Frame(k)[i]
        BY <1>1, <1>7, <2>4, <2>8, SMTT(30) DEF InPlace
      <3>2. CASE p <= Len(w)
        <4>1. p \in 1 .. Len(w) /\ wire'[c][p] = w[p]
          BY <2>1, <2>4, <3>2
        <4>2. InPlace(c, off)
          BY <2>7 DEF Aligned
        <4>3. QED
          BY <3>1, <4>1, <4>2 DEF InPlace, w
      <3>3. CASE ~(p <= Len(w))
        <4>1. PICK j \in 1 .. upto - written : p = Len(w) + j
          <5>1. p - Len(w) \in 1 .. upto - written /\ p = Len(w) + (p - Len(w))
            BY <1>3, <2>1, <2>10, <3>3
          <5>2. QED
            BY <5>1
        <4>2. wire'[c][p] = Frame(at)[written + j]
          <5>1. p - Len(w) = j
            BY <2>1, <4>1
          <5>2. QED
            BY <2>3, <2>4, <3>3, <5>1
        <4>3. off[at] + (written + j) = off[k] + i
          <5>1. /\ Place0(c, off) \in Nat /\ Len(w) \in Nat /\ off[at] \in Nat
                /\ written \in Nat /\ j \in Nat
            BY <1>3, <1>5, <2>1, <2>8, <2>10
          <5>2. Place0(c, off) + (Len(w) + j) = off[k] + i
            BY <3>1, <4>1
          <5>3. Place0(c, off) + (Len(w) + j) = off[at] + (written + j)
            BY <2>9, <5>1, SMTT(30)
          <5>4. QED
            BY <5>2, <5>3
        <4>4. FrameSize(k) \in Nat \ {0} /\ off[k] \in Nat /\ off[k + 1] = off[k] + FrameSize(k)
          BY <1>3, <1>4, FrameSizes DEF Offsets
        <4>5. ~(k < at)
          <5>1. SUFFICES ASSUME k < at
                         PROVE  FALSE
            OBVIOUS
          <5>2. off[k + 1] <= off[at]
            BY <1>3, <1>4, <5>1, OneFrame
          <5>3. off[k] + i <= off[at] /\ written + j \in Nat \ {0}
            BY <1>3, <1>5, <2>10, <4>4, <5>2, SMTT(30)
          <5>4. QED
            BY <1>5, <4>3, <4>4, <5>3
        <4>6. ~(at < k)
          <5>1. SUFFICES ASSUME at < k
                         PROVE  FALSE
            OBVIOUS
          <5>2. off[at + 1] <= off[k]
            BY <1>3, <1>4, <5>1, OneFrame
          <5>3. off[at] + (written + j) <= off[k]
            BY <1>3, <1>5, <2>10, <4>4, <5>2, SMTT(30)
          <5>4. QED
            BY <4>3, <4>4, <5>3
        <4>7. k = at
          BY <1>3, <4>5, <4>6
        <4>8. written + j = i
          BY <1>3, <1>5, <4>3, <4>4, <4>7
        <4>9. QED
          BY <4>2, <4>7, <4>8
      <3>4. QED
        BY <3>2, <3>3
    <2>15. Len(logged') = Len(logged) /\ session'[c] = session[c]
      BY <1>1
    <2>16. QED
      BY <1>1, <1>6, <2>5, <2>7, <2>11, <2>12, <2>13, <2>14, <2>15 DEF Aligned
  <1>10. QED
    BY <1>4, <1>8, <1>9 DEF StreamInv

\* A session that has read a header stands behind it.
LEMMA ReadHeaderStream ==
    ASSUME Basics, NEW off, StreamInv(off), NEW c \in Connections, ReadHeader(c)
    PROVE  StreamInv(off)'
  <1> DEFINE w == wire[c]
             size == atoi(SubSeq(wire[c], 1, HeaderSize))
  <1>1. /\ session[c].state = "header" /\ Len(wire[c]) >= HeaderSize
        /\ session' = [session EXCEPT ![c] = [state |-> "message", size |-> size]]
        /\ wire' = [wire EXCEPT ![c] = SubSeq(@, HeaderSize + 1, Len(@))]
        /\ UNCHANGED <<logged, posted, queue, written, client, terminate, conn, first, left,
                       ended, got, lost>>
    BY DEF ReadHeader, clientVars
  <1>2. /\ w \in Seq(WireByte) /\ Len(w) \in Nat /\ HeaderSize \in Nat /\ HeaderSize <= Len(w)
        /\ Len(logged) \in Nat /\ Offsets(off) /\ DOMAIN logged = 1 .. Len(logged)
    <2>1. w \in Seq(WireByte) /\ Len(logged) \in Nat /\ DOMAIN logged = 1 .. Len(logged)
      BY DEF Basics, TypeInv
    <2>2. HeaderSize \in Nat /\ Offsets(off)
      BY LogWireAssumption DEF StreamInv
    <2>3. QED
      BY <1>1, <2>1, <2>2
  <1>3. Offsets(off)'
    BY <1>1, OffsetsKept DEF StreamInv
  <1>4. ASSUME NEW d \in Connections, d # c
        PROVE  InStep(d)' => Aligned(d, off)'
    <2>1. wire'[d] = wire[d] /\ session'[d] = session[d]
      BY <1>1, <1>4 DEF Basics, TypeInv
    <2>2. Live(d)' => Live(d) /\ UNCHANGED <<Current, written>>
      BY <1>1 DEF Live, Current
    <2>3. QED
      BY <1>1, <2>1, <2>2, SessionKept DEF StreamInv
  <1>5. ASSUME InStep(c)'
        PROVE  Aligned(c, off)'
    <2>1. session'[c] = [state |-> "message", size |-> size]
      BY <1>1 DEF Basics, TypeInv
    <2> HIDE DEF w, size
    <2>2. session'[c].state = "message" /\ session'[c].size = size
      BY <2>1
    <2>3. Turn(c)' = Turn(c)
      BY <1>1 DEF Turn
    <2>4. InStep(c) /\ (Turn(c) \in DOMAIN logged => ~TooLarge(logged[Turn(c)].size))
      BY <1>1, <1>5, <2>2, <2>3 DEF InStep
    <2>5. Aligned(c, off)
      BY <2>4 DEF StreamInv
    <2>6. Turn(c) \in 1 .. Len(logged) /\ size = logged[Turn(c)].size
      BY <1>1, <1>2, <2>4, <2>5, HeaderNext DEF w, size
    <2>7. off[Turn(c)] \in Nat /\ Place0(c, off) = off[Turn(c)]
      <3>1. off[Turn(c)] \in Nat
        BY <1>2, <2>5, PlaceType
      <3>2. QED
        BY <1>1, <3>1 DEF Place0
    <2>8. Place0(c, off)' = off[Turn(c)] + HeaderSize
      BY <2>2, <2>3 DEF Place0
    <2>9. /\ Len(wire'[c]) = Len(w) - HeaderSize
          /\ \A p \in 1 .. Len(w) - HeaderSize : wire'[c][p] = w[HeaderSize + p]
      <3>1. wire'[c] = SubSeq(w, HeaderSize + 1, Len(w))
        BY <1>1 DEF w, Basics, TypeInv
      <3>2. QED
        BY <1>2, <3>1, RestOfWire
    <2>10. Place0(c, off)' + Len(wire'[c]) = Place0(c, off) + Len(w)
      BY <1>2, <2>7, <2>8, <2>9
    <2>11. InPlace(c, off)'
      <3>1. \A k : Frame(k)' = Frame(k) /\ FrameSize(k)' = FrameSize(k)
        BY <1>1 DEF Frame, FrameSize
      <3>2. SUFFICES ASSUME NEW p \in 1 .. Len(w) - HeaderSize,
                            NEW k \in 1 .. Len(logged), NEW i \in 1 .. FrameSize(k),
                            Place0(c, off)' + p = off[k] + i
                     PROVE  wire'[c][p] = Frame(k)[i]
        <4>1. Len(wire'[c]) = Len(w) - HeaderSize /\ Len(logged') = Len(logged)
          BY <1>1, <2>9
        <4>2. QED
          BY <3>1, <4>1 DEF InPlace
      <3>3. /\ HeaderSize + p \in 1 .. Len(w)
            /\ Place0(c, off)' + p = Place0(c, off) + (HeaderSize + p)
        BY <1>2, <2>7, <2>8
      <3>4. InPlace(c, off)
        BY <2>5 DEF Aligned
      <3>5. w[HeaderSize + p] = Frame(k)[i]
        BY <3>2, <3>3, <3>4 DEF InPlace, w
      <3>6. QED
        BY <2>9, <3>5
    <2>12. Live(c)' => Live(c) /\ Current' = Current /\ written' = written
      BY <1>1 DEF Live, Current
    <2>13. Turn(c) \in 1 .. Len(logged) + 1 /\ Turn(c) <= Len(logged)
      BY <1>2, <2>6
    <2>14. Live(c)' => Turn(c)' <= Current'
      BY <2>3, <2>5, <2>12 DEF Aligned
    <2>15. Live(c)' => Place0(c, off)' + Len(wire'[c]) = off[Current'] + written'
      BY <2>5, <2>10, <2>12 DEF Aligned, w
    <2>16. Place0(c, off)' + Len(wire'[c]) <= off[Len(logged) + 1]
      BY <2>5, <2>10 DEF Aligned, w
    <2>17. Turn(c)' <= Len(logged) /\ session'[c].size = logged[Turn(c)'].size
      BY <2>2, <2>3, <2>6, <2>13
    <2>18. QED
      BY <1>1, <2>3, <2>11, <2>13, <2>14, <2>15, <2>16, <2>17 DEF Aligned
  <1>6. QED
    BY <1>3, <1>4, <1>5 DEF StreamInv

\* A session that has read a text stands before the next header.
LEMMA ReadMessageStream ==
    ASSUME Basics, NEW off, StreamInv(off), NEW c \in Connections, ReadMessage(c)
    PROVE  StreamInv(off)'
  <1> DEFINE w == wire[c]
             size == session[c].size
             msg == synthetize(TextOf(SubSeq(wire[c], 1, session[c].size)), Now(0))
  <1>1. /\ session[c].state = "message" /\ Len(wire[c]) >= session[c].size
        /\ got' = [got EXCEPT ![c] = Append(@, msg)]
        /\ wire' = [wire EXCEPT ![c] = SubSeq(@, session[c].size + 1, Len(@))]
        /\ session' = [session EXCEPT ![c].state = "header"]
        /\ UNCHANGED <<logged, posted, queue, written, client, terminate, conn, first, left,
                       ended, lost>>
    BY DEF ReadMessage, clientVars
  <1>2. /\ w \in Seq(WireByte) /\ Len(w) \in Nat /\ size \in Nat /\ size <= Len(w)
        /\ HeaderSize \in Nat
        /\ Len(logged) \in Nat /\ Offsets(off) /\ DOMAIN logged = 1 .. Len(logged)
    <2>1. /\ w \in Seq(WireByte) /\ size \in Nat
          /\ Len(logged) \in Nat /\ DOMAIN logged = 1 .. Len(logged)
      BY DEF Basics, TypeInv
    <2>2. HeaderSize \in Nat /\ Offsets(off)
      BY LogWireAssumption DEF StreamInv
    <2>3. QED
      BY <1>1, <2>1, <2>2
  <1> HIDE DEF msg
  <1>3. Offsets(off)'
    BY <1>1, OffsetsKept DEF StreamInv
  <1>4. ASSUME NEW d \in Connections, d # c
        PROVE  InStep(d)' => Aligned(d, off)'
    <2>1. wire'[d] = wire[d] /\ session'[d] = session[d] /\ got'[d] = got[d]
      BY <1>1, <1>4 DEF Basics, TypeInv
    <2>2. Live(d)' => Live(d) /\ UNCHANGED <<Current, written>>
      BY <1>1 DEF Live, Current
    <2>3. QED
      BY <1>1, <2>1, <2>2, SessionKept DEF StreamInv
  <1>5. ASSUME InStep(c)'
        PROVE  Aligned(c, off)'
    <2>1. session'[c].state = "header"
      BY <1>1 DEF Basics, TypeInv
    <2> HIDE DEF w, size
    <2>2. Turn(c)' = Turn(c) + 1 /\ Turn(c) \in Nat
      <3>1. got[c] \in Seq(Received) /\ Len(got[c]) \in Nat /\ first[c] \in Nat
        BY DEF Basics, TypeInv
      <3>2. Len(got'[c]) = Len(got[c]) + 1
        BY <1>1, <3>1 DEF Basics, TypeInv
      <3>3. QED
        BY <1>1, <3>1, <3>2 DEF Turn
    <2>3. /\ \A k \in first[c] .. Turn(c) - 1 : k \in DOMAIN logged => ~TooLarge(logged[k].size)
          /\ Turn(c) \in DOMAIN logged => ~TooLarge(logged[Turn(c)].size)
      <3>1. \A k \in first[c] .. Turn(c) : k \in DOMAIN logged => ~TooLarge(logged[k].size)
        BY <1>1, <1>5, <2>2 DEF InStep
      <3>2. Turn(c) \in first[c] .. Turn(c) /\ first[c] .. Turn(c) - 1 \subseteq first[c] .. Turn(c)
        BY DEF Turn, Basics, TypeInv
      <3>3. QED
        BY <3>1, <3>2
    <2>4. InStep(c)
      BY <1>1, <2>3 DEF InStep
    <2>5. Aligned(c, off)
      BY <2>4 DEF StreamInv
    <2>6. Turn(c) \in 1 .. Len(logged)
      BY <1>1, <1>2, <2>2, <2>5 DEF Aligned
    <2>7. /\ off[Turn(c) + 1] = off[Turn(c)] + HeaderSize + size
          /\ Live(c) => Turn(c) < Current
      BY <1>1, <1>2, <2>3, <2>5, <2>6, TextNext DEF size
    <2>8. off[Turn(c)] \in Nat /\ Place0(c, off) = off[Turn(c)] + HeaderSize
      BY <1>1, <1>2, <2>5, PlaceType DEF Place0
    <2>9. Place0(c, off)' = Place0(c, off) + size
      BY <1>2, <2>1, <2>2, <2>7, <2>8 DEF Place0
    <2>10. /\ Len(wire'[c]) = Len(w) - size
           /\ \A p \in 1 .. Len(w) - size : wire'[c][p] = w[size + p]
      <3>1. wire'[c] = SubSeq(w, size + 1, Len(w))
        BY <1>1 DEF w, size, Basics, TypeInv
      <3>2. QED
        BY <1>2, <3>1, RestOfWire
    <2>11. Place0(c, off)' + Len(wire'[c]) = Place0(c, off) + Len(w)
      <3>1. Place0(c, off) \in Nat
        BY <1>2, <2>5, PlaceType
      <3>2. (Place0(c, off) + size) + (Len(w) - size) = Place0(c, off) + Len(w)
        BY <1>2, <3>1
      <3>3. QED
        BY <2>9, <2>10, <3>2
    <2>12. InPlace(c, off)'
      <3>1. \A k : Frame(k)' = Frame(k) /\ FrameSize(k)' = FrameSize(k)
        BY <1>1 DEF Frame, FrameSize
      <3>2. SUFFICES ASSUME NEW p \in 1 .. Len(w) - size,
                            NEW k \in 1 .. Len(logged), NEW i \in 1 .. FrameSize(k),
                            Place0(c, off)' + p = off[k] + i
                     PROVE  wire'[c][p] = Frame(k)[i]
        <4>1. Len(wire'[c]) = Len(w) - size /\ Len(logged') = Len(logged)
          BY <1>1, <2>10
        <4>2. QED
          BY <3>1, <4>1 DEF InPlace
      <3>3. /\ size + p \in 1 .. Len(w)
            /\ Place0(c, off)' + p = Place0(c, off) + (size + p)
        <4>1. Place0(c, off) \in Nat
          BY <1>2, <2>5, PlaceType
        <4>2. QED
          BY <1>2, <2>9, <4>1
      <3>4. InPlace(c, off)
        BY <2>5 DEF Aligned
      <3>5. w[size + p] = Frame(k)[i]
        BY <3>2, <3>3, <3>4 DEF InPlace, w
      <3>6. QED
        BY <2>10, <3>5
    <2>13. Live(c)' => Live(c) /\ Current' = Current /\ written' = written
      BY <1>1 DEF Live, Current
    <2>14. Turn(c)' \in 1 .. Len(logged) + 1
      BY <1>2, <2>2, <2>6
    <2>15. Live(c) => Turn(c)' <= Current
      BY <2>2, <2>7, CurrentType DEF Basics
    <2>16. QED
      BY <1>1, <2>1, <2>5, <2>11, <2>12, <2>13, <2>14, <2>15 DEF Aligned, w
  <1>6. QED
    BY <1>3, <1>4, <1>5 DEF StreamInv

-----------------------------------------------------------------------------
(* What the sessions hand out.                                              *)

\* What session c has handed out.
RunOf(c) ==
    \A i \in DOMAIN got[c] :
        Framed(c, i) => /\ Place(c, i) \in DOMAIN logged
                        /\ Faithful(got[c][i], Place(c, i))

LEMMA RunKept ==
    ASSUME NEW c \in Connections, RunOf(c), got'[c] = got[c],
           got[c] = <<>> \/ first'[c] = first[c],
           DOMAIN logged \subseteq DOMAIN logged', \A k \in DOMAIN logged : logged'[k] = logged[k]
    PROVE  RunOf(c)'
  <1>1. CASE got[c] = <<>>
    <2>1. DOMAIN got'[c] = {}
      BY <1>1
    <2>2. QED
      BY <2>1 DEF RunOf
  <1>2. CASE first'[c] = first[c]
    <2>1. SUFFICES ASSUME NEW i \in DOMAIN got[c], Framed(c, i)'
                   PROVE  /\ Place(c, i)' \in DOMAIN logged'
                          /\ Faithful(got[c][i], Place(c, i))'
      BY DEF RunOf
    <2>2. Place(c, i)' = Place(c, i)
      BY <1>2 DEF Place
    <2>3. Framed(c, i)
      BY <1>2, <2>1, <2>2 DEF Framed
    <2>4. Place(c, i) \in DOMAIN logged /\ Faithful(got[c][i], Place(c, i))
      BY <2>3 DEF RunOf
    <2>5. logged'[Place(c, i)] = logged[Place(c, i)]
      BY <2>4
    <2>6. Faithful(got[c][i], Place(c, i))'
      BY <2>2, <2>4, <2>5 DEF Faithful
    <2>7. QED
      BY <2>2, <2>4, <2>6
  <1>3. QED
    BY <1>1, <1>2

\* A session adds the message whose turn it is.
LEMMA RunGrows ==
    ASSUME Basics, NEW off, StreamInv(off), NEW c \in Connections, ReadMessage(c), RunOf(c)
    PROVE  RunOf(c)'
  <1>0. PICK msg : msg = synthetize(TextOf(SubSeq(wire[c], 1, session[c].size)), Now(0))
    OBVIOUS
  <1>1. /\ session[c].state = "message" /\ Len(wire[c]) >= session[c].size
        /\ got' = [got EXCEPT ![c] = Append(@, msg)]
        /\ UNCHANGED <<logged, first>>
    BY <1>0 DEF ReadMessage, clientVars
  <1>2. /\ got[c] \in Seq(Received) /\ Len(got[c]) \in Nat /\ first[c] \in Nat
        /\ DOMAIN got[c] = 1 .. Len(got[c]) /\ DOMAIN logged = 1 .. Len(logged)
        /\ msg \in Received
    BY <1>0, ReadReceived DEF Basics, TypeInv
  <1>3. got'[c] = Append(got[c], msg)
    BY <1>1 DEF Basics, TypeInv
  <1>4. /\ DOMAIN got'[c] = 1 .. Len(got[c]) + 1
        /\ \A i \in 1 .. Len(got[c]) : got'[c][i] = got[c][i]
        /\ got'[c][Len(got[c]) + 1] = msg
    BY <1>2, <1>3, AppendProperties
  <1>5. \A i \in Int : Place(c, i)' = Place(c, i)
    BY <1>1 DEF Place
  <1>6. ASSUME NEW i \in 1 .. Len(got[c]) + 1, Framed(c, i)'
        PROVE  Place(c, i)' \in DOMAIN logged' /\ Faithful(got[c][i], Place(c, i))'
    <2>1. Framed(c, i)
      BY <1>1, <1>5, <1>6 DEF Framed
    <2>2. CASE i \in 1 .. Len(got[c])
      <3>1. Place(c, i) \in DOMAIN logged /\ Faithful(got[c][i], Place(c, i))
        BY <1>2, <2>1, <2>2 DEF RunOf
      <3>2. QED
        BY <1>1, <1>4, <1>5, <2>2, <3>1 DEF Faithful
    <2>3. CASE i = Len(got[c]) + 1
      <3>1. Place(c, i) = Turn(c) /\ Turn(c) \in Nat
        BY <1>2, <2>3 DEF Place, Turn
      <3>2. \A k \in first[c] .. Turn(c) : k \in DOMAIN logged => ~TooLarge(logged[k].size)
        BY <2>1, <3>1 DEF Framed
      <3>3. /\ first[c] .. Turn(c) - 1 \subseteq first[c] .. Turn(c)
            /\ Turn(c) \in first[c] .. Turn(c)
        BY <1>2 DEF Turn
      <3>4. InStep(c)
        BY <1>1, <3>2, <3>3 DEF InStep
      <3>5. Aligned(c, off) /\ Offsets(off)
        BY <3>4 DEF StreamInv
      <3>6. Turn(c) \in 1 .. Len(logged)
        BY <1>1, <3>1, <3>5 DEF Aligned
      <3>7. ~TooLarge(logged[Turn(c)].size)
        BY <1>2, <3>2, <3>3, <3>6
      <3>8. SubSeq(wire[c], 1, session[c].size) =
                [j \in 1 .. logged[Turn(c)].size |-> <<Turn(c), j>>]
        BY <1>1, <3>5, <3>7, TextNext
      <3>9. Faithful(msg, Turn(c))
        BY <1>0, <3>6, <3>8, TextOfWhole, LoggedRead DEF Basics
      <3>10. Faithful(got'[c][i], Turn(c))
        BY <1>4, <2>3, <3>9
      <3>11. QED
        BY <1>1, <1>2, <1>5, <2>3, <3>1, <3>6, <3>10 DEF Faithful
    <2>4. QED
      BY <1>2, <2>2, <2>3
  <1>7. QED
    BY <1>4, <1>6 DEF RunOf

LEMMA RunsStep ==
    ASSUME Basics, NEW off, StreamInv(off), SessionsGetRuns, [Next]_vars
    PROVE  SessionsGetRuns'
  <1>1. \A c \in Connections : RunOf(c)
    BY DEF SessionsGetRuns, RunOf
  <1>2. SUFFICES ASSUME NEW c \in Connections
                 PROVE  RunOf(c)'
    BY DEF SessionsGetRuns, RunOf
  <1>3. CASE \E e \in Entries : Log(e)
    <2>1. PICK e \in Entries : Log(e)
      BY <1>3
    <2>2. /\ DOMAIN logged = 1 .. Len(logged) /\ DOMAIN logged' = 1 .. Len(logged')
          /\ Len(logged') = Len(logged) + 1 /\ Len(logged) \in Nat
          /\ \A k \in 1 .. Len(logged) : logged'[k] = logged[k]
      BY <2>1, LogAdds DEF Basics, TypeInv
    <2>3. got' = got /\ first' = first
      BY <2>1 DEF Log, serverVars
    <2>4. DOMAIN logged \subseteq DOMAIN logged'
      BY <2>2
    <2>5. QED
      BY <1>1, <2>2, <2>3, <2>4, RunKept
  <1>4. CASE Connect
    <2>1. /\ UNCHANGED <<logged, got>> /\ conn < MaxConnections
          /\ first' = [first EXCEPT ![conn + 1] = Current]
      BY <1>4 DEF Connect
    <2>2. conn \in Nat
      BY DEF Basics, TypeInv
    <2>3. CASE c = conn + 1
      <3>1. c > conn
        BY <2>2, <2>3
      <3>2. got[c] = <<>>
        BY <3>1 DEF Basics, ConnInv
      <3>3. QED
        BY <1>1, <2>1, <3>2, RunKept
    <2>4. CASE c # conn + 1
      <3>1. first'[c] = first[c]
        BY <2>1, <2>4 DEF Basics, TypeInv
      <3>2. QED
        BY <1>1, <2>1, <3>1, RunKept
    <2>5. QED
      BY <2>3, <2>4
  <1>5. CASE ReadMessage(c)
    BY <1>1, <1>5, RunGrows
  <1>6. CASE \E d \in Connections : d # c /\ ReadMessage(d)
    <2>1. UNCHANGED <<logged, first>> /\ got'[c] = got[c]
      BY <1>6 DEF ReadMessage, clientVars, Basics, TypeInv
    <2>2. QED
      BY <1>1, <2>1, RunKept
  <1>7. CASE \/ HandleMessage \/ WriteSome \/ Lose \/ NoticeEnd \/ Destroy \/ CloseSocket
             \/ UNCHANGED vars
             \/ \E d \in Connections : ReadHeader(d) \/ ReadError(d)
    <2>1. UNCHANGED <<logged, first, got>>
      BY <1>7 DEF HandleMessage, WriteSome, Lose, NoticeEnd, Destroy, CloseSocket, vars,
                  ReadHeader, ReadError, clientVars, serverVars
    <2>2. QED
      BY <1>1, <2>1, RunKept
  <1>8. QED
    BY <1>3, <1>4, <1>5, <1>6, <1>7 DEF Next, IoThread, Server, Serve

LEMMA StreamStep ==
    ASSUME Basics, NEW off, StreamInv(off), [Next]_vars
    PROVE  \E places : StreamInv(places)'
  <1>1. CASE \E e \in Entries : Log(e)
    BY <1>1, LogStream
  <1>2. CASE Connect
    BY <1>2, ConnectStream
  <1>3. CASE WriteSome
    BY <1>3, WriteStream
  <1>4. CASE Lose
    BY <1>4, LoseStream
  <1>5. CASE Destroy \/ UNCHANGED vars
    <2>1. UNCHANGED <<logged, posted, queue, wire, got, first, session, conn, written, client,
                      ended>>
      BY <1>5 DEF Destroy, vars, serverVars
    <2>2. \A c \in Connections : Live(c)' => Live(c) /\ UNCHANGED <<Current, written>>
      BY <2>1 DEF Live, Current
    <2>3. StreamInv(off)'
      BY <2>1, <2>2, QuietStream
    <2>4. QED
      BY <2>3
  <1>10. CASE NoticeEnd \/ CloseSocket
    <2>1. UNCHANGED <<logged, wire, got, first, session>> /\ client' # "connected"
      BY <1>10 DEF NoticeEnd, CloseSocket, serverVars
    <2>2. \A c \in Connections : ~Live(c)'
      BY <2>1 DEF Live
    <2>3. StreamInv(off)'
      BY <2>1, <2>2, QuietStream
    <2>4. QED
      BY <2>3
  <1>11. CASE HandleMessage
    <2>1. /\ posted # <<>> /\ queue' = Append(queue, Head(posted)) /\ posted' = Tail(posted)
          /\ UNCHANGED <<logged, wire, got, first, session, conn, written, client, ended>>
      BY <1>11 DEF HandleMessage, serverVars
    <2>2. Current' = Current
      <3>1. /\ Len(logged) \in Nat /\ Len(posted) \in Nat \ {0} /\ Len(queue) \in Nat
            /\ posted \in Seq(Nat) /\ queue \in Seq(Nat)
        BY <2>1, EmptySeq DEF Basics, TypeInv
      <3>2. Head(posted) \in Nat /\ Len(posted') = Len(posted) - 1
        BY <2>1, <3>1, HeadTailProperties
      <3>3. Len(queue') = Len(queue) + 1
        BY <2>1, <3>1, <3>2, AppendProperties
      <3>4. QED
        BY <2>1, <3>1, <3>2, <3>3 DEF Current
    <2>3. \A c \in Connections : Live(c)' => Live(c) /\ UNCHANGED <<Current, written>>
      BY <2>1, <2>2 DEF Live
    <2>4. StreamInv(off)'
      BY <2>1, <2>3, QuietStream
    <2>5. QED
      BY <2>4
  <1>6. CASE \E c \in Connections : ReadHeader(c)
    BY <1>6, ReadHeaderStream
  <1>7. CASE \E c \in Connections : ReadMessage(c)
    BY <1>7, ReadMessageStream
  <1>8. CASE \E c \in Connections : ReadError(c)
    <2>1. PICK d \in Connections : ReadError(d)
      BY <1>8
    <2>2. /\ UNCHANGED <<logged, posted, queue, wire, got, first, conn, written, client, ended>>
          /\ session' = [session EXCEPT ![d].state = "gone"]
      BY <2>1 DEF ReadError, clientVars
    <2>3. \A c \in Connections : session'[c] = session[c] \/ session'[c].state = "gone"
      BY <2>2 DEF Basics, TypeInv
    <2>4. \A c \in Connections : Live(c)' => Live(c)
      BY <2>2 DEF Live
    <2>5. UNCHANGED <<Current, written>>
      BY <2>2 DEF Current
    <2>6. StreamInv(off)'
      BY <2>2, <2>3, <2>4, <2>5, QuietStream
    <2>7. QED
      BY <2>6
  <1>9. QED
    BY <1>1, <1>2, <1>3, <1>4, <1>5, <1>6, <1>7, <1>8, <1>10, <1>11
       DEF Next, IoThread, Server, Serve

LEMMA StreamInit ==
    ASSUME Init
    PROVE  \E off : StreamInv(off)
  <1> DEFINE off == [k \in 1 .. 1 |-> 0]
  <1>1. Len(logged) = 0
    BY DEF Init
  <1>2. off[1] = 0
    OBVIOUS
  <1> HIDE DEF off
  <1>3. Offsets(off)
    BY <1>1, <1>2 DEF Offsets
  <1>4. \A c \in Connections : ~InStep(c)
    BY DEF Init, InStep
  <1>5. QED
    BY <1>3, <1>4 DEF StreamInv

\* The bytes on every connection are those of the frames in their order, from where its
\* session reads to where the client writes (Client::M_doWrite, Session::M_doReadHeader
\* and M_doReadMessage), and everything else the inductive invariant says.
THEOREM InvariantHolds == Spec => []IInv
  <1>1. Init => IInv
    <2>1. SUFFICES ASSUME Init
                   PROVE  IInv
      OBVIOUS
    <2>2. \A c \in Connections : got[c] = <<>>
      BY <2>1 DEF Init
    <2>3. \A c \in Connections : DOMAIN got[c] = {}
      BY <2>2
    <2>4. SessionsGetRuns
      BY <2>3 DEF SessionsGetRuns
    <2>5. Basics
      BY <2>1, BasicsInit
    <2>6. \E off : StreamInv(off)
      BY <2>1, StreamInit
    <2>7. QED
      BY <2>4, <2>5, <2>6 DEF IInv
  <1>2. IInv /\ [Next]_vars => IInv'
    <2>1. SUFFICES ASSUME IInv, [Next]_vars
                   PROVE  IInv'
      OBVIOUS
    <2>2. PICK off : StreamInv(off)
      BY <2>1 DEF IInv
    <2>3. Basics /\ SessionsGetRuns
      BY <2>1 DEF IInv
    <2>4. QED
      BY <2>1, <2>2, <2>3, BasicsStep, StreamStep, RunsStep DEF IInv
  <1>3. QED
    BY <1>1, <1>2, PTL DEF Spec

\* What the client, its connections and the sessions keep has the type it should, the
\* messages that Server::M_notifyMessageReceived hands out included.
THEOREM TypeCorrect == Spec => []TypeOK
  <1>1. IInv => TypeOK
    BY TypesAndInv DEF IInv, Basics
  <1>2. QED
    BY <1>1, InvariantHolds, PTL

\* Each session hands out a run of the messages that were logged, each whole and with
\* the members it was logged with, also when connections end and a message that was cut is
\* written again: up to the first whose size does not fit a header, and as long as the client
\* has one write loop (Client::send and M_doWrite, Session::M_doReadHeader,
\* Message::serialize and synthetize).
THEOREM RunsReceived == Spec => []SessionsGetRuns
  <1>1. IInv => SessionsGetRuns
    BY DEF IInv
  <1>2. QED
    BY <1>1, InvariantHolds, PTL

-----------------------------------------------------------------------------
(* Traces.                                                                  *)

\* The values that FlattenSeq goes through: the first i parts in one.
Flattening(X, parts) ==
    {a \in [0 .. Len(parts) -> Seq(X)] :
        /\ a[0] = <<>>
        /\ \A i \in 1 .. Len(parts) : a[i] = a[i - 1] \o parts[i]
        /\ FlattenSeq(parts) = a[Len(parts)]}

LEMMA FlattenDefined ==
    ASSUME NEW X, NEW parts \in Seq(Seq(X))
    PROVE  Flattening(X, parts) # {}
  <1> DEFINE N == Len(parts)
             step == [n \in Nat |-> [x \in Seq(X) |->
                        IF n < N THEN x \o parts[n + 1] ELSE x]]
  <1>1. N \in Nat /\ \A n \in Nat : n < N => parts[n + 1] \in Seq(X)
    OBVIOUS
  <1>2. step \in [Nat -> [Seq(X) -> Seq(X)]]
    <2>1. ASSUME NEW n \in Nat, NEW x \in Seq(X)
          PROVE  (IF n < N THEN x \o parts[n + 1] ELSE x) \in Seq(X)
      BY <1>1, ConcatProperties
    <2>2. QED
      BY <2>1
  <1>3. <<>> \in Seq(X)
    OBVIOUS
  <1> HIDE DEF step
  <1>4. Recursion(Seq(X), <<>>, step) # {}
    BY <1>2, <1>3, RecursionExists
  <1>5. PICK f \in [Nat -> Seq(X)] : f[0] = <<>> /\ \A n \in Nat : f[n + 1] = step[n][f[n]]
    BY <1>4 DEF Recursion
  <1>6. ASSUME NEW i \in 1 .. N
        PROVE  f[i] = f[i - 1] \o parts[i]
    <2>1. i - 1 \in Nat /\ i - 1 < N /\ (i - 1) + 1 = i
      BY <1>1
    <2>2. f[i] = step[i - 1][f[i - 1]] /\ f[i - 1] \in Seq(X)
      BY <1>5, <2>1
    <2>3. QED
      BY <2>1, <2>2 DEF step
  <1> DEFINE a == [i \in 0 .. N |-> f[i]]
  <1>7. a \in [0 .. N -> Seq(X)] /\ a[0] = <<>>
    BY <1>1, <1>5
  <1>8. ASSUME NEW i \in 1 .. N
        PROVE  a[i] = a[i - 1] \o parts[i]
    <2>1. i \in 0 .. N /\ i - 1 \in 0 .. N
      BY <1>1
    <2>2. QED
      BY <1>6, <2>1
  <1> HIDE DEF a
  <1>9. FlattenSeq(parts) = a[N]
    <2>1. CASE N = 0
      BY <1>7, <2>1 DEF FlattenSeq
    <2>2. CASE N # 0
      <3> DEFINE v == [i \in 1 .. N |-> a[i]]
      <3>1. ASSUME NEW i \in 1 .. N
            PROVE  v[i] = IF i = 1 THEN parts[i] ELSE v[i - 1] \o parts[i]
        <4>1. CASE i = 1
          <5>1. i - 1 = 0
            BY <4>1
          <5>2. a[i] = a[i - 1] \o parts[i]
            BY <1>8
          <5>3. parts[i] \in Seq(X)
            OBVIOUS
          <5>4. a[i] = parts[i]
            BY <1>7, <5>1, <5>2, <5>3, ConcatEmptySeq
          <5>5. QED
            BY <4>1, <5>4
        <4>2. CASE i # 1
          <5>1. i - 1 \in 1 .. N
            BY <1>1, <4>2
          <5>2. QED
            BY <1>8, <4>2, <5>1
        <4>3. QED
          BY <4>1, <4>2
      <3> HIDE DEF v
      <3>2. v = [i \in 1 .. N |-> IF i = 1 THEN parts[i] ELSE v[i - 1] \o parts[i]]
        BY <3>1 DEF v
      <3>3. \E w : /\ w = [i \in 1 .. N |-> IF i = 1 THEN parts[i] ELSE w[i - 1] \o parts[i]]
                   /\ FlattenSeq(parts) = w[N]
        BY <2>2, <3>2 DEF FlattenSeq
      <3>4. PICK w : /\ w = [i \in 1 .. N |-> IF i = 1 THEN parts[i] ELSE w[i - 1] \o parts[i]]
                     /\ FlattenSeq(parts) = w[N]
        BY <3>3
      <3>5. \A i \in 1 .. N : w[i] = IF i = 1 THEN parts[i] ELSE w[i - 1] \o parts[i]
        BY <3>4
      <3> DEFINE T == {i \in Nat : i \in 1 .. N => w[i] = v[i]}
      <3>6. 0 \in T
        OBVIOUS
      <3>7. ASSUME NEW i \in Nat, i \in T
            PROVE  i + 1 \in T
        <4>1. SUFFICES ASSUME i + 1 \in 1 .. N
                       PROVE  w[i + 1] = v[i + 1]
          OBVIOUS
        <4>2. PICK j \in 1 .. N : j = i + 1
          BY <4>1
        <4>3. j = 1 \/ (j # 1 /\ i \in 1 .. N /\ j - 1 = i)
          BY <4>2
        <4>4. j # 1 => w[j - 1] = v[j - 1]
          BY <3>7, <4>3
        <4>5. w[j] = v[j]
          BY <3>1, <3>5, <4>4
        <4>6. QED
          BY <4>2, <4>5
      <3> HIDE DEF T
      <3>8. \A i \in Nat : i \in T
        BY <3>6, <3>7, NatInd
      <3>9. N \in 1 .. N
        BY <1>1, <2>2
      <3>10. w[N] = v[N]
        BY <1>1, <3>8, <3>9 DEF T
      <3>11. v[N] = a[N]
        BY <3>9 DEF v
      <3>12. QED
        BY <3>4, <3>10, <3>11
    <2>3. QED
      BY <2>1, <2>2
  <1>10. QED
    BY <1>7, <1>8, <1>9 DEF Flattening

\* The parts lie one behind the other in the whole.
LEMMA FlattenPlaces ==
    ASSUME NEW X, NEW parts \in Seq(Seq(X)), NEW a \in Flattening(X, parts)
    PROVE  \A k, m \in 0 .. Len(parts) : k <= m =>
               /\ Len(a[k]) <= Len(a[m])
               /\ \A i \in 1 .. Len(a[k]) : a[m][i] = a[k][i]
  <1> DEFINE N == Len(parts)
             Extends(k, m) == /\ Len(a[k]) <= Len(a[m])
                              /\ \A i \in 1 .. Len(a[k]) : a[m][i] = a[k][i]
  <1>1. N \in Nat
    OBVIOUS
  <1>2. SUFFICES ASSUME NEW k \in 0 .. N
                 PROVE  \A m \in 0 .. N : k <= m => Extends(k, m)
    OBVIOUS
  <1>3. a \in [0 .. N -> Seq(X)] /\ \A i \in 1 .. N : a[i] = a[i - 1] \o parts[i]
    BY DEF Flattening
  <1> DEFINE T == {m \in Nat : k <= m /\ m <= N => Extends(k, m)}
  <1>4. 0 \in T
    <2>1. CASE k = 0
      <3>1. a[0] \in Seq(X)
        BY <1>1, <1>3
      <3>2. QED
        BY <2>1, <3>1
    <2>2. CASE k # 0
      BY <1>1, <2>2
    <2>3. QED
      BY <2>1, <2>2
  <1>5. ASSUME NEW m \in Nat, m \in T
        PROVE  m + 1 \in T
    <2>1. SUFFICES ASSUME k <= m + 1, m + 1 <= N
                   PROVE  Extends(k, m + 1)
      OBVIOUS
    <2>2. CASE k = m + 1
      BY <1>1, <1>3, <2>2
    <2>3. CASE k <= m
      <3>1. Extends(k, m)
        BY <1>1, <1>5, <2>1, <2>3
      <3>2. m \in 0 .. N /\ m + 1 \in 1 .. N /\ (m + 1) - 1 = m
        BY <1>1, <2>1
      <3>3. a[m] \in Seq(X) /\ parts[m + 1] \in Seq(X) /\ a[k] \in Seq(X)
        BY <1>3, <3>2
      <3>4. a[m + 1] = a[(m + 1) - 1] \o parts[m + 1]
        BY <1>3, <3>2
      <3>5. PICK whole, start, part, head \in Seq(X) :
                /\ whole = a[m + 1] /\ start = a[m] /\ part = parts[m + 1] /\ head = a[k]
                /\ whole = start \o part
        <4>1. a[m + 1] \in Seq(X)
          <5>1. m + 1 \in 0 .. N
            BY <1>1, <3>2
          <5>2. QED
            BY <1>3, <5>1
        <4>2. a[m + 1] = a[m] \o parts[m + 1]
          BY <3>2, <3>4
        <4>3. QED
          BY <3>3, <4>1, <4>2
      <3>6. /\ Len(whole) = Len(start) + Len(part)
            /\ \A i \in 1 .. Len(start) : whole[i] = start[i]
        <4>1. /\ Len(start \o part) = Len(start) + Len(part)
              /\ \A i \in 1 .. Len(start) + Len(part) :
                    (start \o part)[i] = IF i <= Len(start) THEN start[i] ELSE part[i - Len(start)]
          BY ConcatProperties
        <4>2. Len(start) \in Nat /\ Len(part) \in Nat
          OBVIOUS
        <4>3. \A i \in 1 .. Len(start) : i \in 1 .. Len(start) + Len(part) /\ i <= Len(start)
          BY <4>2
        <4>4. QED
          BY <3>5, <4>1, <4>3
      <3>7. Len(head) <= Len(start) /\ \A i \in 1 .. Len(head) : start[i] = head[i]
        BY <3>1, <3>5
      <3>8. Len(head) <= Len(whole) /\ \A i \in 1 .. Len(head) : whole[i] = head[i]
        <4>1. Len(head) \in Nat /\ Len(start) \in Nat /\ Len(part) \in Nat
          OBVIOUS
        <4>2. QED
          BY <3>6, <3>7, <4>1
      <3>9. QED
        BY <3>5, <3>8
    <2>4. QED
      BY <2>1, <2>2, <2>3
  <1> HIDE DEF T
  <1>6. \A m \in Nat : m \in T
    BY <1>4, <1>5, NatInd
  <1>7. QED
    BY <1>1, <1>6 DEF T

\* The parts that PrintStack, Lines and IndentTrace put together.
PrintParts(frames) == [i \in DOMAIN frames |-> Append(frames[i], Newline)]

LineParts(frames) ==
    [i \in DOMAIN frames |->
        (IF i = 1 THEN <<>> ELSE <<Newline>>) \o Indent \o Indent \o frames[i]]

IndentParts(trace) ==
    [p \in 1 .. Len(trace) - 1 |->
        IF trace[p] = Newline /\ p # 1 THEN <<Newline>> \o Indent \o Indent ELSE <<trace[p]>>]

LEMMA Bytes ==
    /\ Newline \in Byte /\ Space \in Byte
    /\ Indent \in Seq(Byte) /\ <<Newline>> \in Seq(Byte) /\ Indent \o Indent \in Seq(Byte)
    /\ (<<Newline>> \o Indent) \o Indent \in Seq(Byte)
    /\ (<<Newline>> \o Indent) \o Indent = <<Newline>> \o (Indent \o Indent)
  <1>1. HexBase \in Nat /\ HexBase >= 2
    BY LogMessageAssumption
  <1>2. HexBase * HexBase \in Nat /\ HexBase * HexBase >= 2
    BY <1>1
  <1>3. Newline \in Byte /\ Space \in Byte
    BY <1>2 DEF Byte, Newline, Space
  <1>4. Indent \in Seq(Byte) /\ <<Newline>> \in Seq(Byte)
    BY <1>3 DEF Indent
  <1>5. Indent \o Indent \in Seq(Byte) /\ <<Newline>> \o Indent \in Seq(Byte)
    BY <1>4, ConcatProperties
  <1>6. (<<Newline>> \o Indent) \o Indent \in Seq(Byte)
    BY <1>4, <1>5, ConcatProperties
  <1>7. QED
    BY <1>3, <1>4, <1>5, <1>6, ConcatAssociative

\* What is known of the frames of a stack.
LEMMA FrameMembers ==
    ASSUME NEW frames \in Seq(StackFrame), NEW k \in 1 .. Len(frames)
    PROVE  /\ frames[k] \in Seq(Byte) /\ Len(frames[k]) \in Nat \ {0}
           /\ \A j \in 1 .. Len(frames[k]) : frames[k][j] \in Byte /\ frames[k][j] # Newline
  <1>1. frames[k] \in Seq(Byte \ {Newline}) /\ frames[k] # <<>>
    BY DEF StackFrame
  <1>2. PICK frame \in Seq(Byte \ {Newline}) : frame = frames[k] /\ frame # <<>>
    BY <1>1
  <1>3. Len(frame) \in Nat \ {0}
    BY <1>2, EmptySeq
  <1>4. \A j \in 1 .. Len(frame) : frame[j] \in Byte /\ frame[j] # Newline
    OBVIOUS
  <1>5. frame \in Seq(Byte)
    OBVIOUS
  <1>6. QED
    BY <1>2, <1>3, <1>4, <1>5

LEMMA PrintPartsType ==
    ASSUME NEW frames \in Seq(StackFrame)
    PROVE  /\ PrintParts(frames) \in Seq(Seq(Byte)) /\ Len(PrintParts(frames)) = Len(frames)
           /\ PrintStack(frames) = FlattenSeq(PrintParts(frames))
           /\ \A k \in 1 .. Len(frames) : PrintParts(frames)[k] = Append(frames[k], Newline)
  <1>1. DOMAIN frames = 1 .. Len(frames) /\ Len(frames) \in Nat
    OBVIOUS
  <1>2. ASSUME NEW k \in 1 .. Len(frames)
        PROVE  Append(frames[k], Newline) \in Seq(Byte)
    BY FrameMembers, Bytes, AppendProperties
  <1>3. PrintParts(frames) \in [1 .. Len(frames) -> Seq(Byte)]
    BY <1>1, <1>2 DEF PrintParts
  <1>4. PrintParts(frames) \in Seq(Seq(Byte)) /\ Len(PrintParts(frames)) = Len(frames)
    BY <1>1, <1>3
  <1>5. QED
    BY <1>1, <1>4 DEF PrintParts, PrintStack

LEMMA LinePartsType ==
    ASSUME NEW frames \in Seq(StackFrame)
    PROVE  /\ LineParts(frames) \in Seq(Seq(Byte)) /\ Len(LineParts(frames)) = Len(frames)
           /\ Lines(frames) = FlattenSeq(LineParts(frames))
           /\ \A k \in 1 .. Len(frames) :
                 LineParts(frames)[k] =
                    IF k = 1 THEN (Indent \o Indent) \o frames[k]
                    ELSE ((<<Newline>> \o Indent) \o Indent) \o frames[k]
  <1>1. DOMAIN frames = 1 .. Len(frames) /\ Len(frames) \in Nat
    OBVIOUS
  <1>2. (<<>> \o Indent) \o Indent = Indent \o Indent
    BY Bytes, ConcatEmptySeq
  <1>3. \A k \in 1 .. Len(frames) :
            LineParts(frames)[k] =
                IF k = 1 THEN (Indent \o Indent) \o frames[k]
                ELSE ((<<Newline>> \o Indent) \o Indent) \o frames[k]
    BY <1>1, <1>2 DEF LineParts
  <1>4. ASSUME NEW k \in 1 .. Len(frames)
        PROVE  LineParts(frames)[k] \in Seq(Byte)
    <2>1. frames[k] \in Seq(Byte)
      BY FrameMembers
    <2>2. /\ (Indent \o Indent) \o frames[k] \in Seq(Byte)
          /\ ((<<Newline>> \o Indent) \o Indent) \o frames[k] \in Seq(Byte)
      BY <2>1, Bytes, ConcatProperties
    <2>3. QED
      BY <1>3, <2>2
  <1>5. DOMAIN LineParts(frames) = 1 .. Len(frames)
    BY <1>1 DEF LineParts
  <1>6. LineParts(frames) = [i \in DOMAIN LineParts(frames) |-> LineParts(frames)[i]]
    BY DEF LineParts
  <1>7. LineParts(frames) \in [1 .. Len(frames) -> Seq(Byte)]
    BY <1>4, <1>5, <1>6
  <1>8. LineParts(frames) \in Seq(Seq(Byte)) /\ Len(LineParts(frames)) = Len(frames)
    BY <1>1, <1>7
  <1>9. Lines(frames) = FlattenSeq(LineParts(frames))
    BY DEF Lines, LineParts
  <1>10. QED
    BY <1>3, <1>8, <1>9

LEMMA IndentPartsType ==
    ASSUME NEW trace \in Seq(Byte), trace # <<>>
    PROVE  /\ IndentParts(trace) \in Seq(Seq(Byte))
           /\ Len(IndentParts(trace)) = Len(trace) - 1
           /\ IndentTrace(trace) = (Indent \o Indent) \o FlattenSeq(IndentParts(trace))
           /\ \A p \in 1 .. Len(trace) - 1 :
                 IndentParts(trace)[p] =
                    IF trace[p] = Newline /\ p # 1 THEN (<<Newline>> \o Indent) \o Indent
                    ELSE <<trace[p]>>
  <1>1. Len(trace) - 1 \in Nat
    BY EmptySeq
  <1>2. ASSUME NEW p \in 1 .. Len(trace) - 1
        PROVE  <<trace[p]>> \in Seq(Byte)
    <2>1. p \in 1 .. Len(trace)
      BY <1>1
    <2>2. trace[p] \in Byte
      BY <2>1
    <2>3. QED
      BY <2>2
  <1>3. IndentParts(trace) \in [1 .. Len(trace) - 1 -> Seq(Byte)]
    BY <1>2, Bytes DEF IndentParts
  <1>4. IndentParts(trace) \in Seq(Seq(Byte)) /\ Len(IndentParts(trace)) = Len(trace) - 1
    BY <1>1, <1>3
  <1>5. QED
    BY <1>4 DEF IndentParts, IndentTrace

\* Where the characters of a frame are in the text of its stack.
LEMMA PrintPlaces ==
    ASSUME NEW frames \in Seq(StackFrame), NEW a \in Flattening(Byte, PrintParts(frames)),
           NEW k \in 1 .. Len(frames)
    PROVE  /\ Len(a[k - 1]) \in Nat /\ PrintStack(frames) \in Seq(Byte)
           /\ Len(a[k]) = Len(a[k - 1]) + Len(frames[k]) + 1
           /\ Len(a[k]) <= Len(PrintStack(frames))
           /\ \A j \in 1 .. Len(frames[k]) :
                 PrintStack(frames)[Len(a[k - 1]) + j] = frames[k][j]
           /\ PrintStack(frames)[Len(a[k])] = Newline
  <1> DEFINE N == Len(frames)
  <1>1. N \in Nat /\ k \in 0 .. N /\ k - 1 \in 0 .. N /\ N \in 0 .. N /\ k <= N
    OBVIOUS
  <1>2. /\ PrintParts(frames) \in Seq(Seq(Byte)) /\ Len(PrintParts(frames)) = N
        /\ PrintStack(frames) = FlattenSeq(PrintParts(frames))
        /\ PrintParts(frames)[k] = Append(frames[k], Newline)
    BY PrintPartsType
  <1>3. /\ a \in [0 .. N -> Seq(Byte)] /\ a[k] = a[k - 1] \o PrintParts(frames)[k]
        /\ PrintStack(frames) = a[N]
    BY <1>2 DEF Flattening
  <1> HIDE DEF N
  <1>4. a[k] \in Seq(Byte) /\ a[k - 1] \in Seq(Byte) /\ a[N] \in Seq(Byte)
    BY <1>1, <1>3
  <1>5. PICK whole, start, part, frame \in Seq(Byte) :
            /\ whole = a[k] /\ start = a[k - 1] /\ part = Append(frames[k], Newline)
            /\ frame = frames[k] /\ whole = start \o part /\ part = Append(frame, Newline)
    <2>1. frames[k] \in Seq(Byte)
      BY FrameMembers
    <2>2. Append(frames[k], Newline) \in Seq(Byte)
      BY <2>1, Bytes, AppendProperties
    <2>3. QED
      BY <1>2, <1>3, <1>4, <2>1, <2>2
  <1>6. Len(start) \in Nat /\ Len(frame) \in Nat /\ Len(part) = Len(frame) + 1
    BY <1>5, Bytes, AppendProperties
  <1>7. /\ \A j \in 1 .. Len(frame) : part[j] = frame[j]
        /\ part[Len(frame) + 1] = Newline
    BY <1>5, Bytes, AppendProperties
  <1>8. Len(whole) = Len(start) + Len(part)
    BY <1>5, ConcatProperties
  <1>9. ASSUME NEW j \in 1 .. Len(part)
        PROVE  whole[Len(start) + j] = part[j]
    <2>1. /\ Len(start) + j \in 1 .. Len(start) + Len(part)
          /\ ~(Len(start) + j <= Len(start)) /\ (Len(start) + j) - Len(start) = j
      BY <1>6
    <2>2. (start \o part)[Len(start) + j] = part[(Len(start) + j) - Len(start)]
      BY <2>1, ConcatProperties
    <2>3. QED
      BY <1>5, <2>1, <2>2
  <1>10. Len(whole) <= Len(a[N]) /\ \A i \in 1 .. Len(whole) : a[N][i] = whole[i]
    <2>1. k \in 0 .. Len(PrintParts(frames)) /\ N \in 0 .. Len(PrintParts(frames))
      BY <1>1, <1>2
    <2>2. PrintParts(frames) \in Seq(Seq(Byte))
      BY <1>2
    <2>3. \A l, m \in 0 .. Len(PrintParts(frames)) : l <= m =>
              Len(a[l]) <= Len(a[m]) /\ \A i \in 1 .. Len(a[l]) : a[m][i] = a[l][i]
      BY <2>2, FlattenPlaces
    <2>4. Len(a[k]) <= Len(a[N]) /\ \A i \in 1 .. Len(a[k]) : a[N][i] = a[k][i]
      BY <1>1, <2>1, <2>3
    <2>5. QED
      BY <1>5, <2>4
  <1>11. ASSUME NEW j \in 1 .. Len(part)
         PROVE  a[N][Len(start) + j] = part[j]
    <2>1. Len(start) + j \in 1 .. Len(whole)
      BY <1>6, <1>8
    <2>2. QED
      BY <1>9, <1>10, <2>1
  <1>12. \A j \in 1 .. Len(frame) : a[N][Len(start) + j] = frame[j]
    <2>1. \A j \in 1 .. Len(frame) : j \in 1 .. Len(part)
      BY <1>6
    <2>2. QED
      BY <1>7, <1>11, <2>1
  <1>13. a[N][Len(whole)] = Newline
    <2>1. Len(frame) + 1 \in 1 .. Len(part) /\ Len(whole) = Len(start) + (Len(frame) + 1)
      BY <1>6, <1>8
    <2>2. QED
      BY <1>7, <1>11, <2>1
  <1>14. Len(whole) = Len(start) + Len(frame) + 1
    BY <1>6, <1>8
  <1>15. QED
    BY <1>3, <1>4, <1>5, <1>6, <1>10, <1>12, <1>13, <1>14

\* The characters of a frame are shown as they are.
LEMMA FrameShown ==
    ASSUME NEW frames \in Seq(StackFrame), NEW a \in Flattening(Byte, PrintParts(frames)),
           NEW k \in 1 .. Len(frames),
           NEW g \in Flattening(Byte, IndentParts(PrintStack(frames)))
    PROVE  g[Len(a[k - 1]) + Len(frames[k])] = g[Len(a[k - 1])] \o frames[k]
  <1> DEFINE trace == PrintStack(frames)
             M == Len(trace) - 1
             L == Len(a[k - 1])
  <1>1. PICK frame \in Seq(Byte) :
            /\ frame = frames[k]
            /\ \A j \in 1 .. Len(frame) : frame[j] \in Byte /\ frame[j] # Newline
    BY FrameMembers
  <1>2. /\ L \in Nat /\ trace \in Seq(Byte) /\ L + Len(frame) + 1 <= Len(trace)
        /\ \A j \in 1 .. Len(frame) : trace[L + j] = frame[j]
    BY <1>1, PrintPlaces
  <1> HIDE DEF trace, L
  <1>3. /\ Len(frame) \in Nat /\ M \in Nat /\ L \in 0 .. M /\ trace # <<>>
        /\ \A j \in 1 .. Len(frame) : L + j \in 1 .. M
    BY <1>2, EmptySeq
  <1>4. /\ IndentParts(trace) \in Seq(Seq(Byte)) /\ Len(IndentParts(trace)) = M
        /\ \A p \in 1 .. M :
              IndentParts(trace)[p] =
                IF trace[p] = Newline /\ p # 1 THEN (<<Newline>> \o Indent) \o Indent
                ELSE <<trace[p]>>
    BY <1>2, <1>3, IndentPartsType
  <1>5. g \in [0 .. M -> Seq(Byte)] /\ \A p \in 1 .. M : g[p] = g[p - 1] \o IndentParts(trace)[p]
    BY <1>4 DEF Flattening, trace
  <1> HIDE DEF M
  <1>6. g[L] \in Seq(Byte)
    BY <1>3, <1>5
  <1> DEFINE Shown(j) == g[L + j] = g[L] \o SubSeq(frame, 1, j)
             T == {j \in Nat : j <= Len(frame) => Shown(j)}
  <1>7. 0 \in T
    <2>1. SubSeq(frame, 1, 0) = <<>>
      BY SubSeqEmpty
    <2>2. g[L] \o <<>> = g[L]
      BY <1>6, ConcatEmptySeq
    <2>3. L + 0 = L
      BY <1>2
    <2>4. Shown(0)
      BY <2>1, <2>2, <2>3
    <2> HIDE DEF Shown
    <2>5. QED
      BY <2>4
  <1> HIDE DEF Shown
  <1>8. ASSUME NEW j \in Nat, j \in T
        PROVE  j + 1 \in T
    <2>1. SUFFICES ASSUME j + 1 <= Len(frame)
                   PROVE  Shown(j + 1)
      OBVIOUS
    <2>2. j + 1 \in 1 .. Len(frame) /\ j <= Len(frame) /\ (j + 1) - 1 = j /\ 1 \in 1 .. Len(frame)
      BY <1>3, <2>1
    <2>3. L + (j + 1) \in 1 .. M /\ (L + (j + 1)) - 1 = L + j
      BY <1>2, <1>3, <2>2
    <2>4. trace[L + (j + 1)] = frame[j + 1] /\ frame[j + 1] # Newline /\ frame[j + 1] \in Byte
      BY <1>1, <1>2, <2>2
    <2>5. IndentParts(trace)[L + (j + 1)] = <<frame[j + 1]>>
      BY <1>4, <2>3, <2>4
    <2>6. g[L + (j + 1)] = g[L + j] \o <<frame[j + 1]>>
      <3>1. g[L + (j + 1)] = g[(L + (j + 1)) - 1] \o IndentParts(trace)[L + (j + 1)]
        BY <1>5, <2>3
      <3>2. QED
        BY <2>3, <2>5, <3>1
    <2>7. g[L + j] = g[L] \o SubSeq(frame, 1, j)
      BY <1>8, <2>2 DEF Shown
    <2>8. PICK start, front, last \in Seq(Byte) :
              start = g[L] /\ front = SubSeq(frame, 1, j) /\ last = <<frame[j + 1]>>
      <3>1. SubSeq(frame, 1, j) \in Seq(Byte)
        BY <2>2
      <3>2. <<frame[j + 1]>> \in Seq(Byte)
        BY <2>4
      <3>3. QED
        BY <1>6, <3>1, <3>2
    <2>9. (g[L] \o SubSeq(frame, 1, j)) \o <<frame[j + 1]>>
            = g[L] \o (SubSeq(frame, 1, j) \o <<frame[j + 1]>>)
      <3>1. (start \o front) \o last = start \o (front \o last)
        BY ConcatAssociative
      <3>2. QED
        BY <2>8, <3>1
    <2>10. SubSeq(frame, 1, j + 1) = SubSeq(frame, 1, j) \o <<frame[j + 1]>>
      <3>1. j + 1 \in 1 .. Len(frame)
        BY <2>2
      <3>2. SubSeq(frame, 1, j + 1) = SubSeq(frame, 1, (j + 1) - 1) \o <<frame[j + 1]>>
        BY <2>2, SubSeqRecursiveSecond
      <3>3. QED
        BY <2>2, <3>2
    <2>11. QED
      BY <2>6, <2>7, <2>9, <2>10 DEF Shown
  <1> HIDE DEF T
  <1>9. \A j \in Nat : j \in T
    BY <1>7, <1>8, NatInd
  <1>10. g[L + Len(frame)] = g[L] \o SubSeq(frame, 1, Len(frame))
    <2>1. Shown(Len(frame))
      BY <1>3, <1>9 DEF T
    <2>2. QED
      BY <2>1 DEF Shown
  <1>11. SubSeq(frame, 1, Len(frame)) = frame
    BY SubSeqFull
  <1>12. QED
    BY <1>1, <1>10, <1>11 DEF L

LEMMA Regroup ==
    ASSUME NEW S, NEW s \in Seq(S), NEW t \in Seq(S), NEW u \in Seq(S), NEW v \in Seq(S)
    PROVE  s \o ((t \o u) \o v) = (s \o t) \o (u \o v)
  <1>1. (t \o u) \o v = t \o (u \o v)
    BY ConcatAssociative, SMTT(30)
  <1>2. PICK w \in Seq(S) : w = u \o v
    BY ConcatProperties
  <1>3. (s \o t) \o w = s \o (t \o w)
    BY ConcatAssociative, SMTT(30)
  <1>4. QED
    BY <1>1, <1>2, <1>3

\* Each line that IndentTrace makes of the text of a stack is that of a frame, up to the
\* newline behind it: that of the last frame is cut off.
LEMMA LineShown ==
    ASSUME NEW frames \in Seq(StackFrame), NEW a \in Flattening(Byte, PrintParts(frames)),
           NEW b \in Flattening(Byte, LineParts(frames)),
           NEW g \in Flattening(Byte, IndentParts(PrintStack(frames)))
    PROVE  \A k \in 1 .. Len(frames) : (Indent \o Indent) \o g[Len(a[k]) - 1] = b[k]
  <1> DEFINE N == Len(frames)
             trace == PrintStack(frames)
             M == Len(trace) - 1
             indent == Indent \o Indent
             next == (<<Newline>> \o Indent) \o Indent
             Shown(k) == indent \o g[Len(a[k]) - 1] = b[k]
             T == {k \in Nat : k + 1 <= N => Shown(k + 1)}
  <1>1. ASSUME NEW k \in 1 .. N
        PROVE  /\ Len(a[k - 1]) \in Nat /\ trace \in Seq(Byte)
               /\ Len(a[k]) = Len(a[k - 1]) + Len(frames[k]) + 1
               /\ Len(a[k]) <= Len(trace)
               /\ trace[Len(a[k])] = Newline
    BY PrintPlaces
  <1>2. ASSUME NEW k \in 1 .. N
        PROVE  g[Len(a[k - 1]) + Len(frames[k])] = g[Len(a[k - 1])] \o frames[k]
    BY FrameShown
  <1>3. ASSUME NEW k \in 1 .. N
        PROVE  frames[k] \in Seq(Byte) /\ Len(frames[k]) \in Nat \ {0}
    BY FrameMembers
  <1>4. ASSUME NEW k \in 1 .. N
        PROVE  /\ Len(a[k]) - 1 = Len(a[k - 1]) + Len(frames[k]) /\ Len(a[k]) - 1 \in 1 .. M
               /\ M \in Nat /\ trace # <<>>
    <2>1. Len(trace) \in Nat
      BY <1>1
    <2>2. /\ Len(a[k - 1]) \in Nat /\ Len(a[k]) = Len(a[k - 1]) + Len(frames[k]) + 1
          /\ Len(a[k]) <= Len(trace)
      BY <1>1
    <2>3. Len(frames[k]) \in Nat \ {0}
      BY <1>3
    <2> HIDE DEF trace
    <2>4. PICK before, frame, whole \in Nat :
              before = Len(a[k - 1]) /\ frame = Len(frames[k]) /\ whole = Len(trace)
      BY <2>1, <2>2, <2>3
    <2>5. frame # 0 /\ before + frame + 1 <= whole
      BY <2>2, <2>3, <2>4
    <2>6. whole - 1 \in Nat /\ before + frame \in 1 .. whole - 1 /\ whole # 0
      BY <2>5
    <2>7. trace # <<>>
      BY <2>4, <2>6, EmptySeq
    <2>8. (before + frame + 1) - 1 = before + frame
      OBVIOUS
    <2>9. QED
      BY <2>2, <2>4, <2>6, <2>7, <2>8
  <1>5. indent \in Seq(Byte) /\ next \in Seq(Byte)
    BY Bytes
  <1>6. a[0] = <<>>
    BY DEF Flattening
  <1>7. /\ b \in [0 .. N -> Seq(Byte)] /\ b[0] = <<>>
        /\ \A k \in 1 .. N :
              b[k] = b[k - 1] \o IF k = 1 THEN indent \o frames[k] ELSE next \o frames[k]
    <2>1. Len(LineParts(frames)) = N
      BY LinePartsType
    <2>2. \A k \in 1 .. N :
              LineParts(frames)[k] = IF k = 1 THEN indent \o frames[k] ELSE next \o frames[k]
      BY LinePartsType
    <2> HIDE DEF indent, next
    <2>3. /\ b \in [0 .. N -> Seq(Byte)] /\ b[0] = <<>>
          /\ \A k \in 1 .. N : b[k] = b[k - 1] \o LineParts(frames)[k]
      BY <2>1 DEF Flattening
    <2> HIDE DEF N
    <2>4. QED
      BY <2>2, <2>3
  <1>8. ASSUME NEW k \in 1 .. N
        PROVE  /\ g \in [0 .. M -> Seq(Byte)] /\ g[0] = <<>>
               /\ \A p \in 1 .. M :
                     g[p] = g[p - 1] \o IF trace[p] = Newline /\ p # 1 THEN next
                                        ELSE <<trace[p]>>
    <2>1. trace \in Seq(Byte) /\ trace # <<>>
      BY <1>1, <1>4
    <2>2. /\ Len(IndentParts(trace)) = M
          /\ \A p \in 1 .. M :
                IndentParts(trace)[p] =
                    IF trace[p] = Newline /\ p # 1 THEN next ELSE <<trace[p]>>
      BY <2>1, IndentPartsType
    <2>3. /\ g \in [0 .. M -> Seq(Byte)] /\ g[0] = <<>>
          /\ \A p \in 1 .. M : g[p] = g[p - 1] \o IndentParts(trace)[p]
      BY <2>2 DEF Flattening
    <2> HIDE DEF trace, M, next
    <2>4. QED
      BY <2>2, <2>3
  <1> HIDE DEF trace, M, indent, next
  <1>9. N \in Nat
    OBVIOUS
  <1>10. 0 \in T
    <2>1. SUFFICES ASSUME 1 \in 1 .. N
                   PROVE  Shown(1)
      BY <1>9
    <2>2. Len(a[1]) - 1 = Len(a[1 - 1]) + Len(frames[1])
      BY <1>4, <2>1
    <2>3. Len(a[1 - 1]) = 0
      BY <1>6, EmptySeq
    <2>4. g[Len(a[1 - 1]) + Len(frames[1])] = g[Len(a[1 - 1])] \o frames[1]
      BY <1>2, <2>1
    <2>5. g[0] = <<>> /\ frames[1] \in Seq(Byte)
      BY <1>3, <1>8, <2>1
    <2>6. g[Len(a[1]) - 1] = <<>> \o frames[1]
      BY <2>2, <2>3, <2>4, <2>5
    <2>7. g[Len(a[1]) - 1] = frames[1]
      BY <2>5, <2>6, ConcatEmptySeq
    <2>8. b[1] = b[1 - 1] \o (indent \o frames[1])
      BY <1>7, <2>1
    <2>9. b[1] = <<>> \o (indent \o frames[1])
      <3>1. 1 - 1 = 0
        OBVIOUS
      <3>2. QED
        BY <1>7, <2>8, <3>1
    <2>10. indent \o frames[1] \in Seq(Byte)
      BY <1>5, <2>5, ConcatProperties
    <2>11. b[1] = indent \o frames[1]
      BY <2>9, <2>10, ConcatEmptySeq
    <2>12. QED
      BY <2>7, <2>11
  <1>11. ASSUME NEW n \in Nat, n \in T
         PROVE  n + 1 \in T
    <2>1. SUFFICES ASSUME (n + 1) + 1 <= N
                   PROVE  Shown((n + 1) + 1)
      OBVIOUS
    <2>2. PICK k \in 1 .. N, l \in 1 .. N : k = n + 1 /\ l = (n + 1) + 1
      BY <1>9, <2>1
    <2>3. l - 1 = k /\ l # 1 /\ Shown(k)
      BY <1>11, <2>1, <2>2
    <2> DEFINE L == Len(a[k])
    <2>4. /\ L \in Nat /\ L - 1 \in 1 .. M /\ Len(a[l]) - 1 = L + Len(frames[l])
          /\ Len(a[l]) - 1 \in 1 .. M /\ M \in Nat /\ trace[L] = Newline /\ Len(frames[l]) \in Nat
      BY <1>1, <1>3, <1>4, <2>3
    <2> HIDE DEF L
    <2>5. L \in 1 .. M /\ L # 1 /\ L - 1 \in 0 .. M
      BY <2>4
    <2>6. g[L] = g[L - 1] \o next
      BY <1>8, <2>4, <2>5
    <2>7. g[L + Len(frames[l])] = g[L] \o frames[l]
      BY <1>2, <2>3 DEF L
    <2>8. b[l] = b[k] \o (next \o frames[l])
      BY <1>7, <2>3
    <2>9. b[k] = indent \o g[L - 1]
      BY <2>3 DEF L
    <2>10. PICK before, frame \in Seq(Byte) : before = g[L - 1] /\ frame = frames[l]
      BY <1>3, <1>8, <2>5
    <2>11. indent \o ((before \o next) \o frame) = (indent \o before) \o (next \o frame)
      <3>1. PICK front, behind \in Seq(Byte) : front = indent /\ behind = next
        BY <1>5
      <3>2. front \o ((before \o behind) \o frame) = (front \o before) \o (behind \o frame)
        BY Regroup, SMTT(60)
      <3>3. QED
        BY <3>1, <3>2
    <2>12. g[Len(a[l]) - 1] = (before \o next) \o frame
      BY <2>4, <2>6, <2>7, <2>10
    <2>13. b[l] = (indent \o before) \o (next \o frame)
      BY <2>8, <2>9, <2>10
    <2>14. Shown(l)
      BY <2>11, <2>12, <2>13
    <2>15. QED
      BY <2>2, <2>14
  <1> HIDE DEF T, Shown
  <1>12. \A n \in Nat : n \in T
    BY <1>10, <1>11, NatInd
  <1>13. ASSUME NEW k \in 1 .. N
         PROVE  Shown(k)
    <2>1. k - 1 \in Nat /\ (k - 1) + 1 = k /\ (k - 1) + 1 <= N
      BY <1>9
    <2>2. Shown((k - 1) + 1)
      BY <1>12, <2>1 DEF T
    <2>3. QED
      BY <2>1, <2>2
  <1>14. QED
    BY <1>13 DEF Shown, indent

\* The text of a stack is shown as the lines of its frames.
LEMMA StackShown ==
    ASSUME NEW frames \in Seq(StackFrame), frames # <<>>
    PROVE  /\ PrintStack(frames) \in Seq(Byte) /\ PrintStack(frames) # <<>>
           /\ IndentTrace(PrintStack(frames)) = Lines(frames)
  <1> DEFINE N == Len(frames)
             trace == PrintStack(frames)
  <1>1. N \in 1 .. N
    BY EmptySeq
  <1>2. PICK a \in Flattening(Byte, PrintParts(frames)) : TRUE
    BY PrintPartsType, FlattenDefined
  <1>3. PICK b \in Flattening(Byte, LineParts(frames)) : TRUE
    BY LinePartsType, FlattenDefined
  <1>4. /\ trace \in Seq(Byte) /\ Len(a[N - 1]) \in Nat
        /\ Len(a[N]) = Len(a[N - 1]) + Len(frames[N]) + 1 /\ Len(a[N]) <= Len(trace)
    BY <1>1, PrintPlaces
  <1>5. Len(frames[N]) \in Nat
    BY <1>1, FrameMembers
  <1>6. trace # <<>>
    <2> HIDE DEF trace
    <2>1. PICK before, frame, whole \in Nat :
              before = Len(a[N - 1]) /\ frame = Len(frames[N]) /\ whole = Len(trace)
      BY <1>4, <1>5
    <2>2. before + frame + 1 <= whole
      BY <1>4, <2>1
    <2>3. whole # 0
      BY <2>2
    <2>4. QED
      BY <2>1, <2>3, EmptySeq
  <1>7. PICK g \in Flattening(Byte, IndentParts(trace)) : TRUE
    BY <1>4, <1>6, IndentPartsType, FlattenDefined
  <1>8. (Indent \o Indent) \o g[Len(a[N]) - 1] = b[N]
    BY <1>1, LineShown
  <1>9. trace = a[N]
    BY PrintPartsType DEF Flattening
  <1>10. Lines(frames) = b[N]
    BY LinePartsType DEF Flattening
  <1>11. IndentTrace(trace) = (Indent \o Indent) \o g[Len(trace) - 1]
    BY <1>4, <1>6, IndentPartsType DEF Flattening
  <1>12. QED
    BY <1>4, <1>6, <1>8, <1>9, <1>10, <1>11

\* A stack without frames is nothing to show.
LEMMA EmptyStack == Lines(<<>>) = <<>> /\ hex(PrintStack(<<>>)) = <<>>
  <1>1. <<>> \in Seq(StackFrame) /\ Len(<<>>) = 0
    BY EmptySeq
  <1>2. \A parts \in Seq(Seq(Byte)) : Len(parts) = 0 => FlattenSeq(parts) = <<>>
    BY EmptySeq DEF FlattenSeq
  <1>3. Lines(<<>>) = <<>>
    BY <1>1, <1>2, LinePartsType
  <1>4. PrintStack(<<>>) = <<>>
    BY <1>1, <1>2, PrintPartsType
  <1>5. hex(<<>>) = <<>>
    BY <1>1 DEF hex
  <1>6. QED
    BY <1>3, <1>4, <1>5

\* What is shown of the trace that an exception is sent with.
LEMMA ThrownShown ==
    ASSUME NEW info, NEW frames \in Seq(StackFrame), info.trace = hex(PrintStack(frames))
    PROVE  ShownTrace(info) = Lines(frames)
  <1>1. CASE frames = <<>>
    BY <1>1, EmptyStack DEF ShownTrace
  <1>2. CASE frames # <<>>
    <2> DEFINE text == PrintStack(frames)
    <2>1. text \in Seq(Byte) /\ text # <<>> /\ IndentTrace(text) = Lines(frames)
      BY <1>2, StackShown
    <2> HIDE DEF text
    <2>2. unhex(hex(text)) = text
      BY <2>1, HexUndone
    <2>3. unhex(<<>>) = <<>>
      <3>1. Len(<<>>) \div 2 = 0
        BY EmptySeq
      <3>2. QED
        BY <3>1 DEF unhex
    <2>4. hex(text) # <<>>
      BY <2>1, <2>2, <2>3
    <2>5. info.trace = hex(text)
      BY DEF text
    <2>6. QED
      BY <2>1, <2>2, <2>4, <2>5 DEF ShownTrace
  <1>3. QED
    BY <1>1, <1>2

\* The frames of the exception that e is logged with.
FramesOf(e) ==
    IF e.exc = NoException \/ e.throws THEN <<>>
    ELSE IF e.exc.debug_info.set THEN e.exc.debug_info.trace ELSE <<>>

LEMMA EntryShown ==
    ASSUME NEW e \in Entries, NEW k, NEW msg, NEW text,
           IF e.throws THEN msg = SynthesisFailed(text, msg.time) ELSE msg = Built(e, k)
    PROVE  plain_light(msg).trace = Lines(FramesOf(e))
  <1>1. CASE e.exc = NoException \/ e.throws
    <2>1. msg.exception_info = <<>>
      <3>1. CASE e.throws
        <4>1. PICK now : msg = SynthesisFailed(text, now)
          BY <3>1
        <4>2. PICK raw : msg = NewMessage("Unknown", "", "", now, raw)
          BY <4>1, Zenon DEF SynthesisFailed
        <4>3. QED
          BY <4>2, Zenon DEF NewMessage
      <3>2. CASE ~e.throws
        BY <1>1, <3>2, BuiltMembers
      <3>3. QED
        BY <3>1, <3>2
    <2>2. plain_light(msg).trace = <<>>
      BY <2>1 DEF plain_light
    <2>3. FramesOf(e) = <<>>
      BY <1>1 DEF FramesOf
    <2>4. QED
      BY <2>2, <2>3, EmptyStack
  <1>2. CASE e.exc # NoException /\ ~e.throws
    <2>1. msg.exception_info = <<ExceptionInfo(e.exc)>>
      BY <1>2, BuiltMembers
    <2>2. plain_light(msg).trace = ShownTrace(ExceptionInfo(e.exc))
      <3>1. msg.exception_info # <<>> /\ msg.exception_info[1] = ExceptionInfo(e.exc)
        BY <2>1
      <3>2. QED
        BY <3>1 DEF plain_light
    <2>3. CASE e.exc.debug_info.set
      <3>1. FramesOf(e) = e.exc.debug_info.trace /\ FramesOf(e) \in Seq(StackFrame)
        BY <1>2, <2>3, LogWireAssumption DEF FramesOf
      <3>2. ExceptionInfo(e.exc).trace = hex(PrintStack(FramesOf(e)))
        BY <2>3, <3>1 DEF ExceptionInfo
      <3>3. QED
        BY <2>2, <3>1, <3>2, ThrownShown
    <2>4. CASE ~e.exc.debug_info.set
      <3>1. FramesOf(e) = <<>>
        BY <1>2, <2>4 DEF FramesOf
      <3>2. ExceptionInfo(e.exc).trace = <<>>
        BY <2>4 DEF ExceptionInfo
      <3>3. ShownTrace(ExceptionInfo(e.exc)) = <<>>
        BY <3>2 DEF ShownTrace
      <3>4. QED
        BY <2>2, <3>1, <3>3, EmptyStack
    <2>5. QED
      BY <2>3, <2>4
  <1>3. QED
    BY <1>1, <1>2

LEMMA TracesFollow ==
    ASSUME LoggedInv, SessionsGetRuns
    PROVE  TracesShown
  <1>1. SUFFICES ASSUME NEW c \in Connections, NEW i \in DOMAIN got[c], Framed(c, i)
                 PROVE  plain_light(got[c][i]).trace = Lines(FramesOf(logged[Place(c, i)]))
    BY DEF TracesShown, FramesOf
  <1>2. PICK k : k = Place(c, i)
    OBVIOUS
  <1>3. k \in 1 .. Len(logged) /\ Faithful(got[c][i], k)
    BY <1>1, <1>2 DEF SessionsGetRuns, LoggedInv
  <1>4. PICK e \in Entries : logged[k] = Entry(e, k)
    BY <1>3, LoggedMembers
  <1>5. logged[k].exc = e.exc /\ logged[k].throws = e.throws /\ logged[k].msg = Built(e, k)
    BY <1>4 DEF Entry
  <1>6. IF e.throws THEN got[c][i] = SynthesisFailed(logged[k].text, got[c][i].time)
        ELSE got[c][i] = Built(e, k)
    BY <1>3, <1>5 DEF Faithful
  <1>7. plain_light(got[c][i]).trace = Lines(FramesOf(e))
    BY <1>6, EntryShown
  <1>8. FramesOf(logged[k]) = FramesOf(e)
    BY <1>5 DEF FramesOf
  <1>9. QED
    BY <1>2, <1>7, <1>8

\* What a subscriber that uses plain_light shows of a message it was given are the frames
\* of the stack that its exception was thrown with, one to a line and each line indented
\* (operator() of plain_light, the constructor of Message that takes an exception).
THEOREM TracesIndented == Spec => []TracesShown
  <1>1. IInv => TracesShown
    BY TracesFollow DEF IInv, Basics
  <1>2. QED
    BY <1>1, InvariantHolds, PTL
=============================================================================
