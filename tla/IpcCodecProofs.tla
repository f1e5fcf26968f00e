--------------------------- MODULE IpcCodecProofs ---------------------------
(***************************************************************************)
(* Theorems about IpcCodec, for any names, any sizes of values, buffers    *)
(* and data, and any widths and limits that the assumptions admit.         *)
(***************************************************************************)
EXTENDS IpcCodec, SequenceTheorems, TLAPS

\* The bytes of names and values.
Cell == (Name \cup {"NUL", "new", "old"}) \X Nat

\* A reply to a load: what is copied from it is what the handler of the name
\* held, unless the name is too long to be told, or the value for the response.
Loaded(m) ==
    /\ m.valueSize \in 0 .. call.max
    /\ call.name \in Short /\ m.valueSize <= LoadRoom =>
          Copied(m) = Held(call.name, m.valueSize)

\* A reply to the call that waits.
Answer(m) ==
    /\ m.op = call.op /\ Accepted(m)
    /\ call.op = "save" => m.size = 4
    /\ call.op = "load" => m.size = LoadResponse /\ Loaded(m)
    /\ call.op = "ecb"  => m.size = 8 + Len(call.data) /\ (m.rc = "ok" => m.data = Ecb(call.data))
    /\ call.op = "cmac" => m.size = 24 /\ (m.rc = "ok" => m.data = Mac(call.prior \o call.data))

\* A call that waits has its request on its way, or the reply to it; or the
\* server has faulted, or could not send the reply.
Waiting ==
    /\ call \in Calls /\ result = <<>>
    /\ \/ up /\ toServer = Request(call) /\ toClient = None
       \/ up /\ toServer = None /\ Answer(toClient)
       \/ /\ toServer = None /\ toClient = None
          /\ \/ ~up /\ call.op = "load" /\ call.max > LoadRoom
             \/ up /\ call.op = "ecb" /\ 8 + Len(call.data) > DataSize + Overhead

\* The walk has one entry on its way, as it is stored.
Walking ==
    /\ call = None /\ up /\ toServer = None
    /\ \E n \in Short : toClient = BootData(n)

Idle ==
    /\ call \in Calls \cup {None} /\ up /\ toServer = None /\ toClient = None

IInv ==
    /\ status \in {"idle", "waiting", "walking"}
    /\ store \in [Name -> Seq(Cell)]
    /\ status = "idle" => Idle
    /\ status = "waiting" => Waiting
    /\ status = "walking" => Walking
    /\ LoadsExactly
    /\ EncryptsExactly

-----------------------------------------------------------------------------
(* Lemmas: sizes, and what is put together and taken apart. *)

LEMMA Sizes ==
    /\ NameLength \in [Name -> Nat \ {0}]
    /\ ValueSize \subseteq Nat \ {0} /\ PlainSize \subseteq Nat /\ MaxSize \subseteq 0 .. Byte - 1
    /\ Byte \in Nat /\ Byte > 0 /\ DataSize \in Nat /\ Overhead \in Nat /\ ReadRoom \in Nat
    /\ LoadResponse \in Nat /\ LoadResponse > 5 /\ LoadRoom \in Nat
    /\ Byte + 1 + Overhead <= ReadRoom /\ 24 + Overhead <= ReadRoom
    /\ LoadResponse + Overhead <= ReadRoom /\ ReadRoom <= DataSize + 2 * Overhead
  BY NameAssumption, SizeAssumption, RoomAssumption DEF LoadRoom

\* A size that a uint8_t holds stays what it is, and no other grows.
LEMMA ModFits ==
    ASSUME NEW x \in Nat
    PROVE  /\ x % Byte \in Nat /\ x % Byte < Byte /\ x % Byte <= x
           /\ x < Byte => x % Byte = x
  BY Sizes

\* Some cells in a row.
LEMMA CellsProperties ==
    ASSUME NEW tag, NEW n \in Nat
    PROVE  /\ Cells(tag, n) \in Seq({tag} \X Nat)
           /\ Len(Cells(tag, n)) = n
           /\ \A i \in 1 .. n : Cells(tag, n)[i] = <<tag, i>>
  BY DEF Cells

\* What comes first of a sequence.
LEMMA FirstProperties ==
    ASSUME NEW S, NEW s \in Seq(S), NEW n \in Nat
    PROVE  /\ First(s, n) \in Seq(S)
           /\ Len(First(s, n)) = IF n < Len(s) THEN n ELSE Len(s)
           /\ n >= Len(s) => First(s, n) = s
  <1>1. Len(s) \in Nat /\ \A i \in 1 .. Len(s) : s[i] \in S
    BY LenProperties, ElementOfSeq
  <1>2. PICK k \in Nat : k = (IF n < Len(s) THEN n ELSE Len(s)) /\ k <= Len(s)
    BY <1>1
  <1>3. First(s, n) = SubSeq(s, 1, k)
    BY <1>2 DEF First
  <1>4. \A i \in 1 .. k : s[i] \in S
    BY <1>1, <1>2
  <1>5. SubSeq(s, 1, k) \in Seq(S) /\ Len(SubSeq(s, 1, k)) = k
    BY <1>4, SubSeqProperties
  <1>6. n >= Len(s) => k = Len(s)
    BY <1>1, <1>2
  <1>7. SubSeq(s, 1, Len(s)) = s
    BY SubSeqFull
  <1>. QED BY <1>2, <1>3, <1>5, <1>6, <1>7

\* What follows a header of the length of s, up to n cells of it.
LEMMA BehindHeader ==
    ASSUME NEW S, NEW s \in Seq(S), NEW t \in Seq(S), NEW n \in 0 .. Len(t)
    PROVE  SubSeq(s \o t, Len(s) + 1, Len(s) + n) = SubSeq(t, 1, n)
  <1>1. Len(s) \in Nat /\ Len(t) \in Nat
    BY LenProperties
  <1>2. CASE n = 0
    BY <1>1, <1>2, SubSeqEmpty
  <1>3. CASE n # 0
    <2>1. /\ Len(s) + 1 \in Len(s) + 1 .. Len(s) + Len(t)
          /\ Len(s) + n \in Len(s) + 1 .. Len(s) + Len(t)
      BY <1>1, <1>3
    <2>2. SubSeq(s \o t, Len(s) + 1, Len(s) + n)
              = SubSeq(t, Len(s) + 1 - Len(s), Len(s) + n - Len(s))
      BY <2>1, SubSeqOfConcat2
    <2>. QED BY <1>1, <2>2
  <1>. QED BY <1>2, <1>3

\* A name, terminated.
LEMMA TextProperties ==
    ASSUME NEW n \in Name
    PROVE  /\ Text(n) \in Seq(Cell) /\ Len(Text(n)) = NameLength[n] + 1
           /\ Text(n)[1] = <<n, 1>>
           /\ NameLength[n] \in Nat /\ NameLength[n] >= 1
  <1>1. NameLength[n] \in Nat /\ NameLength[n] >= 1
    BY Sizes
  <1>2. Cells(n, NameLength[n]) \in Seq(Cell) /\ Cells("NUL", 1) \in Seq(Cell)
    <2>1. {n} \X Nat \subseteq Cell /\ {"NUL"} \X Nat \subseteq Cell
      BY DEF Cell
    <2>. QED BY <1>1, <2>1, CellsProperties, SeqMonotonic
  <1>3. /\ Len(Cells(n, NameLength[n])) = NameLength[n] /\ Len(Cells("NUL", 1)) = 1
        /\ Cells(n, NameLength[n])[1] = <<n, 1>>
    <2>1. Len(Cells("NUL", 1)) = 1
      BY CellsProperties
    <2>2. /\ Len(Cells(n, NameLength[n])) = NameLength[n]
          /\ \A i \in 1 .. NameLength[n] : Cells(n, NameLength[n])[i] = <<n, i>>
      BY <1>1, CellsProperties
    <2>3. 1 \in 1 .. NameLength[n]
      BY <1>1
    <2>. QED BY <2>1, <2>2, <2>3
  <1>. QED BY <1>1, <1>2, <1>3, ConcatProperties DEF Text

\* A name whose size a uint8_t holds is read for what it is: no other name's
\* text begins as its text does.
LEMMA NameIsRead ==
    ASSUME NEW n \in Short, NEW rest \in Seq(Cell), NEW m, m.data = Text(n) \o rest
    PROVE  Exact(m) = {n} /\ NamesRead(m) = {n}
  <1>. PICK data : data = m.data
    OBVIOUS
  <1>1. n \in Name
    BY DEF Short
  <1>2. /\ data \in Seq(Cell) /\ Len(data) = NameLength[n] + 1 + Len(rest)
        /\ Len(rest) \in Nat /\ data[1] = <<n, 1>> /\ NameLength[n] \in Nat
    BY <1>1, TextProperties, ConcatProperties, LenProperties
  <1>3. n \in Exact(m)
    <2>1. SubSeq(data, 1, NameLength[n] + 1) = SubSeq(Text(n), 1, NameLength[n] + 1)
      BY <1>1, <1>2, TextProperties, SubSeqOfConcat1
    <2>2. SubSeq(Text(n), 1, NameLength[n] + 1) = Text(n)
      BY <1>1, TextProperties, SubSeqFull
    <2>3. First(data, NameLength[n] + 1) = SubSeq(data, 1, NameLength[n] + 1)
      BY <1>2 DEF First
    <2>. QED BY <2>1, <2>2, <2>3 DEF Exact
  <1>4. ASSUME NEW k \in Short, First(m.data, NameLength[k] + 1) = Text(k) PROVE k = n
    <2>1. k \in Name
      BY DEF Short
    <2>2. PICK j \in Nat : /\ j >= 1 /\ j <= Len(data)
                           /\ First(data, NameLength[k] + 1) = SubSeq(data, 1, j)
      <3>1. NameLength[k] \in Nat /\ Len(data) \in Nat /\ Len(data) >= 1
        BY <1>2, <2>1, TextProperties
      <3>2. PICK j \in Nat : j = IF NameLength[k] + 1 < Len(data) THEN NameLength[k] + 1
                                 ELSE Len(data)
        BY <3>1
      <3>3. First(data, NameLength[k] + 1) = SubSeq(data, 1, j)
        BY <3>2 DEF First
      <3>4. j >= 1 /\ j <= Len(data)
        BY <3>1, <3>2
      <3>. QED BY <3>3, <3>4, Zenon
    <2>3. SubSeq(data, 1, j)[1] = data[1]
      BY <1>2, <2>2
    <2>4. Text(k)[1] = <<k, 1>>
      BY <2>1, TextProperties
    <2>5. <<k, 1>> = <<n, 1>>
      BY <1>2, <1>4, <2>2, <2>3, <2>4
    <2>. QED BY <2>5
  <1>5. Exact(m) = {n}
    BY <1>3, <1>4 DEF Exact
  <1>. QED BY <1>5 DEF NamesRead

\* What a call is made of.
LEMMA CallParts ==
    ASSUME NEW c \in Calls
    PROVE  /\ c.op \in {"save", "load", "ecb", "cmac"}
           /\ c.op = "save" => c.name \in Name /\ c.value \in Value
           /\ c.op = "load" => c.name \in Name /\ c.max \in MaxSize /\ c.max \in Nat
           /\ c.op = "ecb" => Len(c.data) \in Nat
           /\ c.op = "cmac" => Len(c.data) \in Nat /\ Len(c.prior) \in Nat
  <1>1. \A k \in PlainSize : Len(Cells("data", k)) \in Nat
    BY Sizes, CellsProperties
  <1>2. \A k \in {0, 16} : Len(Cells("prior", k)) \in Nat
    BY CellsProperties
  <1>3. \A k \in MaxSize : k \in Nat
    BY Sizes
  <1>4. CASE c \in Saves
    BY <1>4 DEF Saves
  <1>5. CASE c \in Loads
    BY <1>3, <1>5 DEF Loads
  <1>6. CASE c \in Ecbs
    BY <1>1, <1>6 DEF Ecbs
  <1>7. CASE c \in Macs
    BY <1>1, <1>2, <1>7 DEF Macs
  <1>. QED BY <1>4, <1>5, <1>6, <1>7 DEF Calls

LEMMA ValueCells ==
    ASSUME NEW v \in Value
    PROVE  v \in Seq(Cell) /\ Len(v) \in Nat
  <1>1. PICK k \in Nat : v = Cells("new", k)
    BY Sizes DEF Value
  <1>2. {"new"} \X Nat \subseteq Cell
    BY DEF Cell
  <1>3. v \in Seq(Cell)
    BY <1>1, <1>2, CellsProperties, SeqMonotonic
  <1>. QED BY <1>3, LenProperties

\* A request says what it is, and is no longer than its parts.
LEMMA RequestParts ==
    ASSUME NEW c \in Calls
    PROVE  /\ Request(c).op = c.op
           /\ c.op = "save" => /\ Request(c) = SaveData(c)
                               /\ Request(c).size \in Nat
                               /\ Request(c).size <= 3 + NameLength[c.name] + Len(c.value)
           /\ c.op = "load" => /\ Request(c) = LoadData(c) /\ Delivered(Request(c))
           /\ c.op = "ecb"  => Request(c) = EcbData(c)
           /\ c.op = "cmac" => Request(c) = CmacData(c)
  <1>1. CASE c.op = "save"
    <2>1. Request(c) = SaveData(c)
      BY <1>1 DEF Request
    <2>2. /\ NameLength[c.name] + 1 \in Nat /\ Len(c.value) \in Nat
      BY <1>1, CallParts, ValueCells, TextProperties
    <2>3. PICK nameSize : nameSize = (NameLength[c.name] + 1) % Byte
      OBVIOUS
    <2>4. PICK valueSize : valueSize = Len(c.value) % Byte
      OBVIOUS
    <2>5. /\ nameSize \in Nat /\ nameSize <= NameLength[c.name] + 1
          /\ valueSize \in Nat /\ valueSize <= Len(c.value)
      BY <2>2, <2>3, <2>4, ModFits
    <2>6. Request(c).size = 2 + nameSize + valueSize /\ Request(c).op = "save"
      BY <2>1, <2>3, <2>4 DEF SaveData
    <2>7. NameLength[c.name] \in Nat
      BY <1>1, CallParts, TextProperties
    <2>8. Request(c).size \in Nat /\ Request(c).size <= 3 + NameLength[c.name] + Len(c.value)
      BY <2>2, <2>5, <2>6, <2>7
    <2>. QED BY <1>1, <2>1, <2>6, <2>8
  <1>2. CASE c.op = "load"
    <2>1. Request(c) = LoadData(c)
      BY <1>2 DEF Request
    <2>2. NameLength[c.name] + 1 \in Nat
      BY <1>2, CallParts, TextProperties
    <2>3. /\ (NameLength[c.name] + 1) % Byte \in Nat
          /\ (NameLength[c.name] + 1) % Byte < Byte
      BY <2>2, ModFits
    <2>4. /\ Request(c).size = 2 + ((NameLength[c.name] + 1) % Byte)
          /\ Request(c).op = "load"
      BY <2>1 DEF LoadData
    <2>5. Delivered(Request(c))
      BY <2>3, <2>4, Sizes DEF Delivered
    <2>. QED BY <1>2, <2>1, <2>4, <2>5
  <1>3. CASE c.op = "ecb"
    BY <1>3 DEF Request, EcbData
  <1>4. CASE c.op = "cmac"
    BY <1>4 DEF Request, CmacData
  <1>. QED BY <1>1, <1>2, <1>3, <1>4, CallParts

\* A save's request: what stands behind the name is the value, and a name and a
\* value that fit are there whole.
LEMMA SaveParts ==
    ASSUME NEW c \in Calls, c.op = "save", NEW m, m = Request(c)
    PROVE  /\ SubSeq(m.data, m.nameSize + 1, m.nameSize + m.valueSize) \in Seq(Cell)
           /\ c.name \in Short => NamesRead(m) = {c.name} /\ Exact(m) = {c.name}
           /\ c.name \in Short /\ Len(c.value) < Byte =>
                 SubSeq(m.data, m.nameSize + 1, m.nameSize + m.valueSize) = c.value
  <1>1. m = SaveData(c)
    BY RequestParts
  <1>2. PICK nameSize : nameSize = (NameLength[c.name] + 1) % Byte
    OBVIOUS
  <1>3. PICK valueSize : valueSize = Len(c.value) % Byte
    OBVIOUS
  <1>4. /\ m.nameSize = nameSize /\ m.valueSize = valueSize
        /\ m.data = First(Text(c.name), nameSize) \o First(c.value, valueSize)
    BY <1>1, <1>2, <1>3 DEF SaveData
  <1>5. /\ c.name \in Name /\ Text(c.name) \in Seq(Cell)
        /\ Len(Text(c.name)) = NameLength[c.name] + 1 /\ NameLength[c.name] \in Nat
        /\ c.value \in Seq(Cell) /\ Len(c.value) \in Nat
    BY CallParts, ValueCells, TextProperties
  <1>6. /\ nameSize \in Nat /\ nameSize <= NameLength[c.name] + 1
        /\ NameLength[c.name] + 1 < Byte => nameSize = NameLength[c.name] + 1
        /\ valueSize \in Nat /\ valueSize <= Len(c.value)
        /\ Len(c.value) < Byte => valueSize = Len(c.value)
    <2>1. NameLength[c.name] + 1 \in Nat
      BY <1>5
    <2>. QED BY <1>2, <1>3, <1>5, <2>1, ModFits
  <1>7. /\ First(Text(c.name), nameSize) \in Seq(Cell)
        /\ Len(First(Text(c.name), nameSize)) = nameSize
        /\ nameSize >= Len(Text(c.name)) => First(Text(c.name), nameSize) = Text(c.name)
    BY <1>5, <1>6, FirstProperties
  <1>8. /\ First(c.value, valueSize) \in Seq(Cell)
        /\ Len(First(c.value, valueSize)) = valueSize
        /\ valueSize >= Len(c.value) => First(c.value, valueSize) = c.value
    BY <1>5, <1>6, FirstProperties
  <1>9. SubSeq(m.data, nameSize + 1, nameSize + valueSize) = First(c.value, valueSize)
    <2>. PICK s : s = First(Text(c.name), nameSize)
      OBVIOUS
    <2>. PICK t : t = First(c.value, valueSize)
      OBVIOUS
    <2>1. /\ s \in Seq(Cell) /\ Len(s) = nameSize /\ t \in Seq(Cell) /\ Len(t) = valueSize
          /\ m.data = s \o t /\ valueSize \in 0 .. Len(t)
      BY <1>4, <1>6, <1>7, <1>8
    <2>2. SubSeq(s \o t, Len(s) + 1, Len(s) + valueSize) = SubSeq(t, 1, valueSize)
      BY <2>1, BehindHeader
    <2>3. SubSeq(t, 1, valueSize) = t
      BY <2>1, SubSeqFull
    <2>. QED BY <2>1, <2>2, <2>3
  <1>10. ASSUME c.name \in Short PROVE NamesRead(m) = {c.name} /\ Exact(m) = {c.name}
    <2>1. nameSize = NameLength[c.name] + 1
      BY <1>6, <1>10 DEF Short
    <2>2. First(Text(c.name), nameSize) = Text(c.name)
      BY <1>5, <1>7, <2>1
    <2>3. m.data = Text(c.name) \o First(c.value, valueSize)
      BY <1>4, <2>2
    <2>. QED BY <1>8, <1>10, <2>3, NameIsRead
  <1>. QED BY <1>4, <1>6, <1>8, <1>9, <1>10

\* A load's request names its setting.
LEMMA LoadParts ==
    ASSUME NEW c \in Calls, c.op = "load", NEW m, m = Request(c)
    PROVE  m.max = c.max /\ (c.name \in Short => NamesRead(m) = {c.name})
  <1>1. /\ m.max = c.max
        /\ m.data = First(Text(c.name), (NameLength[c.name] + 1) % Byte)
    BY RequestParts DEF LoadData
  <1>2. /\ c.name \in Name /\ Text(c.name) \in Seq(Cell)
        /\ Len(Text(c.name)) = NameLength[c.name] + 1 /\ NameLength[c.name] + 1 \in Nat
    BY CallParts, TextProperties
  <1>3. ASSUME c.name \in Short PROVE NamesRead(m) = {c.name}
    <2>1. (NameLength[c.name] + 1) % Byte = NameLength[c.name] + 1
      BY <1>2, <1>3, ModFits DEF Short
    <2>2. First(Text(c.name), NameLength[c.name] + 1) = Text(c.name)
      BY <1>2, FirstProperties
    <2>3. m.data = Text(c.name) \o <<>> /\ <<>> \in Seq(Cell)
      BY <1>1, <1>2, <2>1, <2>2, ConcatEmptySeq
    <2>. QED BY <1>3, <2>3, NameIsRead
  <1>. QED BY <1>1, <1>3

\* What is copied from a response that had room for the value is the value.
LEMMA CopiedWhole ==
    ASSUME NEW n, NEW k \in Nat, k <= LoadRoom, NEW m, m.valueSize = k,
           m.data = First(Held(n, k), LoadRoom)
    PROVE  Copied(m) = Held(n, k)
  <1>1. Held(n, k) \in Seq({"held"} \X {n} \X Nat) /\ Len(Held(n, k)) = k
    BY DEF Held
  <1>2. m.data = Held(n, k)
    BY <1>1, FirstProperties, Sizes
  <1>3. \A i \in 1 .. k : i <= Len(m.data) /\ m.data[i] = <<"held", n, i>>
    <2>1. Len(m.data) = k
      BY <1>1, <1>2
    <2>2. \A i \in 1 .. k : Held(n, k)[i] = <<"held", n, i>>
      BY DEF Held
    <2>. QED BY <1>2, <2>1, <2>2
  <1>. QED BY <1>3 DEF Copied, Held

\* Nothing copied is nothing held.
LEMMA CopiedNothing ==
    ASSUME NEW n
    PROVE  /\ Len(<<>>) = 0 /\ Held(n, 0) = <<>>
           /\ \A m : m.valueSize = 0 => Copied(m) = <<>>
  BY DEF Held, Copied

-----------------------------------------------------------------------------
(* The invariant. *)

LEMMA InitIInv == Init => IInv
  <1>. SUFFICES ASSUME Init PROVE IInv
    OBVIOUS
  <1>1. store \in [Name -> Seq(Cell)]
    <2>1. PICK k \in ValueSize :
            store = [n \in Name |-> IF n \in Short THEN Cells("old", k) ELSE <<>>]
      BY DEF Init
    <2>2. {"old"} \X Nat \subseteq Cell
      BY DEF Cell
    <2>3. Cells("old", k) \in Seq(Cell) /\ <<>> \in Seq(Cell)
      BY <2>2, Sizes, CellsProperties, SeqMonotonic, EmptySeq
    <2>. QED BY <2>1, <2>3
  <1>2. status = "idle" /\ Idle
    BY DEF Init, Idle
  <1>3. LoadsExactly /\ EncryptsExactly
    BY DEF Init, LoadsExactly, EncryptsExactly, None
  <1>. QED BY <1>1, <1>2, <1>3 DEF IInv

\* A request that arrives is that of the call that waits.
LEMMA Arriving ==
    ASSUME IInv, NEW op \in {"save", "load", "ecb", "cmac"}, Arrived(op)
    PROVE  /\ status = "waiting" /\ call \in Calls /\ call.op = op /\ result = <<>>
           /\ toServer = Request(call) /\ toClient = None /\ up
           /\ toServer' = None /\ UNCHANGED <<status, call, rc, result, staged>>
  <1>1. toServer.op = op /\ toServer # None
    BY DEF Arrived, None
  <1>2. status = "waiting" /\ Waiting
    BY <1>1 DEF IInv, Idle, Walking
  <1>3. call \in Calls /\ result = <<>> /\ up /\ toServer = Request(call) /\ toClient = None
    BY <1>1, <1>2 DEF Waiting
  <1>4. call.op = op
    BY <1>1, <1>3, RequestParts
  <1>. QED BY <1>2, <1>3, <1>4 DEF Arrived

\* Of a step of the server that leaves the call waiting as it should, nothing
\* else is to be shown.
LEMMA StillWaiting ==
    ASSUME IInv, status = "waiting", UNCHANGED <<status, call, rc, result>>,
           store' \in [Name -> Seq(Cell)], Waiting'
    PROVE  IInv'
  <1>1. result' = <<>> /\ call' \in Calls /\ call' = call
    BY DEF Waiting
  <1>2. call.op = "load" /\ call.max <= LoadRoom => up'
    <2>1. call.op = "load" => call.max \in Nat
      BY <1>1, CallParts
    <2>. QED BY <1>1, <2>1, Sizes DEF Waiting
  <1>3. call.op = "load" => call.max \in Nat
    BY <1>1, CallParts
  <1>4. LoadsExactly'
    BY <1>1, <1>2, <1>3, CopiedNothing DEF LoadsExactly
  <1>5. EncryptsExactly'
    BY DEF EncryptsExactly
  <1>. QED BY <1>4, <1>5 DEF IInv

LEMMA ServeSaveKeeps ==
    ASSUME IInv, ServeSave
    PROVE  IInv'
  <1>1. /\ status = "waiting" /\ call \in Calls /\ call.op = "save" /\ result = <<>>
        /\ toServer = Request(call) /\ toClient = None /\ up
        /\ toServer' = None /\ UNCHANGED <<status, call, rc, result, staged, up>>
    BY Arriving DEF ServeSave
  <1>2. store' \in [Name -> Seq(Cell)]
    <2>1. SubSeq(toServer.data, toServer.nameSize + 1,
                 toServer.nameSize + toServer.valueSize) \in Seq(Cell)
      BY <1>1, SaveParts
    <2>2. \/ UNCHANGED store
          \/ \E n \in NamesRead(toServer) :
                store' = [store EXCEPT ![n] = SubSeq(toServer.data, toServer.nameSize + 1,
                                                   toServer.nameSize + toServer.valueSize)]
      BY DEF ServeSave
    <2>. QED BY <2>1, <2>2 DEF IInv
  <1>3. PICK code : Reply([op |-> "save", size |-> 4, rc |-> code])
    BY DEF ServeSave
  <1>4. toClient' = [op |-> "save", size |-> 4, rc |-> code]
    BY <1>3, Sizes DEF Reply, Accepted
  <1>5. Answer(toClient)'
    BY <1>1, <1>4, Sizes DEF Answer, Accepted
  <1>6. Waiting'
    BY <1>1, <1>5 DEF Waiting
  <1>. QED BY <1>1, <1>2, <1>6, StillWaiting

LEMMA ServeLoadKeeps ==
    ASSUME IInv, ServeLoad
    PROVE  IInv'
  <1>1. /\ status = "waiting" /\ call \in Calls /\ call.op = "load" /\ result = <<>>
        /\ toServer = Request(call) /\ toClient = None /\ up
        /\ toServer' = None /\ UNCHANGED <<status, call, rc, result, staged>>
    BY Arriving DEF ServeLoad
  <1>2. store' \in [Name -> Seq(Cell)]
    BY DEF ServeLoad, IInv
  <1>3. /\ toServer.max = call.max /\ call.max \in Nat
        /\ call.name \in Short => NamesRead(toServer) = {call.name}
    BY <1>1, LoadParts, CallParts
  <1>4. ASSUME NEW n \in NamesRead(toServer), NEW k \in MaxSize, k <= toServer.max, UNCHANGED up,
               Reply([op |-> "load", size |-> LoadResponse, rc |-> "ok",
                      valueSize |-> k, data |-> First(Held(n, k), LoadRoom)])
        PROVE  Waiting'
    <2>1. PICK m : m = [op |-> "load", size |-> LoadResponse, rc |-> "ok",
                        valueSize |-> k, data |-> First(Held(n, k), LoadRoom)]
      OBVIOUS
    <2>2. /\ m.op = "load" /\ m.size = LoadResponse /\ m.valueSize = k
          /\ m.data = First(Held(n, k), LoadRoom) /\ k \in Nat
      BY <2>1, Sizes
    <2>3. toClient' = m /\ Accepted(m)
      BY <1>4, <2>1, <2>2, Sizes DEF Reply, Accepted
    <2>4. call.name \in Short /\ k <= LoadRoom => Copied(m) = Held(call.name, k)
      BY <1>3, <1>4, <2>2, CopiedWhole
    <2>5. Loaded(m)
      BY <1>3, <1>4, <2>2, <2>4 DEF Loaded
    <2>6. Answer(m)
      BY <1>1, <2>2, <2>3, <2>5 DEF Answer
    <2>7. Answer(toClient)'
      BY <1>1, <2>3, <2>6 DEF Answer, Loaded
    <2>. QED BY <1>1, <1>4, <2>7 DEF Waiting
  <1>5. ASSUME NEW k \in MaxSize, k <= toServer.max, k > LoadRoom, up' = FALSE, UNCHANGED toClient
        PROVE  Waiting'
    <2>1. call.max > LoadRoom
      BY <1>3, <1>5, Sizes
    <2>. QED BY <1>1, <1>5, <2>1 DEF Waiting
  <1>6. ASSUME UNCHANGED up,
               Reply([op |-> "load", size |-> LoadResponse, rc |-> "error",
                      valueSize |-> 0, data |-> <<>>])
        PROVE  Waiting'
    <2>1. PICK m : m = [op |-> "load", size |-> LoadResponse, rc |-> "error",
                        valueSize |-> 0, data |-> <<>>]
      OBVIOUS
    <2>2. /\ m.op = "load" /\ m.size = LoadResponse /\ m.valueSize = 0
      BY <2>1
    <2>3. toClient' = m /\ Accepted(m)
      BY <1>6, <2>1, <2>2, Sizes DEF Reply, Accepted
    <2>4. Loaded(m)
      BY <1>3, <2>2, CopiedNothing DEF Loaded
    <2>5. Answer(m)
      BY <1>1, <2>2, <2>3, <2>4 DEF Answer
    <2>6. Answer(toClient)'
      BY <1>1, <2>3, <2>5 DEF Answer, Loaded
    <2>. QED BY <1>1, <1>6, <2>6 DEF Waiting
  <1>7. Waiting'
    BY <1>4, <1>5, <1>6 DEF ServeLoad
  <1>. QED BY <1>1, <1>2, <1>7, StillWaiting

LEMMA ServeEcbKeeps ==
    ASSUME IInv, ServeEcb
    PROVE  IInv'
  <1>1. /\ status = "waiting" /\ call \in Calls /\ call.op = "ecb" /\ result = <<>>
        /\ toServer = Request(call) /\ toClient = None /\ up
        /\ toServer' = None /\ UNCHANGED <<status, call, rc, result, staged, store, up>>
    BY Arriving DEF ServeEcb
  <1>2. toServer.data = call.data
    BY <1>1, RequestParts DEF EcbData
  <1>3. PICK m : /\ m.op = "ecb" /\ m.size = 8 + Len(call.data)
                 /\ m.rc = "ok" => m.data = Ecb(call.data)
                 /\ Reply(m)
    BY <1>2 DEF ServeEcb
  <1>4. CASE Accepted(m)
    <2>1. toClient' = m
      BY <1>3, <1>4 DEF Reply
    <2>2. Answer(toClient)'
      BY <1>1, <1>3, <1>4, <2>1 DEF Answer, Accepted
    <2>3. Waiting'
      BY <1>1, <2>2 DEF Waiting
    <2>. QED BY <1>1, <2>3, StillWaiting DEF IInv
  <1>5. CASE ~Accepted(m)
    <2>1. toClient' = None
      BY <1>3, <1>5 DEF Reply
    <2>2. 8 + Len(call.data) > DataSize + Overhead
      BY <1>1, <1>3, <1>5, CallParts, Sizes DEF Accepted
    <2>3. Waiting'
      BY <1>1, <2>1, <2>2 DEF Waiting
    <2>. QED BY <1>1, <2>3, StillWaiting DEF IInv
  <1>. QED BY <1>4, <1>5

LEMMA ServeCmacKeeps ==
    ASSUME IInv, ServeCmac
    PROVE  IInv'
  <1>1. /\ status = "waiting" /\ call \in Calls /\ call.op = "cmac" /\ result = <<>>
        /\ toServer = Request(call) /\ toClient = None /\ up
        /\ toServer' = None /\ UNCHANGED <<status, call, rc, result, staged, store, up>>
    BY Arriving DEF ServeCmac
  <1>2. toServer.data = call.prior \o call.data
    <2>1. toServer = CmacData(call)
      BY <1>1, RequestParts
    <2>2. CmacData(call).data = call.prior \o call.data
      BY Zenon DEF CmacData
    <2>. QED BY <2>1, <2>2
  <1>3. PICK m : /\ m.op = "cmac" /\ m.size = 24
                 /\ m.rc = "ok" => m.data = Mac(call.prior \o call.data)
                 /\ Reply(m)
    BY <1>2 DEF ServeCmac
  <1>4. toClient' = m /\ Accepted(m)
    BY <1>3, Sizes DEF Reply, Accepted
  <1>5. Answer(toClient)'
    BY <1>1, <1>3, <1>4 DEF Answer, Accepted
  <1>6. Waiting'
    BY <1>1, <1>5 DEF Waiting
  <1>. QED BY <1>1, <1>6, StillWaiting DEF IInv

\* A call starts, or is refused, when nothing is on its way.
LEMMA CallKeeps ==
    ASSUME IInv, NEW c \in Calls, Call(c)
    PROVE  IInv'
  <1>1. /\ status = "idle" /\ toServer = None /\ toClient = None /\ up
        /\ call' = c /\ result' = <<>> /\ UNCHANGED <<toClient, store, up>>
    BY DEF Call, IInv, Idle
  <1>2. c.op = "load" => c.max \in Nat
    BY CallParts
  <1>3. LoadsExactly'
    BY <1>1, <1>2, CopiedNothing DEF LoadsExactly
  <1>4. EncryptsExactly'
    BY DEF Call, EncryptsExactly
  <1>5. CASE status' = "waiting" /\ toServer' = Request(c)
    BY <1>1, <1>3, <1>4, <1>5 DEF IInv, Waiting
  <1>6. CASE UNCHANGED <<status, toServer>>
    BY <1>1, <1>3, <1>4, <1>6 DEF IInv, Idle
  <1>. QED BY <1>5, <1>6 DEF Call

\* A reply is the answer to the call that waits.
LEMMA Answering ==
    ASSUME IInv, toClient.op \in {"save", "load", "ecb", "cmac"}
    PROVE  /\ status = "waiting" /\ call \in Calls /\ up /\ toServer = None
           /\ Answer(toClient)
  <1>1. toClient # None /\ \A n \in Short : toClient # BootData(n)
    BY DEF None, BootData
  <1>. QED BY <1>1 DEF IInv, Idle, Waiting, Walking

LEMMA ReturnKeeps ==
    ASSUME IInv, Return
    PROVE  IInv'
  <1>1. /\ status = "waiting" /\ call \in Calls /\ up /\ toServer = None
        /\ Answer(toClient)
    BY Answering DEF Return
  <1>2. /\ status' = "idle" /\ toClient' = None /\ rc' = toClient.rc
        /\ UNCHANGED <<call, toServer, store, staged, up>>
    BY DEF Return
  <1>3. Idle'
    BY <1>1, <1>2 DEF Idle
  <1>4. LoadsExactly'
    <2>. SUFFICES ASSUME call.op = "load" PROVE LoadsExactly'
      BY <1>2 DEF LoadsExactly
    <2>1. Loaded(toClient) /\ result' = Copied(toClient) /\ call.max \in Nat
      BY <1>1, CallParts DEF Answer, Return
    <2>2. Len(result') = toClient.valueSize
      <3>1. toClient.valueSize \in Nat
        BY <2>1 DEF Loaded
      <3>. QED BY <2>1, <3>1 DEF Copied
    <2>. QED BY <1>1, <1>2, <2>1, <2>2 DEF LoadsExactly, Loaded
  <1>5. EncryptsExactly'
    <2>. SUFFICES ASSUME toClient.rc = "ok", call.op \in {"ecb", "cmac"} PROVE EncryptsExactly'
      BY <1>2 DEF EncryptsExactly
    <2>1. result' = toClient.data
      BY <1>1 DEF Answer, Return
    <2>. QED BY <1>1, <1>2, <2>1 DEF Answer, EncryptsExactly
  <1>. QED BY <1>2, <1>3, <1>4, <1>5 DEF IInv

LEMMA WalkKeeps ==
    ASSUME IInv, NEW n \in Short, Walk(n)
    PROVE  IInv'
  <1>1. /\ status' = "walking" /\ toClient' = BootData(n) /\ call' = None
        /\ toServer' = None /\ up' /\ store' = store /\ up' = up
    BY DEF Walk, IInv, Idle
  <1>2. BootData(n)' = BootData(n)
    BY <1>1 DEF BootData
  <1>3. Walking'
    BY <1>1, <1>2 DEF Walking
  <1>4. LoadsExactly' /\ EncryptsExactly'
    BY <1>1 DEF LoadsExactly, EncryptsExactly, None
  <1>. QED BY <1>1, <1>3, <1>4 DEF IInv

\* An entry that is staged is the walk's.
LEMMA Staging ==
    ASSUME IInv, toClient.op = "boot"
    PROVE  /\ status = "walking" /\ call = None /\ up /\ toServer = None
           /\ \E n \in Short : toClient = BootData(n)
  <1>1. toClient # None
    BY DEF None
  <1>2. status = "waiting" => toClient.op \in {"save", "load", "ecb", "cmac"}
    BY <1>1, CallParts DEF IInv, Waiting, Answer
  <1>. QED BY <1>1, <1>2 DEF IInv, Idle, Walking

LEMMA StageKeeps ==
    ASSUME IInv, Stage
    PROVE  IInv'
  <1>1. status = "walking" /\ call = None /\ up /\ toServer = None
    BY Staging DEF Stage
  <1>2. status' = "idle" /\ toClient' = None /\ UNCHANGED <<call, rc, result, toServer, store, up>>
    BY DEF Stage
  <1>3. Idle'
    BY <1>1, <1>2 DEF Idle
  <1>4. LoadsExactly' /\ EncryptsExactly'
    BY <1>1, <1>2 DEF LoadsExactly, EncryptsExactly, None
  <1>. QED BY <1>2, <1>3, <1>4 DEF IInv

LEMMA StutterKeeps ==
    ASSUME IInv, UNCHANGED vars
    PROVE  IInv'
  BY DEF IInv, vars, Idle, Waiting, Walking, Answer, Loaded, BootData, LoadsExactly, EncryptsExactly

LEMMA NextIInv == IInv /\ [Next]_vars => IInv'
  BY CallKeeps, ServeSaveKeeps, ServeLoadKeeps, ServeEcbKeeps, ServeCmacKeeps, ReturnKeeps,
     WalkKeeps, StageKeeps, StutterKeeps DEF Next

-----------------------------------------------------------------------------
(* The theorems. *)

\* The inductive invariant holds in every reachable state, for any names, sizes,
\* widths and limits.
THEOREM Invariance == Spec => []IInv
  BY InitIInv, NextIInv, PTL DEF Spec

\* For any sizes, a load brings back what the handler of its own name holds as
\* long as that fits the response, and never more than its caller has room for
\* (ipc_setting_load and both callbacks).
THEOREM LoadsAreExact == Spec => []LoadsExactly
  <1>1. IInv => LoadsExactly
    BY DEF IInv
  <1>. QED BY <1>1, Invariance, PTL

\* For data and prior data of any sizes, an operation that succeeds brings back
\* the encryption, or the MAC, of just that data (ipc_crypto.c, both halves).
THEOREM OperationsAreExact == Spec => []EncryptsExactly
  <1>1. IInv => EncryptsExactly
    BY DEF IInv
  <1>. QED BY <1>1, Invariance, PTL

\* Whatever the limits of the link, only what is too long for the receiver's
\* buffer, or whose answer is, waits for ever: those sizes are all of them.
THEOREM OnlyLongOnesWait == Spec => []Answered
  <1>1. IInv => Answered
    <2>. SUFFICES ASSUME IInv, Stuck PROVE Answered
      BY DEF Answered
    <2>1. /\ status \in {"waiting", "walking"} /\ up
          /\ toServer = None \/ ~Delivered(toServer)
          /\ toClient = None \/ ~Delivered(toClient)
      BY DEF Stuck, IInv
    <2>2. CASE status = "walking"
      <3>1. PICK n \in Short : toClient = BootData(n)
        BY <2>2 DEF IInv, Walking
      <3>2. /\ toClient.name = n /\ toClient.op = "boot"
            /\ toClient.size = 2 + NameLength[n] + 1 + Len(store[n])
        BY <3>1 DEF BootData
      <3>3. n \in Name /\ NameLength[n] \in Nat /\ Len(store[n]) \in Nat
        BY TextProperties, LenProperties DEF Short, IInv
      <3>4. ~(toClient.size + Overhead <= ReadRoom)
        BY <2>1, <3>2 DEF None, Delivered
      <3>5. NameLength[n] + Len(store[n]) > ReadRoom - Overhead - 3
        BY <3>2, <3>3, <3>4, Sizes
      <3>. QED BY <2>2, <3>2, <3>5 DEF Answered
    <2>3. CASE status = "waiting"
      <3>1. call \in Calls /\ Waiting
        BY <2>3 DEF IInv, Waiting
      <3>2. CASE toServer = Request(call)
        <4>1. toServer # None
          BY <3>1, <3>2, RequestParts, CallParts DEF None
        <4>2. ~(toServer.size + Overhead <= ReadRoom)
          BY <2>1, <4>1 DEF Delivered
        <4>3. CASE call.op = "save"
          <5>1. /\ toServer.size \in Nat
                /\ toServer.size <= 3 + NameLength[call.name] + Len(call.value)
                /\ NameLength[call.name] \in Nat /\ Len(call.value) \in Nat
            BY <3>1, <3>2, <4>3, RequestParts, CallParts, ValueCells, TextProperties
          <5>2. NameLength[call.name] + Len(call.value) > ReadRoom - Overhead - 3
            BY <4>2, <5>1, Sizes
          <5>. QED BY <2>3, <4>3, <5>2 DEF Answered
        <4>4. CASE call.op = "load"
          BY <2>1, <3>1, <3>2, <4>1, <4>4, RequestParts
        <4>5. CASE call.op = "ecb"
          <5>1. toServer.size = 4 + Len(call.data) /\ Len(call.data) \in Nat
            BY <3>1, <3>2, <4>5, RequestParts, CallParts DEF EcbData
          <5>2. Len(call.data) > ReadRoom - Overhead - 8
            BY <4>2, <5>1, Sizes
          <5>. QED BY <2>3, <4>5, <5>2 DEF Answered
        <4>6. CASE call.op = "cmac"
          <5>1. /\ toServer.size = 4 + Len(call.data) + Len(call.prior)
                /\ Len(call.data) \in Nat /\ Len(call.prior) \in Nat
            <6>1. toServer = CmacData(call)
              BY <3>1, <3>2, <4>6, RequestParts
            <6>2. CmacData(call).size = 4 + Len(call.data) + Len(call.prior)
              BY Zenon DEF CmacData
            <6>. QED BY <3>1, <4>6, <6>1, <6>2, CallParts
          <5>2. PICK a, b \in Nat : a = Len(call.prior) /\ b = Len(call.data)
            BY <5>1
          <5>3. ~(4 + b + a + Overhead <= ReadRoom)
            BY <4>2, <5>1, <5>2
          <5>4. ReadRoom \in Nat /\ Overhead \in Nat
            BY Sizes
          <5>5. a + b > ReadRoom - Overhead - 4
            BY <5>3, <5>4
          <5>. QED BY <2>3, <4>6, <5>2, <5>5 DEF Answered
        <4>. QED BY <3>1, <4>3, <4>4, <4>5, <4>6, CallParts
      <3>3. CASE Answer(toClient)
        <4>1. toClient # None
          BY <3>1, <3>3, CallParts DEF Answer, None
        <4>2. ~(toClient.size + Overhead <= ReadRoom)
          BY <2>1, <4>1 DEF Delivered
        <4>3. call.op = "ecb" /\ toClient.size = 8 + Len(call.data)
          BY <3>1, <3>3, <4>2, CallParts, Sizes DEF Answer
        <4>4. Len(call.data) > ReadRoom - Overhead - 8
          BY <3>1, <4>2, <4>3, CallParts, Sizes
        <4>. QED BY <2>3, <4>3, <4>4 DEF Answered
      <3>4. CASE call.op = "ecb" /\ 8 + Len(call.data) > DataSize + Overhead
        <4>1. Len(call.data) > ReadRoom - Overhead - 8
          BY <3>1, <3>4, CallParts, Sizes
        <4>. QED BY <2>3, <3>4, <4>1 DEF Answered
      <3>. QED BY <2>1, <3>1, <3>2, <3>3, <3>4 DEF Waiting
    <2>. QED BY <2>1, <2>2, <2>3
  <1>. QED BY <1>1, Invariance, PTL

\* For any names and values whose sizes a uint8_t holds, a save that reports
\* success has stored its value under its name; one that does not has stored
\* nothing, and no other setting is ever touched (ipc_setting_callback_save).
THEOREM SavesAreExact == Spec => SavesExactly
  <1>. DEFINE Exactly ==
         toServer.op = "save" /\ toServer' = None /\ call.name \in Short /\ Len(call.value) < Byte =>
           IF toClient'.rc = "ok" THEN store' = [store EXCEPT ![call.name] = call.value]
           ELSE store' = store
  <1>1. IInv /\ [Next]_vars => [Exactly]_vars
    <2>. SUFFICES ASSUME IInv, Next, toServer.op = "save", toServer' = None,
                         call.name \in Short, Len(call.value) < Byte
                  PROVE  IF toClient'.rc = "ok" THEN store' = [store EXCEPT ![call.name] = call.value]
                         ELSE store' = store
      OBVIOUS
    <2>1. toServer # None
      BY DEF None
    <2>2. status = "waiting" /\ toServer = Request(call) /\ toClient = None
      BY <2>1 DEF IInv, Idle, Waiting, Walking
    <2>3. ServeSave
      BY <2>1, <2>2 DEF Next, Call, Walk, Return, Stage, ServeLoad, ServeEcb, ServeCmac, Arrived, None
    <2>4. call \in Calls /\ call.op = "save"
      BY <2>3, Arriving DEF ServeSave
    <2>5. /\ NamesRead(toServer) = {call.name} /\ Exact(toServer) = {call.name}
          /\ SubSeq(toServer.data, toServer.nameSize + 1,
                    toServer.nameSize + toServer.valueSize) = call.value
      BY <2>2, <2>4, SaveParts
    <2>6. \A code : Reply([op |-> "save", size |-> 4, rc |-> code]) => toClient'.rc = code
      BY Sizes DEF Reply, Accepted
    <2>7. \/ store' = [store EXCEPT ![call.name] = call.value] /\ toClient'.rc = "ok"
          \/ store' = store /\ toClient'.rc = "error"
      BY <2>3, <2>5, <2>6 DEF ServeSave
    <2>. QED BY <2>7
  <1>. QED BY <1>1, Invariance, PTL DEF Spec, SavesExactly

\* Whatever the layout of an entry of the walk, a set handler reads the value
\* that is stored, or as much of it as it asks for
\* (ipc_setting_callback_boot_load_read_value).
THEOREM WalksAreExact == Spec => WalksExactly
  <1>. DEFINE Exactly ==
         status = "walking" /\ status' = "idle" =>
           LET stored == store[staged'.name]
           IN  Len(stored) < Byte => staged'.value = First(stored, staged'.asked)
  <1>1. IInv /\ [Next]_vars => [Exactly]_vars
    <2>. SUFFICES ASSUME IInv, Next, status = "walking", status' = "idle",
                         Len(store[staged'.name]) < Byte
                  PROVE  staged'.value = First(store[staged'.name], staged'.asked)
      OBVIOUS
    <2>1. PICK n \in Short : toClient = BootData(n)
      BY DEF IInv, Walking
    <2>2. toServer = None /\ toClient.op = "boot"
      BY <2>1 DEF IInv, Walking, BootData
    <2>3. Stage
      BY <2>2 DEF Next, Call, Walk, Return, ServeSave, ServeLoad, ServeEcb, ServeCmac, Arrived, None
    <2>4. PICK len \in {toClient.valueSize} \cup MaxSize :
            staged' = [name |-> toClient.name, asked |-> len, value |-> ReadValue(toClient, len)]
      BY <2>3 DEF Stage
    <2>5. /\ n \in Name /\ store[n] \in Seq(Cell) /\ Len(store[n]) \in Nat
          /\ Text(n) \in Seq(Cell) /\ Len(Text(n)) = NameLength[n] + 1
      BY TextProperties, LenProperties DEF Short, IInv
    <2>6. /\ toClient.name = n /\ toClient.nameSize = NameLength[n] + 1
          /\ toClient.valueSize = Len(store[n]) % Byte
          /\ toClient.data = Text(n) \o store[n]
      BY <2>1, Zenon DEF BootData
    <2>7. staged'.name = n /\ staged'.asked = len /\ staged'.value = ReadValue(toClient, len)
      BY <2>4, <2>6
    <2>8. toClient.valueSize = Len(store[n]) /\ len \in Nat
      <3>1. Len(store[n]) % Byte = Len(store[n])
        BY <2>5, <2>7, ModFits
      <3>2. toClient.valueSize = Len(store[n])
        BY <2>6, <3>1
      <3>3. \A k \in MaxSize : k \in Nat
        BY Sizes
      <3>. QED BY <2>5, <3>2, <3>3
    <2>9. PICK k \in 0 .. Len(store[n]) :
            /\ k = (IF len > Len(store[n]) THEN Len(store[n]) ELSE len)
            /\ k = (IF len < Len(store[n]) THEN len ELSE Len(store[n]))
      BY <2>5, <2>8
    <2>10. ReadValue(toClient, len) = SubSeq(Text(n) \o store[n], Len(Text(n)) + 1, Len(Text(n)) + k)
      BY <2>5, <2>6, <2>8, <2>9 DEF ReadValue
    <2>11. ReadValue(toClient, len) = SubSeq(store[n], 1, k)
      BY <2>5, <2>9, <2>10, BehindHeader
    <2>12. First(store[n], len) = SubSeq(store[n], 1, k)
      BY <2>9 DEF First
    <2>. QED BY <2>7, <2>11, <2>12
  <1>. QED BY <1>1, Invariance, PTL DEF Spec, WalksExactly
=============================================================================
