---------------------------- MODULE PeekerProofs ----------------------------
(***************************************************************************)
(* For every input, buffer bound and set of reader answers: Peeker keeps   *)
(* its types and its byte fresh, and, when the reader never answers with   *)
(* no byte and no error, it implements ByteScanner and a decoder of        *)
(* pointer fields reads each of them once and in order through it.         *)
(***************************************************************************)
EXTENDS PeekedFields, SequenceTheorems, TLAPS

LEMMA SliceProperties ==
  ASSUME NEW m \in Nat, NEW n \in Nat, m + n <= Len(Data)
  PROVE  /\ SubSeq(Data, m + 1, m + n) \in Seq(Nat)
         /\ Len(SubSeq(Data, m + 1, m + n)) = n
         /\ \A i \in 1..n : SubSeq(Data, m + 1, m + n)[i] = Data[m + i]
<1>1. Len(Data) \in Nat /\ \A i \in (m+1)..(m+n) : Data[i] \in Nat
  BY DataAssumption, LenProperties, ElementOfSeq
<1>2. QED
  BY <1>1, SubSeqProperties, n = (m + n) - (m + 1) + 1

LEMMA OneByteSlice ==
  ASSUME NEW m \in Nat, m + 1 <= Len(Data)
  PROVE  SubSeq(Data, m + 1, m + 1) = << Data[m + 1] >>
<1> DEFINE s == SubSeq(Data, m + 1, m + 1)
<1>1. s \in Seq(Nat) /\ Len(s) = 1 /\ s[1] = Data[m + 1]
  <2>1. /\ SubSeq(Data, m + 1, m + 1) \in Seq(Nat)
        /\ Len(SubSeq(Data, m + 1, m + 1)) = 1
        /\ \A i \in 1..1 : SubSeq(Data, m + 1, m + 1)[i] = Data[m + i]
    BY SliceProperties, 1 \in Nat
  <2>2. 1 \in 1..1
    OBVIOUS
  <2>3. QED BY <2>1, <2>2
<1> HIDE DEF s
<1>2. << s[1] >> \in Seq(Nat) /\ Len(<< s[1] >>) = 1 /\ << s[1] >>[1] = s[1]
  <2>1. s[1] \in Nat
    BY <1>1, ElementOfSeq, 1 \in 1..1
  <2>2. QED BY <2>1
<1>3. s = << s[1] >>
  BY <1>1, <1>2, SeqEqual
<1>4. QED BY <1>1, <1>3 DEF s

\* An unread byte followed by the next n bytes is the slice that starts at it.
LEMMA PendingSlice ==
  ASSUME NEW m \in Nat \ {0}, NEW n \in Nat, m + n <= Len(Data)
  PROVE  << Data[m] >> \o SubSeq(Data, m + 1, m + n) = SubSeq(Data, m, m + n)
<1> DEFINE s == SubSeq(Data, m + 1, m + n)
           t == SubSeq(Data, (m - 1) + 1, (m - 1) + (n + 1))
<1>1. /\ s \in Seq(Nat)
      /\ Len(s) = n
      /\ \A i \in 1..n : s[i] = Data[m + i]
  BY SliceProperties
<1>2. /\ t \in Seq(Nat)
      /\ Len(t) = n + 1
      /\ \A i \in 1..(n + 1) : t[i] = Data[(m - 1) + i]
  <2>1. m - 1 \in Nat /\ n + 1 \in Nat /\ (m - 1) + (n + 1) <= Len(Data)
    BY DataAssumption, LenProperties
  <2>2. QED BY <2>1, SliceProperties
<1>3. Len(Data) \in Nat /\ Data[m] \in Nat
  BY DataAssumption, LenProperties, ElementOfSeq
<1> HIDE DEF s, t
<1>4. << Data[m] >> \in Seq(Nat) /\ Len(<< Data[m] >>) = 1 /\ << Data[m] >>[1] = Data[m]
  BY <1>3
<1>5. /\ << Data[m] >> \o s \in Seq(Nat)
      /\ Len(<< Data[m] >> \o s) = n + 1
      /\ \A i \in 1..(n + 1) :
           (<< Data[m] >> \o s)[i] = IF i <= 1 THEN Data[m] ELSE s[i - 1]
  BY <1>1, <1>4, ConcatProperties
<1>6. ASSUME NEW i \in 1..(n + 1)
      PROVE  (<< Data[m] >> \o s)[i] = t[i]
  <2>1. CASE i = 1
    BY <2>1, <1>2, <1>5
  <2>2. CASE i # 1
    <3>1. i - 1 \in 1..n /\ ~(i <= 1) /\ m + (i - 1) = (m - 1) + i
      BY <2>2
    <3>2. QED BY <3>1, <1>1, <1>2, <1>5
  <2>3. QED BY <2>1, <2>2
<1>7. << Data[m] >> \o s = t
  BY <1>2, <1>5, <1>6, SeqEqual
<1>8. t = SubSeq(Data, m, m + n)
  BY DEF t
<1>9. QED BY <1>7, <1>8 DEF s

-----------------------------------------------------------------------------

\* Types alone do not say what UnreadByte will replay; LastByteFresh does, and
\* each needs the other to be inductive.
IInv == TypeOK /\ LastByteFresh

\* What one Read with a non-empty buffer hands to its caller.
LEMMA ReadDelivers ==
  ASSUME IInv, NEW k \in 1..MaxBuf, NEW r \in ReaderRead(Room(k))
  PROVE  /\ Got(r.n) \in Seq(Nat)
         /\ r.n \in Nat
         /\ pos + r.n <= Len(Data)
         /\ Got(r.n) = SubSeq(Data, Cursor + 1, pos + r.n)
         /\ Len(Got(r.n)) = (pos + r.n) - Cursor
         /\ Len(Got(r.n)) <= k
         /\ Got(r.n) # << >> => pos + r.n > 0 /\ Kept(Got(r.n)) = Data[pos + r.n]
<1> USE MaxBufAssumption, QuirksAssumption
<1> DEFINE n == r.n
           got == Got(n)
<1>1. pos \in Nat /\ n \in Nat /\ pos + n <= Len(Data) /\ n <= Room(k)
      /\ Len(Data) \in Nat /\ k \in Nat
  BY DataAssumption, LenProperties DEF IInv, TypeOK, ReaderRead, Results
<1> HIDE DEF n
<1>2. SUFFICES
        /\ got \in Seq(Nat)
        /\ got = SubSeq(Data, Cursor + 1, pos + n)
        /\ Len(got) = (pos + n) - Cursor
        /\ Len(got) <= k
        /\ got # << >> => pos + n > 0 /\ Kept(got) = Data[pos + n]
  BY <1>1 DEF n
<1>3. CASE peekState = "unread"
  <2>1. Cursor = pos - 1 /\ Pending = << Data[pos] >> /\ pos > 0
    BY <1>3 DEF IInv, LastByteFresh, Cursor, Pending
  <2>2. got = SubSeq(Data, pos, pos + n)
    <3>1. pos \in Nat \ {0}
      BY <1>1, <2>1
    <3>2. << Data[pos] >> \o SubSeq(Data, pos + 1, pos + n) = SubSeq(Data, pos, pos + n)
      BY <3>1, <1>1, PendingSlice
    <3>3. QED BY <2>1, <3>2 DEF Got
  <2> HIDE DEF got
  <2>3. /\ pos - 1 \in Nat /\ n + 1 \in Nat
        /\ (pos - 1) + (n + 1) = pos + n /\ (pos - 1) + 1 = pos
    BY <1>1, <2>1
  <2>4. SubSeq(Data, (pos - 1) + 1, (pos - 1) + (n + 1)) = got
    BY <2>2, <2>3
  <2>5. /\ got \in Seq(Nat)
        /\ Len(got) = n + 1
        /\ \A i \in 1..(n + 1) : got[i] = Data[(pos - 1) + i]
    BY <1>1, <2>3, <2>4, SliceProperties
  <2>6. Kept(got) = Data[pos + n]
    BY <1>1, <2>3, <2>5 DEF Kept
  <2>7. n + 1 <= k
    BY <1>1, <1>3 DEF Room, Pending
  <2>8. Len(got) = (pos + n) - Cursor /\ Cursor + 1 = pos
    BY <1>1, <2>1, <2>5
  <2>9. QED BY <1>1, <2>1, <2>2, <2>5, <2>6, <2>7, <2>8
<1>4. CASE peekState # "unread"
  <2>1. Cursor = pos /\ Pending = << >>
    BY <1>4 DEF Cursor, Pending
  <2>2. /\ SubSeq(Data, pos + 1, pos + n) \in Seq(Nat)
        /\ Len(SubSeq(Data, pos + 1, pos + n)) = n
        /\ \A i \in 1..n : SubSeq(Data, pos + 1, pos + n)[i] = Data[pos + i]
    BY <1>1, SliceProperties
  <2>3. got = SubSeq(Data, pos + 1, pos + n)
    BY <2>1, <2>2, ConcatEmptySeq DEF Got
  <2> HIDE DEF got
  <2>4. Len(got) = n /\ \A i \in 1..n : got[i] = Data[pos + i]
    BY <2>2, <2>3
  <2>5. n <= k
    BY <1>1, <1>4 DEF Room, Pending
  <2>6. got # << >> => n > 0 /\ Kept(got) = Data[pos + n]
    <3>1. ASSUME got # << >> PROVE n > 0
      BY <1>1, <2>2, <2>3, <2>4, <3>1, EmptySeq
    <3>2. ASSUME n > 0 PROVE got[Len(got)] = Data[pos + n]
      BY <1>1, <2>4, <3>2
    <3>3. QED BY <3>1, <3>2 DEF Kept
  <2>7. QED BY <1>1, <2>1, <2>2, <2>3, <2>4, <2>5, <2>6
<1>5. QED BY <1>3, <1>4

LEMMA InitIInv == Init => IInv
BY DataAssumption, MaxBufAssumption, LenProperties
   DEF Init, IInv, TypeOK, LastByteFresh, Ret, Errors

\* The invariant in the next state, from its parts.
LEMMA KeepIInv ==
  ASSUME pos' \in 0..Len(Data), peekState' \in {"empty", "set", "unread"}, lastByte' \in Nat,
         peekState' # "empty" => pos' > 0 /\ lastByte' = Data[pos'],
         NEW op \in {"none", "Read", "ReadByte", "UnreadByte"},
         NEW bytes \in Seq(Nat), Len(bytes) <= MaxBuf,
         NEW e \in Errors \cup {"invalid"},
         ret' = Ret(op, bytes, e)
  PROVE  IInv'
<1>1. ret' \in [op : {"none", "Read", "ReadByte", "UnreadByte"},
                bytes : Seq(Nat), err : Errors \cup {"invalid"}]
  BY DEF Ret
<1>2. ret'.bytes = bytes
  BY DEF Ret
<1>3. QED BY <1>1, <1>2 DEF IInv, TypeOK, LastByteFresh

LEMMA StepIInv == IInv /\ [Next]_vars => IInv'
<1> SUFFICES ASSUME IInv, [Next]_vars PROVE IInv'
  OBVIOUS
<1> USE MaxBufAssumption
<1>0. Len(Data) \in Nat /\ \A i \in 1..Len(Data) : Data[i] \in Nat
  BY DataAssumption, LenProperties, ElementOfSeq
<1>01. << >> \in Seq(Nat) /\ Len(<< >>) <= MaxBuf
  OBVIOUS
<1>1. CASE ReadNothing
  <2>1. PICK e \in Errors : ret' = Ret("Read", << >>, e)
    BY <1>1 DEF ReadNothing, ReaderRead, Results, Errors
  <2>2. UNCHANGED <<pos, peekState, lastByte>>
    BY <1>1 DEF ReadNothing
  <2>3. QED BY <2>1, <2>2, <1>01, KeepIInv DEF IInv, TypeOK, LastByteFresh
<1>2. ASSUME NEW k \in 1..MaxBuf, ReadBuf(k)
      PROVE  IInv'
  <2>1. PICK r \in ReaderRead(Room(k)) :
          /\ pos' = pos + r.n
          /\ ret' = Ret("Read", Got(r.n), r.err)
          /\ \/ Got(r.n) # << >> /\ peekState' = "set" /\ lastByte' = Kept(Got(r.n))
             \/ Got(r.n) = << >> /\ UNCHANGED <<peekState, lastByte>>
    BY <1>2 DEF ReadBuf
  <2> DEFINE got == Got(r.n)
  <2>2. /\ got \in Seq(Nat)
        /\ r.n \in Nat
        /\ pos + r.n <= Len(Data)
        /\ Len(got) = (pos + r.n) - Cursor
        /\ Len(got) <= k
        /\ got # << >> => pos + r.n > 0 /\ Kept(got) = Data[pos + r.n]
    BY ReadDelivers
  <2>3. /\ pos' = pos + r.n
        /\ ret' = Ret("Read", got, r.err)
        /\ \/ got # << >> /\ peekState' = "set" /\ lastByte' = Kept(got)
           \/ got = << >> /\ UNCHANGED <<peekState, lastByte>>
    BY <2>1
  <2>4. r.err \in Errors
    BY DEF ReaderRead, Results
  <2> HIDE DEF got
  <2>5. CASE got # << >>
    <3>1. Len(got) <= MaxBuf
      BY <2>2, LenProperties
    <3>2. pos' \in 1..Len(Data) /\ lastByte' = Data[pos'] /\ lastByte' \in Nat /\ peekState' = "set"
      BY <2>2, <2>3, <2>5, <1>0
    <3>3. QED
      BY <3>1, <3>2, <2>2, <2>3, <2>4, <1>0, KeepIInv
  <2>6. CASE got = << >>
    <3>1. Len(got) = 0
      BY <2>6, EmptySeq
    <3>2. r.n = 0 /\ pos' = pos
      BY <3>1, <2>2, <2>3 DEF IInv, TypeOK, Cursor
    <3>3. QED
      BY <3>1, <3>2, <2>2, <2>3, <2>4, <2>6, <1>0 DEF IInv, TypeOK, LastByteFresh, Ret
  <2>7. QED BY <2>5, <2>6
<1>3. CASE ReadByte
  <2>1. ASSUME NEW b \in Nat
        PROVE  << b >> \in Seq(Nat) /\ Len(<< b >>) <= MaxBuf
    OBVIOUS
  <2>2. << >> \in Seq(Nat) /\ Len(<< >>) <= MaxBuf
    OBVIOUS
  <2>3. CASE peekState = "unread" /\ peekState' = "set"
             /\ ret' = Ret("ReadByte", << lastByte >>, "nil") /\ UNCHANGED <<pos, lastByte>>
    BY <2>3, <2>1, <1>0 DEF IInv, TypeOK, LastByteFresh, Ret, Errors
  <2>4. ASSUME NEW r \in ReaderRead(1), r.n = 0,
               ret' = Ret("ReadByte", IF r.err = "nil" THEN << 0 >> ELSE << >>, r.err),
               UNCHANGED <<pos, peekState, lastByte>>
        PROVE  IInv'
    BY <2>4, <2>1, <2>2, <1>0 DEF IInv, TypeOK, LastByteFresh, Ret, ReaderRead, Results
  <2>5. ASSUME NEW r \in ReaderRead(1), r.n = 1, pos' = pos + 1, peekState' = "set",
               lastByte' = Data[pos + 1], ret' = Ret("ReadByte", << Data[pos + 1] >>, r.err)
        PROVE  IInv'
    <3>1. pos + 1 \in 1..Len(Data) /\ r.err \in Errors
      BY <2>5, <1>0 DEF IInv, TypeOK, ReaderRead, Results
    <3>2. Data[pos + 1] \in Nat
      BY <3>1, <1>0
    <3>3. QED
      BY <3>1, <3>2, <2>1, <2>5, <1>0 DEF IInv, TypeOK, LastByteFresh, Ret
  <2>6. QED BY <1>3, <2>3, <2>4, <2>5 DEF ReadByte
<1>4. CASE UnreadByte
  <2>1. PICK e \in {"nil", "invalid"} : ret' = Ret("UnreadByte", << >>, e)
    BY <1>4 DEF UnreadByte
  <2>2. /\ UNCHANGED <<pos, lastByte>>
        /\ peekState' \in {"empty", "set", "unread"}
        /\ peekState' # "empty" => peekState # "empty"
    BY <1>4 DEF UnreadByte, Unreadable, IInv, TypeOK
  <2>3. QED BY <2>1, <2>2, <1>01, KeepIInv DEF IInv, TypeOK, LastByteFresh, Errors
<1>5. CASE UNCHANGED vars
  BY <1>5 DEF vars, IInv, TypeOK, LastByteFresh
<1>6. QED BY <1>1, <1>2, <1>3, <1>4, <1>5 DEF Next

\* Whatever the reader answers, the peeker's state and what it returns keep
\* their types, and no call returns more bytes than its buffer holds
\* (peeker.go:34-80).
THEOREM TypeCorrect == Spec => []TypeOK
<1>1. IInv => TypeOK
  BY DEF IInv
<1>2. QED BY <1>1, InitIInv, StepIInv, PTL DEF Spec

\* Whatever the reader answers, the byte UnreadByte would replay is the last
\* one taken from the reader (peeker.go:51-54, 68-70).
THEOREM LastByteIsFresh == Spec => []LastByteFresh
<1>1. IInv => LastByteFresh
  BY DEF IInv
<1>2. QED BY <1>1, InitIInv, StepIInv, PTL DEF Spec

-----------------------------------------------------------------------------

LEMMA InitRefines == Init => Scanner!Init
BY DEF Init, Scanner!Init, Cursor, Ret

LEMMA StepRefines ==
  ASSUME "zero_read" \notin Quirks, IInv, [Next]_vars
  PROVE  [Scanner!Next]_Scanner!vars
<1> USE MaxBufAssumption DEF Scanner!Next, Scanner!vars
<1>0. Len(Data) \in Nat /\ \A i \in 1..Len(Data) : Data[i] \in Nat
  BY DataAssumption, LenProperties, ElementOfSeq
<1>1. CASE ReadNothing
  <2>1. PICK e \in Errors : ret' = Ret("Read", << >>, e) /\ (e = "EOF" => peekState # "unread" /\ pos = Len(Data))
    BY <1>1, <1>0 DEF ReadNothing, ReaderRead, Results, Errors, IInv, TypeOK
  <2>2. Cursor' = Cursor /\ (peekState = "set")' = (peekState = "set") /\ Cursor \in Nat /\ Cursor <= Len(Data)
    BY <1>1, <1>0 DEF ReadNothing, Cursor, IInv, TypeOK, LastByteFresh
  <2>3. e = "EOF" => Cursor = Len(Data)
    BY <2>1 DEF Cursor
  <2>4. SubSeq(Data, Cursor + 1, Cursor + 0) = << >>
    BY <2>2, SubSeqEmpty
  <2>5. Scanner!Deliver("Read", 0, e)
    BY <2>1, <2>2, <2>3, <2>4 DEF Scanner!Deliver, Ret
  <2>6. Scanner!Read(0)
    BY <2>1, <2>5 DEF Scanner!Read, Errors
  <2>7. QED BY <2>6
<1>2. ASSUME NEW k \in 1..MaxBuf, ReadBuf(k)
      PROVE  Scanner!Read(k)
  <2>1. PICK r \in ReaderRead(Room(k)) :
          /\ pos' = pos + r.n
          /\ ret' = Ret("Read", Got(r.n), r.err)
          /\ \/ Got(r.n) # << >> /\ peekState' = "set" /\ lastByte' = Kept(Got(r.n))
             \/ Got(r.n) = << >> /\ UNCHANGED <<peekState, lastByte>>
    BY <1>2 DEF ReadBuf
  <2> DEFINE got == Got(r.n)
             n == (pos + r.n) - Cursor
  <2>2. /\ got \in Seq(Nat)
        /\ r.n \in Nat
        /\ pos + r.n <= Len(Data)
        /\ got = SubSeq(Data, Cursor + 1, pos + r.n)
        /\ Len(got) = n
        /\ Len(got) <= k
    BY ReadDelivers
  <2>3. /\ pos' = pos + r.n
        /\ ret' = Ret("Read", got, r.err)
        /\ \/ got # << >> /\ peekState' = "set" /\ lastByte' = Kept(got)
           \/ got = << >> /\ UNCHANGED <<peekState, lastByte>>
    BY <2>1
  <2>4. r.err \in Errors /\ (r.err = "EOF" => pos + r.n = Len(Data))
    BY DEF ReaderRead, Results
  <2>5. pos \in Nat /\ Cursor \in Nat /\ n \in 0..k /\ Cursor + n = pos + r.n
    <3>1. pos \in Nat /\ Cursor \in Nat
      BY <1>0 DEF Cursor, IInv, TypeOK, LastByteFresh
    <3>2. Len(got) \in Nat
      BY <2>2, LenProperties
    <3>3. Len(got) = n /\ Len(got) <= k /\ r.n \in Nat /\ k \in Nat
      BY <2>2
    <3> HIDE DEF got
    <3>4. n \in 0..k
      BY <3>2, <3>3
    <3>5. Cursor + n = pos + r.n
      BY <3>1, <3>3
    <3>6. QED BY <3>1, <3>4, <3>5
  <2> HIDE DEF got
  <2>6. got # << >> <=> n > 0
    <3>1. got = << >> <=> Len(got) = 0
      BY <2>2, EmptySeq
    <3>2. Len(got) = n /\ n \in Nat
      BY <2>2, <2>5
    <3> HIDE DEF n
    <3>3. QED BY <3>1, <3>2
  <2>7. Cursor' = Cursor + n /\ (peekState = "set")' = ((peekState = "set") \/ n > 0)
    <3>1. CASE n > 0
      BY <3>1, <2>3, <2>5, <2>6 DEF Cursor
    <3>2. CASE ~(n > 0)
      <4>1. n = 0 /\ r.n = 0 /\ peekState # "unread"
        BY <3>2, <2>2, <2>5 DEF Cursor
      <4>2. QED BY <4>1, <3>2, <2>3, <2>5, <2>6 DEF Cursor
    <3>3. QED BY <3>1, <3>2
  <2>8. got = SubSeq(Data, Cursor + 1, Cursor + n)
    BY <2>2, <2>5
  <2> HIDE DEF n
  <2>9. Scanner!Deliver("Read", n, r.err)
    BY <2>2, <2>3, <2>4, <2>5, <2>7, <2>8 DEF Scanner!Deliver, Ret
  <2>10. QED BY <2>4, <2>5, <2>9 DEF Scanner!Read, Errors
<1>3. CASE ReadByte
  <2>1. ASSUME peekState = "unread", peekState' = "set",
               ret' = Ret("ReadByte", << lastByte >>, "nil"), UNCHANGED <<pos, lastByte>>
        PROVE  Scanner!ReadByte
    <3>1. pos \in 1..Len(Data) /\ lastByte = Data[pos] /\ Cursor = pos - 1 /\ Cursor' = pos
      BY <2>1, <1>0 DEF IInv, TypeOK, LastByteFresh, Cursor
    <3>2. << lastByte >> = SubSeq(Data, Cursor + 1, Cursor + 1)
      <4>1. pos - 1 \in Nat /\ (pos - 1) + 1 = pos
        BY <3>1, <1>0
      <4>2. QED BY <4>1, <3>1, <1>0, OneByteSlice
    <3>3. /\ Cursor + 1 <= Len(Data) /\ Cursor' = Cursor + 1
           /\ (peekState = "set")' = (peekState = "set" \/ 1 > 0)
      BY <2>1, <3>1, <1>0
    <3>4. Scanner!Deliver("ReadByte", 1, "nil")
      BY <2>1, <3>2, <3>3 DEF Scanner!Deliver, Ret
    <3>5. QED BY <3>4 DEF Scanner!ReadByte
  <2>2. ASSUME NEW r \in ReaderRead(1), peekState # "unread", r.n = 0,
               ret' = Ret("ReadByte", IF r.err = "nil" THEN << 0 >> ELSE << >>, r.err),
               UNCHANGED <<pos, peekState, lastByte>>
        PROVE  Scanner!ReadByte
    <3>1. r.err \in {"EOF", "fail"} /\ (r.err = "EOF" => pos = Len(Data)) /\ pos \in 0..Len(Data)
      BY <2>2, <1>0 DEF ReaderRead, Results, Errors, IInv, TypeOK
    <3>2. Cursor = pos /\ Cursor' = pos /\ SubSeq(Data, Cursor + 1, Cursor + 0) = << >>
      BY <2>2, <3>1, <1>0, SubSeqEmpty DEF Cursor
    <3>3. Scanner!Deliver("ReadByte", 0, r.err)
      BY <2>2, <3>1, <3>2, <1>0 DEF Scanner!Deliver, Ret
    <3>4. QED BY <3>1, <3>3 DEF Scanner!ReadByte
  <2>3. ASSUME NEW r \in ReaderRead(1), peekState # "unread", r.n = 1, pos' = pos + 1,
               peekState' = "set", lastByte' = Data[pos + 1],
               ret' = Ret("ReadByte", << Data[pos + 1] >>, r.err)
        PROVE  Scanner!ReadByte
    <3>1. r.err \in Errors /\ (r.err = "EOF" => pos + 1 = Len(Data)) /\ pos + 1 \in 1..Len(Data)
      BY <2>3, <1>0 DEF ReaderRead, Results, IInv, TypeOK
    <3>2. Cursor = pos /\ Cursor' = pos + 1
      BY <2>3, <3>1 DEF Cursor
    <3>3. << Data[pos + 1] >> = SubSeq(Data, Cursor + 1, Cursor + 1)
      <4>1. pos \in Nat
        BY DEF IInv, TypeOK
      <4>2. QED BY <4>1, <3>1, <3>2, OneByteSlice
    <3>4. /\ Cursor + 1 <= Len(Data) /\ Cursor' = Cursor + 1
           /\ (r.err = "EOF" => Cursor + 1 = Len(Data))
           /\ (peekState = "set")' = (peekState = "set" \/ 1 > 0)
      BY <2>3, <3>1, <3>2, <1>0
    <3>5. Scanner!Deliver("ReadByte", 1, r.err)
      BY <2>3, <3>3, <3>4 DEF Scanner!Deliver, Ret
    <3>6. QED BY <3>1, <3>5 DEF Scanner!ReadByte, Errors
  <2>4. Scanner!ReadByte \/ UNCHANGED Scanner!vars
    <3>1. CASE peekState = "unread"
      <4>1. /\ peekState' = "set"
            /\ ret' = Ret("ReadByte", << lastByte >>, "nil")
            /\ UNCHANGED <<pos, lastByte>>
        BY <1>3, <3>1 DEF ReadByte
      <4>2. QED BY <4>1, <3>1, <2>1
    <3>2. CASE peekState # "unread"
      <4>1. PICK r \in ReaderRead(1) :
              \/ /\ r.n = 0
                 /\ ret' = Ret("ReadByte", IF r.err = "nil" THEN << 0 >> ELSE << >>, r.err)
                 /\ UNCHANGED <<pos, peekState, lastByte>>
              \/ /\ r.n = 1
                 /\ pos' = pos + 1
                 /\ peekState' = "set"
                 /\ lastByte' = Data[pos + 1]
                 /\ ret' = Ret("ReadByte", << Data[pos + 1] >>, r.err)
        BY <1>3, <3>2 DEF ReadByte
      <4>2. CASE r.n = 0
        <5>1. /\ ret' = Ret("ReadByte", IF r.err = "nil" THEN << 0 >> ELSE << >>, r.err)
              /\ UNCHANGED <<pos, peekState, lastByte>>
          BY <4>1, <4>2
        <5>2. QED BY <5>1, <4>2, <3>2, <2>2
      <4>3. CASE r.n = 1
        <5>1. /\ pos' = pos + 1
              /\ peekState' = "set"
              /\ lastByte' = Data[pos + 1]
              /\ ret' = Ret("ReadByte", << Data[pos + 1] >>, r.err)
          BY <4>1, <4>3
        <5>2. QED BY <5>1, <4>3, <3>2, <2>3
      <4>4. QED BY <4>1, <4>2, <4>3
    <3>3. QED BY <3>1, <3>2
  <2>5. QED BY <2>4
<1>4. CASE UnreadByte
  BY <1>4, <1>0 DEF UnreadByte, Unreadable, Scanner!UnreadByte, Cursor, Ret, IInv, TypeOK, LastByteFresh
<1>5. CASE UNCHANGED vars
  BY <1>5 DEF vars, Cursor
<1>6. QED
  <2>1. 0 \in 0..MaxBuf /\ 1..MaxBuf \subseteq 0..MaxBuf
    OBVIOUS
  <2>2. QED BY <1>1, <1>2, <1>3, <1>4, <1>5, <2>1 DEF Next

\* Over a reader that never answers with no byte and no error, the peeker gives
\* every byte of its reader once, in order, with one byte of UnreadByte
\* (peeker.go:8-12).
THEOREM Implements ==
  ASSUME "zero_read" \notin Quirks
  PROVE  Spec => IsByteScanner
<1>1. IInv /\ [Next]_vars => [Scanner!Next]_Scanner!vars
  BY StepRefines
<1>2. QED
  BY <1>1, InitIInv, StepIInv, InitRefines, PTL DEF Spec, Scanner!Spec, IsByteScanner

-----------------------------------------------------------------------------

\* Between the steps of a field: the byte that was looked at is the last one taken
\* while the decoder has it, and is still to be read once it was put back.
AtField ==
  /\ step \in {"peek", "unread", "header", "error", "calls"}
  /\ step # "calls" => values \in Seq(Nat)
  /\ step \in {"peek", "unread", "header"} =>
       /\ Len(values) <= Len(Data)
       /\ values = SubSeq(Data, 1, Len(values))
  /\ step = "peek"   => peekState # "unread" /\ pos = Len(values) /\ bytesRead = pos
  /\ step = "unread" => peekState = "set" /\ pos = Len(values) + 1 /\ bytesRead = pos
  /\ step = "header" => peekState = "unread" /\ pos = Len(values) + 1 /\ bytesRead = Len(values)

FieldsIInv == IInv /\ AtField

\* A value is appended: the next byte of the data.
LEMMA AppendNext ==
  ASSUME NEW s \in Seq(Nat), Len(s) + 1 <= Len(Data), s = SubSeq(Data, 1, Len(s))
  PROVE  LET t == Append(s, Data[Len(s) + 1])
         IN  t \in Seq(Nat) /\ Len(t) = Len(s) + 1 /\ t = SubSeq(Data, 1, Len(t))
<1> DEFINE n == Len(s)
           t == Append(s, Data[n + 1])
           d == SubSeq(Data, 0 + 1, 0 + (n + 1))
<1>1. n \in Nat /\ Len(Data) \in Nat /\ Data[n + 1] \in Nat
  BY DataAssumption, LenProperties, ElementOfSeq
<1>2. /\ t \in Seq(Nat)
      /\ Len(t) = n + 1
      /\ \A i \in 1 .. n : t[i] = s[i]
      /\ t[n + 1] = Data[n + 1]
  BY <1>1, AppendProperties
<1>3. \A i \in 1 .. n : s[i] = Data[i]
  <2>1. \A i \in 1 .. n : SubSeq(Data, 0 + 1, 0 + n)[i] = Data[0 + i]
    BY <1>1, SliceProperties
  <2>2. SubSeq(Data, 0 + 1, 0 + n) = s
    BY <1>1
  <2>3. \A i \in 1 .. n : s[i] = Data[0 + i]
    BY <2>1, <2>2
  <2>4. \A i \in 1 .. n : 0 + i = i
    BY <1>1
  <2>5. QED BY <2>3, <2>4
<1>4. d \in Seq(Nat) /\ Len(d) = n + 1 /\ \A i \in 1 .. (n + 1) : d[i] = Data[0 + i]
  BY <1>1, SliceProperties
<1> HIDE DEF n, t, d
<1>5. \A i \in 1 .. (n + 1) : t[i] = d[i]
  BY <1>1, <1>2, <1>3, <1>4
<1>6. t = d
  BY <1>1, <1>2, <1>4, <1>5, SeqEqual
<1>7. d = SubSeq(Data, 1, n + 1)
  BY <1>1 DEF d
<1>8. QED BY <1>1, <1>2, <1>6, <1>7 DEF n, t

LEMMA InitFields == FieldsInit => FieldsIInv
<1> SUFFICES ASSUME FieldsInit PROVE FieldsIInv
  OBVIOUS
<1>1. IInv
  BY InitIInv DEF FieldsInit
<1>2. values = << >> /\ << >> \in Seq(Nat) /\ Len(<< >>) = 0 /\ Len(Data) \in Nat
  BY DataAssumption, LenProperties DEF FieldsInit
<1>3. SubSeq(Data, 1, 0) = << >>
  BY DataAssumption, SubSeqEmpty
<1>4. QED BY <1>1, <1>2, <1>3 DEF FieldsInit, Init, FieldsIInv, AtField

\* What ReadByte does when it succeeds, over such a reader.
LEMMA ByteRead ==
  ASSUME "zero_read" \notin Quirks, IInv, ReadByte, ret'.err = "nil"
  PROVE  /\ peekState' = "set"
         /\ pos' \in 1 .. Len(Data)
         /\ pos' = Cursor + 1
         /\ ret'.bytes[1] = Data[pos']
<1>0. Len(Data) \in Nat /\ pos \in 0 .. Len(Data)
  BY DataAssumption, LenProperties DEF IInv, TypeOK
<1>1. CASE peekState = "unread"
  <2>1. peekState' = "set" /\ ret' = Ret("ReadByte", << lastByte >>, "nil") /\ pos' = pos
    BY <1>1 DEF ReadByte
  <2>2. pos > 0 /\ lastByte = Data[pos] /\ Cursor = pos - 1
    BY <1>1 DEF IInv, LastByteFresh, Cursor
  <2>3. ret'.bytes[1] = lastByte
    BY <2>1 DEF Ret
  <2>4. QED BY <1>0, <2>1, <2>2, <2>3
<1>2. CASE peekState # "unread"
  <2>1. PICK r \in ReaderRead(1) :
          \/ /\ r.n = 0
             /\ ret' = Ret("ReadByte", IF r.err = "nil" THEN << 0 >> ELSE << >>, r.err)
             /\ UNCHANGED <<pos, peekState, lastByte>>
          \/ /\ r.n = 1
             /\ pos' = pos + 1
             /\ peekState' = "set"
             /\ lastByte' = Data[pos + 1]
             /\ ret' = Ret("ReadByte", << Data[pos + 1] >>, r.err)
    BY <1>2 DEF ReadByte
  <2>2. ret'.err = r.err
    BY <2>1 DEF Ret
  <2>3. r.n # 0 /\ pos + r.n <= Len(Data)
    BY <2>2 DEF ReaderRead
  <2>4. /\ r.n = 1 /\ pos' = pos + 1 /\ peekState' = "set"
        /\ ret' = Ret("ReadByte", << Data[pos + 1] >>, r.err)
    BY <2>1, <2>3
  <2>5. ret'.bytes[1] = Data[pos + 1] /\ Cursor = pos
    BY <2>4, <1>2 DEF Ret, Cursor
  <2>6. QED BY <1>0, <2>3, <2>4, <2>5
<1>3. QED BY <1>1, <1>2

\* The value that is taken is the next byte.
LEMMA TakeKeeps ==
  ASSUME FieldsIInv, IInv', step \in {"peek", "header"},
         NEW n, Take(Data[Len(values) + 1], n), bytesRead + n = pos',
         pos' = Len(values) + 1, pos' <= Len(Data), peekState' # "unread"
  PROVE  FieldsIInv'
<1>1. values \in Seq(Nat) /\ values = SubSeq(Data, 1, Len(values))
  BY DEF FieldsIInv, AtField
<1>2. values' \in Seq(Nat) /\ Len(values') = Len(values) + 1 /\ values' = SubSeq(Data, 1, Len(values'))
  BY <1>1, AppendNext DEF Take
<1>3. step' = "peek" /\ bytesRead' = pos'
  BY DEF Take
<1>4. QED BY <1>2, <1>3 DEF FieldsIInv, AtField

LEMMA StopKeeps ==
  ASSUME FieldsIInv, IInv', step # "calls", Stop
  PROVE  FieldsIInv'
BY DEF FieldsIInv, AtField, Stop

LEMMA StepFields ==
  ASSUME "zero_read" \notin Quirks, FieldsIInv, [FieldsNext]_fieldVars
  PROVE  FieldsIInv'
<1>0. /\ Len(Data) \in Nat /\ pos \in 0 .. Len(Data)
      /\ step # "calls" => values \in Seq(Nat) /\ Len(values) \in Nat
  BY DataAssumption, LenProperties DEF FieldsIInv, IInv, TypeOK, AtField
<1>1. ASSUME OtherCall
      PROVE  FieldsIInv'
  <2>1. IInv'
    BY <1>1, StepIInv DEF OtherCall, FieldsIInv
  <2>2. QED BY <1>1, <2>1 DEF OtherCall, FieldsIInv, AtField
<1>2. ASSUME Peek
      PROVE  FieldsIInv'
  <2>1. IInv' /\ step = "peek" /\ ReadByte
    BY <1>2, StepIInv DEF Peek, Next, FieldsIInv
  <2>2. CASE ret'.err # "nil" /\ Stop
    BY <2>1, <2>2, StopKeeps
  <2>3. CASE ret'.err = "nil"
    <3>1. /\ peekState' = "set" /\ pos' \in 1 .. Len(Data) /\ pos' = Cursor + 1
          /\ ret'.bytes[1] = Data[pos']
      BY <2>1, <2>3, ByteRead DEF FieldsIInv
    <3>2. Cursor = Len(values) /\ bytesRead = Len(values) /\ pos = Len(values)
      BY <2>1 DEF FieldsIInv, AtField, Cursor
    <3>3. CASE ret'.bytes[1] = Null /\ Take(Null, 1)
      <4>1. Take(Data[Len(values) + 1], 1) /\ pos' = Len(values) + 1
        BY <3>1, <3>2, <3>3
      <4>2. QED BY <4>1, <2>1, <3>1, <3>2, <1>0, TakeKeeps
    <3>4. CASE step' = "unread" /\ bytesRead' = bytesRead + 1 /\ UNCHANGED values
      BY <3>4, <2>1, <3>1, <3>2, <1>0 DEF FieldsIInv, AtField
    <3>5. QED BY <3>3, <3>4, <2>3, <1>2 DEF Peek
  <2>4. QED BY <1>2, <2>2, <2>3 DEF Peek
<1>3. ASSUME PutBack
      PROVE  FieldsIInv'
  <2>1. IInv' /\ step = "unread" /\ UnreadByte /\ peekState = "set"
    BY <1>3, StepIInv DEF PutBack, Next, FieldsIInv, AtField
  <2>2. peekState' = "unread" /\ pos' = pos
    BY <2>1 DEF UnreadByte, Unreadable
  <2>3. CASE Stop
    BY <2>1, <2>3, StopKeeps
  <2>4. CASE step' = "header" /\ bytesRead' = Uncounted(bytesRead) /\ UNCHANGED values
    <3>1. pos = Len(values) + 1 /\ bytesRead = pos
      BY <2>1 DEF FieldsIInv, AtField
    <3>2. bytesRead' = Len(values)
      BY <2>4, <3>1, <2>1, <1>0 DEF Uncounted
    <3>3. QED BY <2>1, <2>2, <2>4, <3>1, <3>2 DEF FieldsIInv, AtField
  <2>5. QED BY <1>3, <2>3, <2>4 DEF PutBack
<1>4. ASSUME readByteBuf
      PROVE  FieldsIInv'
  <2>1. IInv' /\ step = "header" /\ ReadBuf(1)
    BY <1>4, StepIInv, MaxBufAssumption DEF readByteBuf, Next, FieldsIInv
  <2>2. CASE Stop
    BY <2>1, <2>2, StopKeeps
  <2>3. CASE Take(ret'.bytes[1], 1)
    <3>1. /\ peekState = "unread" /\ pos = Len(values) + 1 /\ bytesRead = Len(values)
      BY <2>1 DEF FieldsIInv, AtField
    <3>2. PICK r \in ReaderRead(Room(1)) :
            /\ pos' = pos + r.n
            /\ ret' = Ret("Read", Got(r.n), r.err)
            /\ \/ Got(r.n) # << >> /\ peekState' = "set"
               \/ Got(r.n) = << >>
      BY <2>1 DEF ReadBuf
    <3>3. Pending = << lastByte >> /\ Room(1) = 0
      BY <3>1 DEF Pending, Room
    <3>4. r.n = 0
      BY <3>3 DEF ReaderRead, Results
    <3>5. SubSeq(Data, pos + 1, pos + 0) = << >>
      BY <1>0, DataAssumption, SubSeqEmpty
    <3>6. Got(0) = << lastByte >>
      <4>1. << lastByte >> \in Seq(Nat)
        BY DEF FieldsIInv, IInv, TypeOK
      <4>2. << lastByte >> \o << >> = << lastByte >>
        BY <4>1, ConcatEmptySeq
      <4>3. QED BY <3>3, <3>5, <4>2 DEF Got
    <3>7. << lastByte >> # << >> /\ << lastByte >>[1] = lastByte
      OBVIOUS
    <3>8. peekState' = "set" /\ pos' = pos /\ ret'.bytes[1] = lastByte
      BY <3>2, <3>4, <3>6, <3>7, <1>0 DEF Ret
    <3>9. lastByte = Data[pos] /\ bytesRead + 1 = pos'
      BY <3>1, <3>8, <1>0 DEF FieldsIInv, IInv, LastByteFresh
    <3>10. Take(Data[Len(values) + 1], 1)
      BY <2>3, <3>1, <3>8, <3>9
    <3>11. QED BY <2>1, <3>1, <3>8, <3>9, <3>10, <1>0, TakeKeeps
  <2>4. QED BY <1>4, <2>2, <2>3 DEF readByteBuf
<1>5. ASSUME readByte
      PROVE  FieldsIInv'
  <2>1. IInv' /\ step = "header" /\ ReadByte
    BY <1>5, StepIInv DEF readByte, Next, FieldsIInv
  <2>2. CASE Stop
    BY <2>1, <2>2, StopKeeps
  <2>3. CASE ret'.err = "nil" /\ Take(ret'.bytes[1], 1)
    <3>1. /\ peekState = "unread" /\ pos = Len(values) + 1 /\ bytesRead = Len(values)
      BY <2>1 DEF FieldsIInv, AtField
    <3>2. /\ peekState' = "set" /\ pos' \in 1 .. Len(Data) /\ pos' = Cursor + 1
          /\ ret'.bytes[1] = Data[pos']
      BY <2>1, <2>3, ByteRead DEF FieldsIInv
    <3>3. pos' = Len(values) + 1 /\ bytesRead + 1 = pos'
      BY <3>1, <3>2, <2>1, <1>0 DEF Cursor
    <3>4. Take(Data[Len(values) + 1], 1)
      BY <2>3, <3>2, <3>3
    <3>5. QED BY <2>1, <3>2, <3>3, <3>4, <1>0, TakeKeeps
  <2>4. QED BY <1>5, <2>2, <2>3 DEF readByte
<1>6. CASE UNCHANGED fieldVars
  <2>1. IInv'
    BY <1>6, StepIInv DEF fieldVars, FieldsIInv
  <2>2. QED BY <1>6, <2>1 DEF fieldVars, vars, FieldsIInv, AtField
<1>7. QED BY <1>1, <1>2, <1>3, <1>4, <1>5, <1>6 DEF FieldsNext

\* A decoder of pointer fields reads each byte of them once, in order, and counts
\* what it reads, as long as the reader never answers with no byte and no error;
\* the byte it looks at is not lost, whichever way the header is read again
\* (gen.go:761-783, 864-885).
THEOREM AlwaysReadsInOrder ==
  ASSUME "zero_read" \notin Quirks
  PROVE  FieldsSpec => []ReadsInOrder
<1>1. FieldsIInv => ReadsInOrder
  <2> SUFFICES ASSUME FieldsIInv PROVE ReadsInOrder
    OBVIOUS
  <2>1. step \in {"peek", "header"} => Len(values) \in Nat
    BY LenProperties DEF FieldsIInv, AtField
  <2>2. QED BY <2>1 DEF FieldsIInv, AtField, ReadsInOrder, Cursor
<1>2. FieldsIInv /\ [FieldsNext]_fieldVars => FieldsIInv'
  BY StepFields
<1>3. QED BY <1>1, <1>2, InitFields, PTL DEF FieldsSpec
=============================================================================
