------------------------- MODULE LoadingDialogProofs -------------------------
(***************************************************************************)
(* The remote calls never block the screens for good, and the container of *)
(* the dialogs shows the loading dialog while something is processed and   *)
(* at no other time, for any number of calls, operations and answers in    *)
(* any order.                                                              *)
(*                                                                         *)
(* The first part is about RemoteCall alone: NotBlocked is not inductive   *)
(* by itself; that a start which is heeded has not ended yet follows from  *)
(* EndsRemembered.                                                         *)
(*                                                                         *)
(* The others are about the dialogs: the recursion of the nested shows is  *)
(* well founded, so that a show and a hide are what their equations say;   *)
(* while no pile has been recorded, they keep a buffer in order, each      *)
(* request for another dialog that is shown and the alert in front; and an *)
(* update that leaves the container nothing to render has the loading      *)
(* dialog as it should be, or what it shows or hides would be rendered     *)
(* once more.                                                              *)
(***************************************************************************)
EXTENDS LoadingDialog, WellFoundedInduction, SequenceTheorems, TLAPS

-----------------------------------------------------------------------------
(* The remote calls.                                                       *)

IInv == TypeOK /\ NotBlocked /\ EndsRemembered

\* Nothing has been announced at first.
LEMMA Initially == Init => IInv
<1> SUFFICES ASSUME Init PROVE IInv
  OBVIOUS
<1>1. TypeOK
  BY DEF Init, TypeOK
<1>2. NotBlocked /\ EndsRemembered
  BY DEF Init, NotBlocked, EndsRemembered
<1> QED
  BY <1>1, <1>2 DEF IInv

\* What the reducer does of an announcement, in three cases.
LEMMA ReducedCases ==
  ASSUME TypeOK, NEW info \in Announcements
  PROVE  \/ /\ info.isProcessing /\ ~state.isProcessing
            /\ info.sequenceNumber > state.lastSequenceNumber
            /\ Reduced(info) = [isProcessing |-> TRUE, lastSequenceNumber |-> info.sequenceNumber]
         \/ /\ ~info.isProcessing
            /\ info.sequenceNumber >= state.lastSequenceNumber
            /\ Reduced(info) = [isProcessing |-> FALSE, lastSequenceNumber |-> info.sequenceNumber]
         \/ /\ info.isProcessing \/ info.sequenceNumber < state.lastSequenceNumber
            /\ Reduced(info) = state
<1>1. info.sequenceNumber \in Int /\ state.lastSequenceNumber \in Int /\ info.isProcessing \in BOOLEAN
  BY LastCallAssumption DEF TypeOK, Announcements, Calls
<1>2. CASE Accepts(info)
  BY <1>1, <1>2 DEF Accepts, Reduced
<1>3. CASE ~Accepts(info)
  BY <1>1, <1>3 DEF Accepts, Reduced
<1> QED
  BY <1>2, <1>3

\* An announcement is its sequence number and its kind.
LEMMA InfoFacts ==
  ASSUME NEW info \in Announcements
  PROVE  /\ info = Info(info.sequenceNumber, info.isProcessing)
         /\ \A c, d \in Calls, p, q \in BOOLEAN : Info(c, p) = Info(d, q) => c = d /\ p = q
BY DEF Announcements, Info

\* The inductive step.
LEMMA Inductive == IInv /\ [Next]_vars => IInv'
<1> SUFFICES ASSUME IInv, [Next]_vars PROVE IInv'
  OBVIOUS
<1> USE DEF IInv
<1>1. CASE UNCHANGED vars
  BY <1>1 DEF vars, TypeOK, NotBlocked, EndsRemembered, Info, Calls, Announcements
<1>2. CASE Initialized
  BY <1>2 DEF Initialized, TypeOK, NotBlocked, EndsRemembered, Info, Calls, Announcements
<1>3. ASSUME NEW info \in Announcements, Announce(info) PROVE IInv'
  <2> DEFINE seq == info.sequenceNumber
             last == state.lastSequenceNumber
  <2>0. seq \in Calls /\ seq \in Int /\ last \in Int /\ Calls \subseteq Int
    BY LastCallAssumption DEF TypeOK, Announcements, Calls
  <2>1. /\ info.isProcessing \in BOOLEAN /\ seq \in Calls /\ seq \in Int
        /\ last \in Int /\ last \in Calls \cup {-1} /\ state.isProcessing \in BOOLEAN
        /\ Calls \subseteq Int
    BY LastCallAssumption DEF TypeOK, Announcements, Calls
  <2>2. /\ announced' = announced \cup {info}
        /\ state' = Reduced(info)
        /\ listening' = listening
    BY <1>3 DEF Announce
  <2>3. info = Info(seq, info.isProcessing)
    BY InfoFacts
  <2>4. \A c, d \in Calls, p, q \in BOOLEAN : Info(c, p) = Info(d, q) => c = d /\ p = q
    BY InfoFacts
  <2>5. listening' \in BOOLEAN /\ announced' \subseteq Announcements
    BY <2>2 DEF TypeOK
  <2>6. CASE /\ info.isProcessing /\ ~state.isProcessing
             /\ seq > last
             /\ Reduced(info) = [isProcessing |-> TRUE, lastSequenceNumber |-> seq]
    <3>1. state'.isProcessing /\ state'.lastSequenceNumber = seq /\ TypeOK'
      BY <2>1, <2>2, <2>5, <2>6 DEF TypeOK, Calls
    <3>2. Info(seq, TRUE) \in announced'
      BY <2>1, <2>2, <2>3, <2>6
    <3>3. Info(seq, FALSE) \notin announced
      <4>1. Info(seq, FALSE) \in announced => seq <= last
        BY <2>0 DEF EndsRemembered
      <4>2. seq > last
        BY <2>6
      <4>3. ~(seq <= last)
        BY <2>0, <4>2
      <4> QED
        BY <4>1, <4>3
    <3>4. Info(seq, FALSE) # info
      BY <2>1, <2>3, <2>4, <2>6
    <3>5. NotBlocked'
      BY <2>2, <3>1, <3>2, <3>3, <3>4 DEF NotBlocked, Info
    <3>6. ASSUME NEW c \in Calls, Info(c, FALSE) \in announced' PROVE c <= seq
      <4>1. Info(c, FALSE) \in announced
        BY <2>1, <2>2, <2>3, <2>4, <2>6, <3>6
      <4>2. c <= last
        BY <4>1 DEF EndsRemembered
      <4>3. seq > last
        BY <2>6
      <4> QED
        BY <2>0, <4>2, <4>3
    <3>7. EndsRemembered'
      BY <3>1, <3>6 DEF EndsRemembered, Info, Calls
    <3> QED
      BY <3>1, <3>5, <3>7
  <2>7. CASE /\ ~info.isProcessing
             /\ seq >= last
             /\ Reduced(info) = [isProcessing |-> FALSE, lastSequenceNumber |-> seq]
    <3>1. ~state'.isProcessing /\ state'.lastSequenceNumber = seq /\ TypeOK'
      BY <2>1, <2>2, <2>5, <2>7 DEF TypeOK, Calls
    <3>2. ASSUME NEW c \in Calls, Info(c, FALSE) \in announced' PROVE c <= seq
      <4>1. CASE Info(c, FALSE) \in announced
        <5>1. c <= last
          BY <4>1 DEF EndsRemembered
        <5>2. seq >= last
          BY <2>7
        <5> QED
          BY <2>0, <5>1, <5>2
      <4>2. CASE Info(c, FALSE) = info
        <5>1. c = seq
          BY <2>1, <2>3, <2>4, <4>2
        <5> QED
          BY <2>0, <5>1
      <4> QED
        BY <2>2, <3>2, <4>1, <4>2
    <3>3. EndsRemembered'
      BY <3>1, <3>2 DEF EndsRemembered, Info, Calls
    <3> QED
      BY <3>1, <3>3 DEF NotBlocked
  <2>8. CASE /\ info.isProcessing \/ seq < last
             /\ Reduced(info) = state
    <3>1. state' = state /\ TypeOK'
      BY <2>1, <2>2, <2>5, <2>8 DEF TypeOK, Calls
    <3>2. ASSUME state.isProcessing PROVE Info(last, FALSE) # info
      <4>1. last \in Calls
        BY <2>1, <3>2, LastCallAssumption DEF NotBlocked, TypeOK, Announcements, Info
      <4>2. CASE info.isProcessing
        BY <2>1, <2>3, <2>4, <4>1, <4>2
      <4>3. CASE seq < last
        <5>1. Info(last, FALSE) = info => last = seq
          BY <2>1, <2>3, <2>4, <4>1
        <5>2. last # seq
          BY <2>0, <4>3
        <5> QED
          BY <5>1, <5>2
      <4> QED
        BY <2>8, <4>2, <4>3
    <3>3. NotBlocked'
      BY <2>2, <3>1, <3>2 DEF NotBlocked, Info
    <3>4. ASSUME NEW c \in Calls, Info(c, FALSE) \in announced' PROVE c <= last
      <4>1. CASE Info(c, FALSE) \in announced
        BY <4>1 DEF EndsRemembered
      <4>2. CASE Info(c, FALSE) = info
        <5>1. c = seq /\ ~info.isProcessing
          BY <2>1, <2>3, <2>4, <4>2
        <5>2. seq < last
          BY <2>8, <5>1
        <5> QED
          BY <2>0, <5>1, <5>2
      <4> QED
        BY <2>2, <3>4, <4>1, <4>2
    <3>5. EndsRemembered'
      BY <3>1, <3>4 DEF EndsRemembered, Info, Calls
    <3> QED
      BY <3>1, <3>3, <3>5
  <2> QED
    BY <2>6, <2>7, <2>8, ReducedCases
<1> QED
  BY <1>1, <1>2, <1>3 DEF Next

\* The inductive invariant holds throughout.
LEMMA Invariant == Spec => []IInv
BY Initially, Inductive, PTL DEF Spec

\* The state of reducers/remoteCall.ts keeps its type.
THEOREM TypeCorrect == Spec => []TypeOK
<1>1. IInv => TypeOK
  BY DEF IInv
<1> QED
  BY <1>1, Invariant, PTL

\* A call that has ended never blocks the screens (reducers/remoteCall.ts).
THEOREM NeverBlockedForGood == Spec => []NotBlocked
<1>1. IInv => NotBlocked
  BY DEF IInv
<1> QED
  BY <1>1, Invariant, PTL

\* A late start of an earlier call is told from a new one: the last sequence
\* number is at least that of every call that has ended.
THEOREM EndsKept == Spec => []EndsRemembered
<1>1. IInv => EndsRemembered
  BY DEF IInv
<1> QED
  BY <1>1, Invariant, PTL

-----------------------------------------------------------------------------
(* The recursion of the shows is well founded.                             *)

\* A non-empty set of natural numbers has a least element.
LEMMA LeastNat ==
  ASSUME NEW T \in SUBSET Nat, T # {}
  PROVE  \E i \in T : \A j \in T : i <= j
<1>1. IsWellFoundedOn(OpToRel(<, Nat), Nat)
  BY NatLessThanWellFounded
<1>2. PICK i \in T : \A j \in T : ~(<<j, i>> \in OpToRel(<, Nat))
  BY <1>1, WFMin
<1>3. \A j \in T : ~(j < i)
  BY <1>2 DEF OpToRel
<1> QED BY <1>3

\* One step of the recursion, and what it makes of the steps before.
Among(n, before) ==
  [request \in Dialogs \X Holding(n) |-> ShowBy(before, request[1], request[2])]

UpTo(n, f) == f = [i \in 0 .. n |-> Among(i, f[i - 1])]

\* With no request in the buffer, nothing is shown again.
LEMMA AmongNone == ASSUME NEW f, NEW g PROVE Among(0, f) = Among(0, g)
<1>1. ASSUME NEW request \in Dialogs \X Holding(0)
      PROVE  ShowBy(f, request[1], request[2]) = ShowBy(g, request[1], request[2])
  <2> DEFINE m == request[1]
             d == request[2]
             pushed == [d EXCEPT !.buffer = Append(@, m)]
  <2>1. d \in Holding(0) /\ d.buffer \in [1 .. 0 -> Dialogs]
    BY DEF Holding
  <2>2. d.buffer \in Seq(Dialogs) /\ Len(d.buffer) = 0
    BY <2>1
  <2>3. pushed.buffer = Append(d.buffer, m)
    BY <2>1 DEF Holding
  <2>4. Len(pushed.buffer) = 1
    BY <2>2, <2>3
  <2>5. ~(Len(pushed.buffer) > 1)
    BY <2>4
  <2> QED BY <2>5 DEF ShowBy
<1> QED BY <1>1 DEF Among

LEMMA UpToAgree ==
  ASSUME NEW n \in Nat, NEW k \in Nat, NEW f, NEW g, UpTo(n, f), UpTo(k, g), NEW i \in 0 .. n, i <= k
  PROVE  f[i] = g[i]
<1> DEFINE T == {j \in 0 .. i : f[j] # g[j]}
<1>1. SUFFICES ASSUME T # {} PROVE FALSE
  BY DEF T
<1>2. T \in SUBSET Nat
  OBVIOUS
<1>3. PICK j \in T : \A l \in T : j <= l
  BY <1>1, <1>2, LeastNat
<1>4. f[j] = Among(j, f[j - 1]) /\ g[j] = Among(j, g[j - 1])
  <2>1. j \in 0 .. n /\ j \in 0 .. k
    BY <1>3
  <2> QED BY <2>1 DEF UpTo
<1>5. CASE j = 0
  <2>1. Among(j, f[j - 1]) = Among(j, g[j - 1])
    BY <1>5, AmongNone
  <2> QED BY <1>3, <1>4, <2>1
<1>6. CASE j # 0
  <2>1. j - 1 \in 0 .. i /\ ~(j <= j - 1)
    BY <1>3, <1>6
  <2>2. f[j - 1] = g[j - 1]
    BY <1>3, <2>1
  <2> QED BY <1>3, <1>4, <2>2
<1> QED BY <1>5, <1>6

LEMMA UpToExists == ASSUME NEW n \in Nat PROVE \E f : UpTo(n, f)
<1> DEFINE T == {k \in Nat : ~\E f : UpTo(k, f)}
<1>1. SUFFICES ASSUME T # {} PROVE FALSE
  BY DEF T
<1>2. PICK k \in T : \A l \in T : k <= l
  BY <1>1, LeastNat
<1>3. CASE k = 0
  <2> DEFINE f == [i \in 0 .. 0 |-> Among(0, 0)]
  <2>1. \A i \in 0 .. 0 : Among(0, 0) = Among(i, f[i - 1])
    BY AmongNone
  <2>2. UpTo(0, f)
    BY <2>1 DEF UpTo
  <2> QED BY <1>2, <1>3, <2>2
<1>4. CASE k # 0
  <2>1. k - 1 \in Nat /\ ~(k <= k - 1)
    BY <1>2, <1>4
  <2>2. PICK f : UpTo(k - 1, f)
    BY <1>2, <2>1
  <2> DEFINE g == [i \in 0 .. k |-> IF i = k THEN Among(k, f[k - 1]) ELSE f[i]]
  <2>3. ASSUME NEW i \in 0 .. k PROVE g[i] = Among(i, g[i - 1])
    <3>1. CASE i = k
      <4>1. g[i - 1] = f[k - 1]
        BY <1>2, <1>4, <3>1
      <4> QED BY <3>1, <4>1
    <3>2. CASE i # k /\ i # 0
      <4>1. i \in 0 .. k - 1 /\ i - 1 \in 0 .. k /\ i - 1 # k
        BY <1>2, <3>2
      <4>2. g[i] = f[i] /\ g[i - 1] = f[i - 1]
        BY <3>2, <4>1
      <4>3. f[i] = Among(i, f[i - 1])
        BY <2>2, <4>1 DEF UpTo
      <4> QED BY <4>2, <4>3
    <3>3. CASE i # k /\ i = 0
      <4>1. i \in 0 .. k - 1
        BY <1>2, <3>3
      <4>2. g[i] = f[i]
        BY <3>3
      <4>3. f[i] = Among(i, f[i - 1])
        BY <2>2, <4>1 DEF UpTo
      <4> HIDE DEF g
      <4>4. Among(i, f[i - 1]) = Among(i, g[i - 1])
        BY <3>3, AmongNone
      <4> QED BY <4>2, <4>3, <4>4
    <3> QED BY <3>1, <3>2, <3>3
  <2>4. UpTo(k, g)
    <3>1. g = [i \in 0 .. k |-> g[i]]
      OBVIOUS
    <3> HIDE DEF g
    <3>2. [i \in 0 .. k |-> g[i]] = [i \in 0 .. k |-> Among(i, g[i - 1])]
      BY <2>3
    <3> QED BY <3>1, <3>2 DEF UpTo
  <2> HIDE DEF g
  <2> QED BY <1>2, <2>4
<1> QED BY <1>3, <1>4

\* The recursive definition has a solution, so that its equation holds.
LEMMA ShowAmongDef ==
  ASSUME NEW n \in Nat PROVE ShowAmong[n] = Among(n, ShowAmong[n - 1])
<1> DEFINE part(k) == CHOOSE f : UpTo(k, f)
           F == [k \in Nat |-> part(k)[k]]
<1>1. ASSUME NEW k \in Nat PROVE UpTo(k, part(k))
  BY UpToExists
<1> HIDE DEF part
<1>2. ASSUME NEW k \in Nat PROVE F[k] = Among(k, F[k - 1])
  <2>1. F[k] = part(k)[k]
    OBVIOUS
  <2>2. part(k)[k] = Among(k, part(k)[k - 1])
    <3>1. k \in 0 .. k
      OBVIOUS
    <3> QED BY <1>1, <3>1 DEF UpTo
  <2>3. CASE k = 0
    <3>1. Among(k, part(k)[k - 1]) = Among(k, F[k - 1])
      BY <2>3, AmongNone
    <3> QED BY <2>1, <2>2, <3>1
  <2>4. CASE k # 0
    <3>1. k - 1 \in Nat /\ k - 1 \in 0 .. k /\ k - 1 <= k - 1
      BY <2>4
    <3>2. F[k - 1] = part(k - 1)[k - 1]
      BY <3>1
    <3>3. part(k)[k - 1] = part(k - 1)[k - 1]
      BY <1>1, <3>1, UpToAgree
    <3> QED BY <2>1, <2>2, <3>2, <3>3
  <2> QED BY <2>3, <2>4
<1>3. F = [k \in Nat |-> Among(k, F[k - 1])]
  <2>1. F = [k \in Nat |-> F[k]]
    OBVIOUS
  <2> HIDE DEF F
  <2>2. [k \in Nat |-> F[k]] = [k \in Nat |-> Among(k, F[k - 1])]
    BY <1>2
  <2> QED BY <2>1, <2>2
<1> HIDE DEF F
<1>4. \E f : f = [k \in Nat |-> Among(k, f[k - 1])]
  BY <1>3
<1>5. ShowAmong = [k \in Nat |-> Among(k, ShowAmong[k - 1])]
  BY <1>4, Zenon DEF ShowAmong, Among
<1> QED BY <1>5, Zenon

-----------------------------------------------------------------------------
(* The buffer of the middleware.                                           *)

DialogStates == [buffer : Seq(Dialogs), shown : SUBSET Dialogs, broken : BOOLEAN]

\* Every request in the buffer is for another dialog, which is shown, and the
\* locked one is in front.
Ordered(s, shown) ==
  /\ \A i \in DOMAIN s : s[i] \in shown /\ (s[i] = "alert" => i = 1)
  /\ \A i, j \in DOMAIN s : s[i] = s[j] => i = j

Sound(d) == Ordered(d.buffer, d.shown) /\ ~Piled(d)

\* The index of a request, 0 without one.
LEMMA IndexFacts ==
  ASSUME NEW d \in DialogStates, NEW m \in Dialogs
  PROVE  \/ IndexOf(m, d) = 0 /\ \A i \in DOMAIN d.buffer : d.buffer[i] # m
         \/ IndexOf(m, d) \in 1 .. Len(d.buffer) /\ d.buffer[IndexOf(m, d)] = m
<1> DEFINE hits == {i \in 1 .. Len(d.buffer) : d.buffer[i] = m}
<1>1. d.buffer \in Seq(Dialogs) /\ DOMAIN d.buffer = 1 .. Len(d.buffer) /\ Len(d.buffer) \in Nat
  BY DEF DialogStates
<1>2. IndexOf(m, d) = IF hits # {} THEN Min(hits) ELSE 0
  BY DEF IndexOf, SelectInSeq
<1>3. CASE hits = {}
  BY <1>1, <1>2, <1>3
<1>4. CASE hits # {}
  <2>1. hits \in SUBSET Nat
    BY <1>1
  <2> HIDE DEF hits
  <2>2. \E i \in hits : \A j \in hits : i <= j
    BY <1>4, <2>1, LeastNat
  <2>3. Min(hits) \in hits
    BY <2>2, Zenon DEF Min
  <2> USE DEF hits
  <2> QED BY <1>2, <1>4, <2>3
<1> QED BY <1>3, <1>4

\* A sequence without one of its elements.
LEMMA Without ==
  ASSUME NEW S, NEW s \in Seq(S), NEW k \in 1 .. Len(s)
  PROVE  /\ RemoveAt(s, k) \in Seq(S)
         /\ Len(RemoveAt(s, k)) = Len(s) - 1
         /\ \A i \in 1 .. Len(s) - 1 : RemoveAt(s, k)[i] = s[IF i < k THEN i ELSE i + 1]
<1> DEFINE front == SubSeq(s, 1, k - 1)
           back == SubSeq(s, k + 1, Len(s))
<1>1. k \in Nat /\ Len(s) \in Nat /\ 1 <= k /\ k <= Len(s)
  BY LenProperties
<1>2. /\ front \in Seq(S) /\ Len(front) = k - 1
      /\ \A i \in 1 .. k - 1 : front[i] = s[i]
  BY <1>1, SubSeqProperties
<1>3. /\ back \in Seq(S) /\ Len(back) = Len(s) - k
      /\ \A i \in 1 .. Len(s) - k : back[i] = s[k + i]
  BY <1>1, SubSeqProperties
<1> HIDE DEF front, back
<1>4. RemoveAt(s, k) = front \o back
  BY DEF RemoveAt, front, back
<1>5. /\ front \o back \in Seq(S)
      /\ Len(front \o back) = Len(front) + Len(back)
      /\ \A i \in 1 .. Len(front) + Len(back) :
           (front \o back)[i] = IF i <= Len(front) THEN front[i] ELSE back[i - Len(front)]
  BY <1>2, <1>3, ConcatProperties
<1>6. Len(front) + Len(back) = Len(s) - 1
  BY <1>1, <1>2, <1>3
<1>7. ASSUME NEW i \in 1 .. Len(s) - 1
      PROVE  RemoveAt(s, k)[i] = s[IF i < k THEN i ELSE i + 1]
  <2>1. i \in Nat /\ RemoveAt(s, k)[i] = IF i <= k - 1 THEN front[i] ELSE back[i - (k - 1)]
    BY <1>2, <1>4, <1>5, <1>6
  <2>2. CASE i < k
    <3>1. i \in 1 .. k - 1 /\ i <= k - 1
      BY <1>1, <2>1, <2>2
    <3> QED BY <1>2, <2>1, <2>2, <3>1
  <2>3. CASE ~(i < k)
    <3>1. ~(i <= k - 1) /\ i - (k - 1) \in 1 .. Len(s) - k /\ k + (i - (k - 1)) = i + 1
      BY <1>1, <2>1, <2>3
    <3> QED BY <1>3, <2>1, <2>3, <3>1
  <2> QED BY <2>2, <2>3
<1> QED BY <1>4, <1>5, <1>6, <1>7

\* The buffer stays ordered when a request is taken out of it, and no other of
\* its requests is for the dialog taken out.
LEMMA WithoutOrdered ==
  ASSUME NEW shown \in SUBSET Dialogs, NEW s \in Seq(Dialogs), Ordered(s, shown), NEW k \in 1 .. Len(s)
  PROVE  /\ RemoveAt(s, k) \in Seq(Dialogs)
         /\ Len(RemoveAt(s, k)) = Len(s) - 1
         /\ Ordered(RemoveAt(s, k), shown \ {s[k]})
         /\ 1 < k => RemoveAt(s, k)[1] = s[1]
<1> DEFINE r == RemoveAt(s, k)
           at(i) == IF i < k THEN i ELSE i + 1
<1>1. /\ r \in Seq(Dialogs)
      /\ Len(r) = Len(s) - 1
      /\ \A i \in 1 .. Len(s) - 1 : r[i] = s[at(i)]
  BY Without
<1>2. k \in Nat /\ Len(s) \in Nat /\ k <= Len(s) /\ 1 <= k /\ DOMAIN s = 1 .. Len(s)
  BY LenProperties
<1>3. DOMAIN r = 1 .. Len(s) - 1
  BY <1>1, <1>2
<1>4. \A i \in 1 .. Len(s) - 1 : at(i) \in DOMAIN s /\ at(i) # k
  BY <1>2
<1>5. \A i, j \in 1 .. Len(s) - 1 : at(i) = at(j) => i = j
  BY <1>2
<1>5a. \A i \in 1 .. Len(s) - 1 : at(i) = 1 => i = 1
  BY <1>2
<1>5b. k \in DOMAIN s
  BY <1>2
<1>6. 1 < k => r[1] = s[1]
  <2>1. 1 < k => 1 \in 1 .. Len(s) - 1 /\ at(1) = 1
    BY <1>2
  <2> QED BY <1>1, <2>1
<1> HIDE DEF r, at
<1>7. \A i, j \in DOMAIN s : s[i] = s[j] => i = j
  BY DEF Ordered
<1>8. \A i \in DOMAIN s : s[i] \in shown /\ (s[i] = "alert" => i = 1)
  BY DEF Ordered
<1>9. ASSUME NEW i \in DOMAIN r PROVE r[i] \in shown \ {s[k]} /\ (r[i] = "alert" => i = 1)
  <2>1. i \in 1 .. Len(s) - 1 /\ r[i] = s[at(i)] /\ at(i) \in DOMAIN s /\ at(i) # k
    BY <1>1, <1>3, <1>4
  <2>2. s[at(i)] # s[k]
    BY <1>5b, <1>7, <2>1
  <2> QED BY <1>5a, <1>8, <2>1, <2>2
<1>10. ASSUME NEW i \in DOMAIN r, NEW j \in DOMAIN r, r[i] = r[j] PROVE i = j
  <2>1. i \in 1 .. Len(s) - 1 /\ r[i] = s[at(i)] /\ at(i) \in DOMAIN s
    BY <1>1, <1>3, <1>4
  <2>2. j \in 1 .. Len(s) - 1 /\ r[j] = s[at(j)] /\ at(j) \in DOMAIN s
    BY <1>1, <1>3, <1>4
  <2>3. at(i) = at(j)
    BY <1>7, <1>10, <2>1, <2>2
  <2> QED BY <1>5, <2>1, <2>2, <2>3
<1>11. Ordered(r, shown \ {s[k]})
  BY <1>9, <1>10 DEF Ordered
<1> QED BY <1>1, <1>6, <1>11 DEF r

\* The buffer with one more request.
LEMMA Appended ==
  ASSUME NEW s \in Seq(Dialogs), NEW m \in Dialogs
  PROVE  /\ Append(s, m) \in Seq(Dialogs)
         /\ Len(Append(s, m)) = Len(s) + 1
         /\ \A i \in 1 .. Len(s) : Append(s, m)[i] = s[i]
         /\ Append(s, m)[Len(s) + 1] = m
BY AppendProperties

\* To show the dialogs shown already changes nothing.
LEMMA ShowShown ==
  ASSUME NEW d, NEW show, NEW m, m \in d.shown
  PROVE  ShowBy(show, m, d) = d
BY DEF ShowBy

\* What the middleware makes of the buffer: with the request at its end, without
\* its last or the one hidden, and without the one that takes its place.
Pushed(m, d)  == [d EXCEPT !.buffer = Append(@, m)]
Dropped(d)    == IF d.buffer = <<>> THEN <<>> ELSE Front(d.buffer)
Left(m, d)    == RemoveAt(d.buffer, IndexOf(m, d))
Spliced(m, d) == [d EXCEPT !.buffer = RemoveAt(Left(m, d), IndexOf(m, d))]

\* A show of a dialog for which there is room.
LEMMA ShowWithRoom ==
  ASSUME NEW d, NEW show, NEW m, m \notin d.shown,
         ~(Len(Pushed(m, d).buffer) > 1 /\ Cancellable(Head(Pushed(m, d).buffer)))
  PROVE  ShowBy(show, m, d) = [Pushed(m, d) EXCEPT !.shown = @ \cup {m}]
BY Zenon DEF ShowBy, Pushed

\* A hide of the dialog of one of the requests, with one behind it.
LEMMA HideBefore ==
  ASSUME NEW d, NEW show, NEW m, m \in d.shown, IndexOf(m, d) > 0, IndexOf(m, d) # 0,
         ~(Len(Left(m, d)) < IndexOf(m, d))
  PROVE  HideBy(show, m, d)
           = [show[<<Left(m, d)[IndexOf(m, d)], Spliced(m, d)>>] EXCEPT !.shown = @ \ {m}]
BY Zenon DEF HideBy, Left, Spliced

\* A hide of the dialog of the last request.
LEMMA HideLast ==
  ASSUME NEW d, NEW show, NEW m, m \in d.shown, IndexOf(m, d) > 0, IndexOf(m, d) # 0,
         Len(Left(m, d)) < IndexOf(m, d)
  PROVE  HideBy(show, m, d) = [d EXCEPT !.buffer = Left(m, d), !.shown = @ \ {m}]
BY Zenon DEF HideBy, Left

\* A hide of a dialog without a request.
LEMMA HideWithout ==
  ASSUME NEW d, NEW show, NEW m, m \in d.shown, IndexOf(m, d) = 0, ~(IndexOf(m, d) > 0)
  PROVE  HideBy(show, m, d) = IF Dropped(d) # <<>> THEN [d EXCEPT !.broken = TRUE]
                              ELSE [d EXCEPT !.buffer = Dropped(d), !.shown = @ \ {m}]
BY Zenon DEF HideBy, Dropped

\* A change of one field.
LEMMA Fields ==
  ASSUME NEW d \in DialogStates, NEW new
  PROVE  /\ [d EXCEPT !.buffer = new] = [buffer |-> new, shown |-> d.shown, broken |-> d.broken]
         /\ [d EXCEPT !.shown = new] = [buffer |-> d.buffer, shown |-> new, broken |-> d.broken]
         /\ [d EXCEPT !.broken = new] = [buffer |-> d.buffer, shown |-> d.shown, broken |-> new]
BY DEF DialogStates

\* The recursive function, at the dialogs with n requests.
LEMMA ShowAmongAt ==
  ASSUME NEW d \in DialogStates, NEW m \in Dialogs, NEW n \in Nat, Len(d.buffer) = n
  PROVE  ShowAmong[n][<<m, d>>] = ShowBy(ShowAmong[n - 1], m, d)
<1>1. d.buffer \in [1 .. n -> Dialogs]
  <2>1. d.buffer \in Seq(Dialogs)
    BY DEF DialogStates
  <2> QED BY <2>1, LenProperties
<1>2. d \in Holding(n)
  BY <1>1 DEF Holding, DialogStates
<1>3. <<m, d>> \in Dialogs \X Holding(n)
  BY <1>2
<1>4. Among(n, ShowAmong[n - 1])[<<m, d>>] = ShowBy(ShowAmong[n - 1], m, d)
  BY <1>3 DEF Among
<1> QED BY <1>4, ShowAmongDef

\* What a show does of a buffer in order.
LEMMA ShowSound ==
  ASSUME NEW d \in DialogStates, NEW m \in Dialogs, Sound(d)
  PROVE  /\ Show(m, d) \in DialogStates
         /\ Sound(Show(m, d))
         /\ m \in Show(m, d).shown
         /\ Show(m, d).broken = d.broken
         /\ "alert" \in d.shown => "alert" \in Show(m, d).shown
         /\ m \in d.shown => Show(m, d) = d
<1> DEFINE s == d.buffer
           pushed == [d EXCEPT !.buffer = Append(@, m)]
           show == ShowAmong[Len(s) - 1]
<1>1. s \in Seq(Dialogs) /\ d.shown \in SUBSET Dialogs /\ d.broken \in BOOLEAN
  BY DEF DialogStates
<1>2. Len(s) \in Nat /\ DOMAIN s = 1 .. Len(s)
  BY <1>1, LenProperties
<1>3. Ordered(s, d.shown) /\ (Len(s) > 1 => ~Cancellable(Head(s)))
  BY DEF Sound, Piled
<1>4. Show(m, d) = ShowBy(show, m, d)
  BY DEF Show
<1>5. CASE m \in d.shown
  BY <1>4, <1>5, ShowShown
<1>6. CASE m \notin d.shown
  <2> DEFINE t == Append(s, m)
  <2>1. /\ t \in Seq(Dialogs)
        /\ Len(t) = Len(s) + 1
        /\ \A i \in 1 .. Len(s) : t[i] = s[i]
        /\ t[Len(s) + 1] = m
    BY <1>1, Appended
  <2>2. DOMAIN t = 1 .. Len(s) + 1 /\ t # <<>> /\ Head(t) = t[1]
    BY <1>2, <2>1
  <2>3. \A i \in 1 .. Len(s) : s[i] # m
    BY <1>2, <1>3, <1>6 DEF Ordered
  <2> HIDE DEF t
  <2>4. pushed = [buffer |-> t, shown |-> d.shown, broken |-> d.broken]
    <3>1. pushed = [d EXCEPT !.buffer = t]
      BY Zenon DEF t
    <3> HIDE DEF pushed
    <3> QED BY <3>1, Fields
  <2>5. pushed.buffer = t /\ pushed.shown = d.shown /\ pushed.broken = d.broken
    BY <2>4
  <2>6. ShowBy(show, m, d) =
          IF Len(t) > 1 /\ Cancellable(Head(t)) THEN HideBy(show, Head(t), pushed)
          ELSE [pushed EXCEPT !.shown = @ \cup {m}]
    BY <1>6, <2>5 DEF ShowBy
  <2> HIDE DEF pushed, show, s
  <2>7. CASE Len(s) = 0 \/ ~Cancellable(s[1])
    <3>1. ~(Len(t) > 1 /\ Cancellable(Head(t)))
      BY <1>2, <2>1, <2>2, <2>7
    <3> DEFINE r == [buffer |-> t, shown |-> d.shown \cup {m}, broken |-> d.broken]
    <3>2. Show(m, d) = r
      BY <1>4, <2>4, <2>6, <3>1
    <3>3. m = "alert" => Len(s) = 0
      <4>1. Len(s) # 0 => s[1] \in d.shown /\ s[1] = "alert"
        BY <1>2, <1>3, <2>7 DEF Cancellable, Ordered
      <4> QED BY <1>6, <4>1
    <3>4. ASSUME NEW i \in DOMAIN t
          PROVE  t[i] \in d.shown \cup {m} /\ (t[i] = "alert" => i = 1)
      <4>1. CASE i = Len(s) + 1
        BY <2>1, <3>3, <4>1
      <4>2. CASE i # Len(s) + 1
        <5>1. i \in 1 .. Len(s) /\ t[i] = s[i]
          BY <1>2, <2>1, <2>2, <4>2
        <5> QED BY <1>2, <1>3, <5>1 DEF Ordered
      <4> QED BY <4>1, <4>2
    <3>5. ASSUME NEW i \in DOMAIN t, NEW j \in DOMAIN t, t[i] = t[j]
          PROVE  i = j
      <4>1. \A k \in DOMAIN t : k = Len(s) + 1 \/ (k \in 1 .. Len(s) /\ t[k] = s[k])
        BY <1>2, <2>1, <2>2
      <4>2. CASE i = Len(s) + 1 \/ j = Len(s) + 1
        BY <2>1, <2>3, <3>5, <4>1, <4>2
      <4>3. CASE i # Len(s) + 1 /\ j # Len(s) + 1
        <5>1. i \in DOMAIN s /\ j \in DOMAIN s /\ s[i] = s[j]
          BY <1>2, <3>5, <4>1, <4>3
        <5> QED BY <1>3, <5>1 DEF Ordered
      <4> QED BY <4>2, <4>3
    <3>6. Ordered(t, d.shown \cup {m})
      BY <3>4, <3>5 DEF Ordered
    <3>7. ~(Len(t) > 1 /\ Cancellable(Head(t)))
      BY <3>1
    <3>8. r \in DialogStates /\ r.buffer = t /\ r.shown = d.shown \cup {m} /\ r.broken = d.broken
      BY <1>1, <2>1 DEF DialogStates
    <3> HIDE DEF r
    <3>9. Sound(r)
      BY <3>6, <3>7, <3>8 DEF Sound, Piled
    <3> QED BY <1>6, <3>2, <3>8, <3>9
  <2>8. CASE Len(s) # 0 /\ Cancellable(s[1])
    <3>1. Len(s) = 1
      <4>1. Len(s) # 0 => Head(s) = s[1]
        BY <1>1, <1>2
      <4> QED BY <1>2, <1>3, <2>8, <4>1
    <3> DEFINE x == s[1]
    <3>2. x \in d.shown /\ x \in Dialogs /\ x # m /\ x # "alert"
      BY <1>1, <1>2, <1>3, <1>6, <2>8, <3>1 DEF Ordered, Cancellable
    <3>3. Head(t) = x /\ Len(t) = 2 /\ t[1] = x /\ t[2] = m
      BY <1>2, <2>1, <2>2, <3>1
    <3> HIDE DEF x
    <3>4. ShowBy(show, m, d) = HideBy(show, x, pushed)
      BY <2>6, <2>8, <3>1, <3>3 DEF x
    <3>5. pushed \in DialogStates
      BY <1>1, <2>1, <2>4 DEF DialogStates
    <3>6. IndexOf(x, pushed) = 1
      <4>1. 1 \in DOMAIN pushed.buffer /\ DOMAIN pushed.buffer = 1 .. 2
        BY <2>2, <2>5, <3>1
      <4>2. pushed.buffer[1] = x /\ pushed.buffer[2] # x
        BY <2>5, <3>2, <3>3
      <4>3. Len(pushed.buffer) = 2
        BY <2>5, <3>3
      <4> QED BY <3>2, <3>5, <4>1, <4>2, <4>3, IndexFacts
    <3> DEFINE left == RemoveAt(t, 1)
    <3>7. left \in Seq(Dialogs) /\ Len(left) = 1 /\ left[1] = m
      <4>1. 1 \in 1 .. Len(t) /\ 1 \in 1 .. Len(t) - 1 /\ ~(1 < 1)
        BY <3>3
      <4>2. /\ RemoveAt(t, 1) \in Seq(Dialogs) /\ Len(RemoveAt(t, 1)) = Len(t) - 1
            /\ \A i \in 1 .. Len(t) - 1 : RemoveAt(t, 1)[i] = t[IF i < 1 THEN i ELSE i + 1]
        BY <2>1, <4>1, Without
      <4> QED BY <3>3, <4>1, <4>2
    <3> HIDE DEF left
    <3>8. RemoveAt(left, 1) \in Seq(Dialogs) /\ Len(RemoveAt(left, 1)) = 0
      <4>1. 1 \in 1 .. Len(left) /\ Len(left) - 1 = 0
        BY <3>7
      <4>2. /\ RemoveAt(left, 1) \in Seq(Dialogs) /\ Len(RemoveAt(left, 1)) = Len(left) - 1
        BY <3>7, <4>1, Without
      <4> QED BY <4>1, <4>2
    <3>9. RemoveAt(left, 1) = <<>>
      BY <3>8, EmptySeq
    <3> DEFINE spliced == [buffer |-> <<>>, shown |-> d.shown, broken |-> d.broken]
    <3>10. [pushed EXCEPT !.buffer = RemoveAt(left, 1)] = spliced
      BY <2>4, <3>9
    <3>11. HideBy(show, x, pushed) = [show[<<m, spliced>>] EXCEPT !.shown = @ \ {x}]
      <4>1. x \in pushed.shown /\ RemoveAt(pushed.buffer, 1) = left
        BY <2>5, <3>2 DEF left
      <4>2. IndexOf(x, pushed) > 0 /\ IndexOf(x, pushed) # 0
        BY <3>6
      <4>3. Left(x, pushed) = left /\ Spliced(x, pushed) = spliced
        BY <3>6, <3>10, <4>1, Zenon DEF Left, Spliced
      <4>4. ~(Len(Left(x, pushed)) < IndexOf(x, pushed))
        <5>1. Len(Left(x, pushed)) = 1
          BY <3>7, <4>3, Zenon
        <5> QED BY <3>6, <5>1
      <4> HIDE DEF spliced
      <4>5. HideBy(show, x, pushed)
              = [show[<<Left(x, pushed)[IndexOf(x, pushed)], Spliced(x, pushed)>>] EXCEPT !.shown = @ \ {x}]
        BY <4>1, <4>2, <4>4, HideBefore, Zenon
      <4> QED BY <3>6, <3>7, <4>3, <4>5, Zenon
    <3>12. spliced \in DialogStates /\ Len(spliced.buffer) = 0 /\ m \notin spliced.shown
      <4>1. <<>> \in Seq(Dialogs) /\ Len(<<>>) = 0
        BY EmptySeq
      <4> QED BY <1>1, <1>6, <4>1 DEF DialogStates
    <3>13. show = ShowAmong[0]
      BY <3>1 DEF show
    <3>14. show[<<m, spliced>>] = ShowBy(ShowAmong[0 - 1], m, spliced)
      BY <3>12, <3>13, ShowAmongAt
    <3> DEFINE one == Append(<<>>, m)
    <3>15. one \in Seq(Dialogs) /\ Len(one) = 1 /\ one[1] = m
      <4>1. <<>> \in Seq(Dialogs) /\ Len(<<>>) = 0
        BY EmptySeq
      <4> QED BY <4>1, Appended
    <3> HIDE DEF one
    <3>16. ShowBy(ShowAmong[0 - 1], m, spliced)
             = [buffer |-> one, shown |-> d.shown \cup {m}, broken |-> d.broken]
      <4> DEFINE p == [buffer |-> one, shown |-> d.shown, broken |-> d.broken]
      <4>1. p = Pushed(m, spliced)
        BY DEF one, Pushed
      <4>2. ~(Len(p.buffer) > 1 /\ Cancellable(Head(p.buffer)))
        <5>1. p.buffer = one
          OBVIOUS
        <5> HIDE DEF p
        <5>2. Len(p.buffer) = 1
          BY <3>15, <5>1, Zenon
        <5> QED BY <5>2
      <4>3. p \in DialogStates /\ p.shown = d.shown /\ p.buffer = one /\ p.broken = d.broken
        BY <1>1, <3>15 DEF DialogStates
      <4> HIDE DEF spliced, p
      <4>4. ShowBy(ShowAmong[0 - 1], m, spliced) = [p EXCEPT !.shown = p.shown \cup {m}]
        BY <3>12, <4>1, <4>2, ShowWithRoom, Zenon
      <4>5. [p EXCEPT !.shown = p.shown \cup {m}]
              = [buffer |-> p.buffer, shown |-> p.shown \cup {m}, broken |-> p.broken]
        BY <4>3, Fields
      <4> QED BY <4>3, <4>4, <4>5, Zenon
    <3> DEFINE r == [buffer |-> one, shown |-> (d.shown \cup {m}) \ {x}, broken |-> d.broken]
    <3>17. Show(m, d) = r
      <4> DEFINE q == [buffer |-> one, shown |-> d.shown \cup {m}, broken |-> d.broken]
      <4>1. Show(m, d) = [q EXCEPT !.shown = @ \ {x}]
        <5> HIDE DEF spliced, q
        <5>1. show[<<m, spliced>>] = q
          BY <3>14, <3>16, Zenon DEF q
        <5> QED BY <1>4, <3>4, <3>11, <5>1, Zenon
      <4> QED BY <4>1
    <3>18. r \in DialogStates /\ r.buffer = one /\ r.shown = (d.shown \cup {m}) \ {x}
           /\ r.broken = d.broken
      BY <1>1, <3>15 DEF DialogStates
    <3> HIDE DEF r
    <3>19. DOMAIN one = {1}
      BY <3>15
    <3>20. Ordered(one, (d.shown \cup {m}) \ {x})
      BY <3>2, <3>15, <3>19 DEF Ordered
    <3>21. Sound(r)
      <4>1. Len(r.buffer) = 1
        BY <3>15, <3>18, Zenon
      <4> QED BY <3>18, <3>20, <4>1 DEF Sound, Piled
    <3> QED BY <1>6, <3>2, <3>17, <3>18, <3>21
  <2> QED BY <2>7, <2>8
<1> QED BY <1>5, <1>6

\* The front of a sequence in order.
LEMMA FrontLength ==
  ASSUME NEW s \in Seq(Dialogs), s # <<>>
  PROVE  Front(s) \in Seq(Dialogs) /\ Len(Front(s)) = Len(s) - 1
<1>1. Len(s) \in Nat /\ Len(s) # 0
  BY EmptySeq, LenProperties
<1> DEFINE n == Len(s) - 1
<1>2. n \in Int /\ n >= 0 /\ 1 \in Int /\ \A i \in 1 .. n : s[i] \in Dialogs
  BY <1>1, ElementOfSeq
<1> HIDE DEF n
<1>3. SubSeq(s, 1, n) \in Seq(Dialogs) /\ Len(SubSeq(s, 1, n)) = IF 1 <= n THEN n - 1 + 1 ELSE 0
  BY <1>2, SubSeqProperties
<1>4. Len(SubSeq(s, 1, n)) = n
  BY <1>2, <1>3
<1> QED BY <1>3, <1>4 DEF Front, n

\* What a hide does of a buffer in order: that of the alert may leave others
\* behind without a locked one in front.
LEMMA HideSound ==
  ASSUME NEW d \in DialogStates, NEW m \in Dialogs, Sound(d)
  PROVE  /\ Hide(m, d) \in DialogStates
         /\ Ordered(Hide(m, d).buffer, Hide(m, d).shown)
         /\ m # "alert" => Sound(Hide(m, d))
         /\ d.shown \ {m} \subseteq Hide(m, d).shown
         /\ Hide(m, d).shown \subseteq d.shown
         /\ m \in Hide(m, d).shown => "alert" \in d.shown
<1> DEFINE s == d.buffer
           shown == d.shown
           show == ShowAmong[Len(s) - 2]
           index == IndexOf(m, d)
<1>1. s \in Seq(Dialogs) /\ shown \in SUBSET Dialogs /\ d.broken \in BOOLEAN
  BY DEF DialogStates
<1>2. Len(s) \in Nat /\ DOMAIN s = 1 .. Len(s)
  BY <1>1, LenProperties
<1>3. Ordered(s, shown) /\ (Len(s) > 1 => ~Cancellable(Head(s)))
  BY DEF Sound, Piled
<1>4. Hide(m, d) = HideBy(show, m, d)
  BY DEF Hide
<1>5. d = [buffer |-> s, shown |-> shown, broken |-> d.broken]
  BY DEF DialogStates
<1>6. \/ index = 0 /\ \A i \in DOMAIN s : s[i] # m
      \/ index \in 1 .. Len(s) /\ s[index] = m
  BY IndexFacts
<1>7. Len(s) > 1 => s[1] = "alert" /\ "alert" \in shown
  <2>1. Len(s) > 1 => Head(s) = s[1] /\ 1 \in DOMAIN s
    BY <1>1, <1>2
  <2> QED BY <1>3, <2>1 DEF Cancellable, Ordered
<1> HIDE DEF s, shown, show, index
<1>8. s = d.buffer /\ shown = d.shown
  BY DEF s, shown
<1>9. CASE m \notin shown
  <2>1. Hide(m, d) = d
    BY <1>4, <1>8, <1>9, Zenon DEF HideBy
  <2> QED BY <1>3, <1>8, <1>9, <2>1
<1>10. CASE m \in shown /\ index = 0
  <2> DEFINE left == IF s = <<>> THEN <<>> ELSE Front(s)
  <2>1. HideBy(show, m, d) = IF left # <<>> THEN [d EXCEPT !.broken = TRUE]
                             ELSE [d EXCEPT !.buffer = left, !.shown = @ \ {m}]
    <3>1. IndexOf(m, d) = 0 /\ ~(IndexOf(m, d) > 0)
      BY <1>10 DEF index
    <3>2. left = Dropped(d)
      BY <1>8, Zenon DEF Dropped
    <3> HIDE DEF left
    <3> QED BY <1>8, <1>10, <3>1, <3>2, HideWithout, Zenon
  <2>2. CASE left # <<>>
    <3>1. Len(s) > 1
      <4>1. s # <<>> /\ left = Front(s)
        BY <2>2
      <4>2. left \in Seq(Dialogs) /\ Len(left) = Len(s) - 1
        BY <1>1, <4>1, FrontLength
      <4> HIDE DEF left
      <4>3. Len(left) # 0
        BY <2>2, <4>2, EmptySeq
      <4> QED BY <1>2, <4>2, <4>3
    <3> DEFINE r == [buffer |-> s, shown |-> shown, broken |-> TRUE]
    <3>2. Hide(m, d) = r
      BY <1>4, <1>8, <2>1, <2>2, Fields
    <3>3. r \in DialogStates /\ r.buffer = s /\ r.shown = shown
      BY <1>1 DEF DialogStates
    <3> HIDE DEF r
    <3>4. Sound(r)
      BY <1>3, <3>3 DEF Sound, Piled
    <3> QED BY <1>3, <1>7, <1>8, <3>1, <3>2, <3>3, <3>4
  <2>3. CASE left = <<>>
    <3> DEFINE r == [buffer |-> <<>>, shown |-> shown \ {m}, broken |-> d.broken]
    <3>1. Hide(m, d) = r
      <4>1. HideBy(show, m, d) = [d EXCEPT !.buffer = <<>>, !.shown = shown \ {m}]
        BY <1>8, <2>1, <2>3, Zenon
      <4> QED BY <1>4, <1>5, <4>1
    <3>2. <<>> \in Seq(Dialogs) /\ Len(<<>>) = 0 /\ DOMAIN <<>> = {}
      BY EmptySeq
    <3>3. r \in DialogStates /\ r.buffer = <<>> /\ r.shown = shown \ {m}
      BY <1>1, <3>2 DEF DialogStates
    <3> HIDE DEF r
    <3>4. Sound(r)
      <4>1. Ordered(<<>>, shown \ {m})
        BY <3>2 DEF Ordered
      <4>2. ~(Len(r.buffer) > 1)
        BY <3>2, <3>3
      <4> QED BY <3>3, <4>1, <4>2 DEF Sound, Piled
    <3> QED BY <1>8, <3>1, <3>3, <3>4 DEF Sound
  <2> QED BY <2>2, <2>3
<1>11. CASE m \in shown /\ index # 0
  <2>1. index \in 1 .. Len(s) /\ s[index] = m /\ index \in DOMAIN s /\ index \in Nat /\ index > 0
    BY <1>2, <1>6, <1>11
  <2> DEFINE left == RemoveAt(s, index)
  <2>2. /\ left \in Seq(Dialogs)
        /\ Len(left) = Len(s) - 1
        /\ Ordered(left, shown \ {m})
        /\ 1 < index => left[1] = s[1]
    BY <1>1, <1>3, <2>1, WithoutOrdered
  <2>3. Left(m, d) = left
    BY <1>8, Zenon DEF Left, index
  <2>4. m # "alert" => index > 1 \/ Len(s) = 1
    BY <1>2, <1>7, <2>1
  <2> HIDE DEF left
  <2>5. CASE Len(left) < index
    <3> DEFINE r == [buffer |-> left, shown |-> shown \ {m}, broken |-> d.broken]
    <3>1. Hide(m, d) = r
      <4>1. HideBy(show, m, d) = [d EXCEPT !.buffer = left, !.shown = shown \ {m}]
        <5>1. IndexOf(m, d) > 0 /\ IndexOf(m, d) # 0 /\ Len(Left(m, d)) < IndexOf(m, d)
          BY <1>11, <2>1, <2>3, <2>5, Zenon DEF index
        <5>2. HideBy(show, m, d) = [d EXCEPT !.buffer = Left(m, d), !.shown = @ \ {m}]
          BY <1>8, <1>11, <5>1, HideLast, Zenon
        <5> QED BY <1>8, <2>3, <5>2, Zenon
      <4> QED BY <1>4, <1>5, <4>1
    <3>2. r \in DialogStates /\ r.buffer = left /\ r.shown = shown \ {m}
      BY <1>1, <2>2 DEF DialogStates
    <3> HIDE DEF r
    <3>3. ASSUME m # "alert" PROVE Sound(r)
      <4>1. Len(left) > 1 => Head(left) = "alert"
        <5>1. ASSUME Len(left) > 1 PROVE Head(left) = "alert"
          <6>1. left[1] = "alert" /\ Head(left) = left[1]
            BY <1>2, <1>7, <2>1, <2>2, <2>4, <3>3, <5>1
          <6> QED BY <6>1
        <5> QED BY <5>1
      <4> QED BY <2>2, <3>2, <4>1 DEF Sound, Piled, Cancellable
    <3> QED BY <1>8, <2>2, <3>1, <3>2, <3>3
  <2>6. CASE ~(Len(left) < index)
    <3>1. index \in 1 .. Len(left) /\ Len(left) \in Nat
      BY <1>2, <2>1, <2>2, <2>6
    <3> DEFINE x == left[index]
               rest == RemoveAt(left, index)
    <3>2. x \in shown \ {m} /\ x \in Dialogs
      <4>1. index \in DOMAIN left
        BY <2>2, <3>1
      <4> QED BY <1>1, <2>2, <4>1 DEF Ordered
    <3>3. /\ rest \in Seq(Dialogs)
          /\ Len(rest) = Len(left) - 1
          /\ Ordered(rest, (shown \ {m}) \ {x})
          /\ 1 < index => rest[1] = left[1]
      <4>1. shown \ {m} \in SUBSET Dialogs
        BY <1>1
      <4> QED BY <2>2, <3>1, <4>1, WithoutOrdered
    <3> HIDE DEF x, rest
    <3> DEFINE spliced == [buffer |-> rest, shown |-> shown, broken |-> d.broken]
    <3>4. Spliced(m, d) = spliced /\ Left(m, d)[IndexOf(m, d)] = x
      <4>1. Spliced(m, d) = [d EXCEPT !.buffer = rest]
        BY <2>3, Zenon DEF Spliced, rest, index
      <4>2. [d EXCEPT !.buffer = rest] = spliced
        BY <1>8, Fields
      <4> QED BY <2>3, <4>1, <4>2, Zenon DEF index, x
    <3>5. spliced \in DialogStates /\ spliced.buffer = rest /\ spliced.shown = shown
      BY <1>1, <3>3 DEF DialogStates
    <3>6. [spliced EXCEPT !.shown = @ \ {m}]
            = [buffer |-> rest, shown |-> shown \ {m}, broken |-> d.broken]
      OBVIOUS
    <3> HIDE DEF spliced
    <3>7. show[<<x, spliced>>] = spliced
      <4>1. Len(s) - 2 \in Nat /\ Len(spliced.buffer) = Len(s) - 2
        <5>1. Len(spliced.buffer) = Len(rest)
          BY <3>5, Zenon
        <5>2. Len(rest) = Len(s) - 2 /\ Len(s) - 2 >= 0
          BY <1>2, <2>1, <2>2, <3>1, <3>3
        <5>3. Len(s) - 2 \in Nat
          BY <1>2, <5>2
        <5> QED BY <5>1, <5>2, <5>3, Zenon
      <4>2. show[<<x, spliced>>] = ShowBy(ShowAmong[Len(s) - 2 - 1], x, spliced)
        BY <3>2, <3>5, <4>1, ShowAmongAt DEF show
      <4> QED BY <3>2, <3>5, <4>2, ShowShown, Zenon
    <3> DEFINE r == [buffer |-> rest, shown |-> shown \ {m}, broken |-> d.broken]
    <3>8. Hide(m, d) = r
      <4>1. HideBy(show, m, d)
              = [show[<<Left(m, d)[IndexOf(m, d)], Spliced(m, d)>>] EXCEPT !.shown = @ \ {m}]
        BY <1>8, <1>11, <2>1, <2>3, <2>6, HideBefore, Zenon DEF index
      <4>2. HideBy(show, m, d) = [spliced EXCEPT !.shown = @ \ {m}]
        BY <3>4, <3>7, <4>1, Zenon
      <4> QED BY <1>4, <3>6, <4>2, Zenon
    <3>9. r \in DialogStates /\ r.buffer = rest /\ r.shown = shown \ {m}
      BY <1>1, <3>3 DEF DialogStates
    <3> HIDE DEF r
    <3>10. Ordered(rest, shown \ {m})
      BY <3>3 DEF Ordered
    <3>11. ASSUME m # "alert" PROVE Sound(r)
      <4>1. Len(rest) > 1 => Head(rest) = "alert"
        <5>1. ASSUME Len(rest) > 1 PROVE Head(rest) = "alert"
          <6>1. rest[1] = left[1] /\ left[1] = s[1] /\ s[1] = "alert"
            BY <1>2, <1>7, <2>1, <2>2, <2>4, <3>1, <3>3, <3>11, <5>1
          <6>2. Head(rest) = rest[1]
            BY <3>3, <5>1
          <6> QED BY <6>1, <6>2
        <5> QED BY <5>1
      <4> QED BY <3>9, <3>10, <4>1 DEF Sound, Piled, Cancellable
    <3> QED BY <1>8, <3>8, <3>9, <3>10, <3>11
  <2> QED BY <2>5, <2>6
<1> QED BY <1>9, <1>10, <1>11

\* The alert is destroyed only when nothing requests it; then it is no request.
LEMMA DestroyOrdered ==
  ASSUME NEW d \in DialogStates, Ordered(d.buffer, d.shown)
  PROVE  /\ Destroy("alert", d) \in DialogStates
         /\ Ordered(Destroy("alert", d).buffer, Destroy("alert", d).shown)
         /\ Destroy("alert", d).shown \subseteq d.shown
<1>1. CASE \E i \in DOMAIN d.buffer : d.buffer[i] = "alert"
  <2>1. Destroy("alert", d) = d
    BY <1>1, Zenon DEF Destroy
  <2> QED BY <2>1
<1>2. CASE ~\E i \in DOMAIN d.buffer : d.buffer[i] = "alert"
  <2> DEFINE r == [buffer |-> d.buffer, shown |-> d.shown \ {"alert"}, broken |-> d.broken]
  <2>1. Destroy("alert", d) = r
    <3>1. Destroy("alert", d) = [d EXCEPT !.shown = d.shown \ {"alert"}]
      BY <1>2, Zenon DEF Destroy
    <3> QED BY <3>1, Fields
  <2>2. r \in DialogStates /\ r.buffer = d.buffer /\ r.shown = d.shown \ {"alert"}
    BY DEF DialogStates
  <2> HIDE DEF r
  <2> QED BY <1>2, <2>1, <2>2 DEF Ordered
<1> QED BY <1>1, <1>2

-----------------------------------------------------------------------------
(* The types of the dialogs, in whatever order the buffer is.              *)

\* A show of a dialog with n requests, that is defined for all of these.
ShowsTyped(show, n) ==
  \A d \in DialogStates, m \in Dialogs : Len(d.buffer) = n => show[<<m, d>>] \in DialogStates

LEMMA HideByTyped ==
  ASSUME NEW d \in DialogStates, NEW m \in Dialogs, NEW show,
         Len(d.buffer) > 1 => ShowsTyped(show, Len(d.buffer) - 2)
  PROVE  HideBy(show, m, d) \in DialogStates
<1> DEFINE index == IndexOf(m, d)
<1>1. d.buffer \in Seq(Dialogs) /\ d.shown \in SUBSET Dialogs /\ d.broken \in BOOLEAN
  BY DEF DialogStates
<1>2. Len(d.buffer) \in Nat /\ DOMAIN d.buffer = 1 .. Len(d.buffer)
  BY <1>1, LenProperties
<1>3. d = [buffer |-> d.buffer, shown |-> d.shown, broken |-> d.broken]
  BY DEF DialogStates
<1>4. index = 0 \/ index \in 1 .. Len(d.buffer)
  BY IndexFacts
<1> HIDE DEF index
<1>5. CASE m \notin d.shown
  <2>1. HideBy(show, m, d) = d
    BY <1>5, Zenon DEF HideBy
  <2> QED BY <2>1
<1>6. CASE m \in d.shown /\ index = 0
  <2>1. IndexOf(m, d) = 0 /\ ~(IndexOf(m, d) > 0)
    BY <1>6 DEF index
  <2>2. HideBy(show, m, d) = IF Dropped(d) # <<>> THEN [d EXCEPT !.broken = TRUE]
                             ELSE [d EXCEPT !.buffer = Dropped(d), !.shown = @ \ {m}]
    BY <1>6, <2>1, HideWithout, Zenon
  <2>3. CASE Dropped(d) # <<>>
    <3>1. HideBy(show, m, d) = [buffer |-> d.buffer, shown |-> d.shown, broken |-> TRUE]
      BY <2>2, <2>3, Fields
    <3> QED BY <1>1, <3>1 DEF DialogStates
  <2>4. CASE Dropped(d) = <<>>
    <3>1. HideBy(show, m, d) = [d EXCEPT !.buffer = <<>>, !.shown = @ \ {m}]
      BY <2>2, <2>4, Zenon
    <3>2. HideBy(show, m, d) = [buffer |-> <<>>, shown |-> d.shown \ {m}, broken |-> d.broken]
      BY <1>3, <3>1
    <3> QED BY <1>1, <3>2, EmptySeq DEF DialogStates
  <2> QED BY <2>3, <2>4
<1>7. CASE m \in d.shown /\ index # 0
  <2>1. index \in 1 .. Len(d.buffer) /\ index \in Nat /\ index > 0 /\ Len(d.buffer) - 1 >= 0
    BY <1>2, <1>4, <1>7
  <2> DEFINE left == RemoveAt(d.buffer, index)
  <2>2. left \in Seq(Dialogs) /\ Len(left) = Len(d.buffer) - 1
    BY <1>1, <2>1, Without
  <2>3. Left(m, d) = left /\ index = IndexOf(m, d)
    BY DEF Left, index
  <2> HIDE DEF left
  <2>4. CASE Len(left) < index
    <3>1. HideBy(show, m, d) = [d EXCEPT !.buffer = left, !.shown = @ \ {m}]
      <4>1. IndexOf(m, d) > 0 /\ IndexOf(m, d) # 0 /\ Len(Left(m, d)) < IndexOf(m, d)
        BY <1>7, <2>1, <2>3, <2>4, Zenon
      <4> QED BY <1>7, <2>3, <4>1, HideLast, Zenon
    <3>2. HideBy(show, m, d) = [buffer |-> left, shown |-> d.shown \ {m}, broken |-> d.broken]
      BY <1>3, <3>1
    <3> QED BY <1>1, <2>2, <3>2 DEF DialogStates
  <2>5. CASE ~(Len(left) < index)
    <3>1. index \in 1 .. Len(left) /\ Len(left) \in Nat /\ Len(d.buffer) > 1
      BY <1>2, <2>1, <2>2, <2>5
    <3> DEFINE x == left[index]
               rest == RemoveAt(left, index)
    <3>2. x \in Dialogs
      BY <2>2, <3>1
    <3>3. rest \in Seq(Dialogs) /\ Len(rest) = Len(left) - 1
      BY <2>2, <3>1, Without
    <3> HIDE DEF x, rest
    <3> DEFINE spliced == [buffer |-> rest, shown |-> d.shown, broken |-> d.broken]
    <3>4. Spliced(m, d) = spliced /\ Left(m, d)[IndexOf(m, d)] = x
      <4>1. Spliced(m, d) = [d EXCEPT !.buffer = rest]
        BY <2>3, Zenon DEF Spliced, rest
      <4>2. [d EXCEPT !.buffer = rest] = spliced
        BY Fields
      <4> QED BY <2>3, <4>1, <4>2, Zenon DEF x
    <3>5. spliced \in DialogStates /\ spliced.buffer = rest
      BY <1>1, <3>3 DEF DialogStates
    <3> HIDE DEF spliced
    <3>6. Len(spliced.buffer) = Len(d.buffer) - 2
      <4>1. Len(rest) = Len(d.buffer) - 2
        BY <1>2, <2>2, <3>3
      <4> QED BY <3>5, <4>1, Zenon
    <3> DEFINE r == show[<<x, spliced>>]
    <3>7. r \in DialogStates
      BY <3>1, <3>2, <3>5, <3>6 DEF ShowsTyped
    <3>8. HideBy(show, m, d) = [r EXCEPT !.shown = r.shown \ {m}]
      <4>1. HideBy(show, m, d)
              = [show[<<Left(m, d)[IndexOf(m, d)], Spliced(m, d)>>] EXCEPT !.shown = @ \ {m}]
        BY <1>7, <2>1, <2>3, <2>5, HideBefore, Zenon
      <4> QED BY <3>4, <4>1, Zenon
    <3> HIDE DEF r
    <3>9. HideBy(show, m, d) = [buffer |-> r.buffer, shown |-> r.shown \ {m}, broken |-> r.broken]
      BY <3>7, <3>8, Fields
    <3> QED BY <3>7, <3>9 DEF DialogStates
  <2> QED BY <2>4, <2>5
<1> QED BY <1>5, <1>6, <1>7

LEMMA ShowByTyped ==
  ASSUME NEW d \in DialogStates, NEW m \in Dialogs, NEW show,
         Len(d.buffer) > 0 => ShowsTyped(show, Len(d.buffer) - 1)
  PROVE  ShowBy(show, m, d) \in DialogStates
<1> DEFINE pushed == Pushed(m, d)
<1>1. d.buffer \in Seq(Dialogs) /\ d.shown \in SUBSET Dialogs /\ d.broken \in BOOLEAN
  BY DEF DialogStates
<1>2. Len(d.buffer) \in Nat
  BY <1>1, LenProperties
<1> DEFINE t == Append(d.buffer, m)
<1>3. t \in Seq(Dialogs) /\ Len(t) = Len(d.buffer) + 1 /\ (t # <<>> => Head(t) \in Dialogs)
  BY <1>1, HeadTailProperties
<1> HIDE DEF t
<1>4. pushed = [buffer |-> t, shown |-> d.shown, broken |-> d.broken]
  <2>1. pushed = [d EXCEPT !.buffer = t]
    BY Zenon DEF Pushed, t
  <2> QED BY <2>1, Fields
<1>5. pushed \in DialogStates /\ pushed.buffer = t /\ pushed.shown = d.shown
  BY <1>1, <1>3, <1>4 DEF DialogStates
<1> HIDE DEF pushed
<1>6. CASE m \in d.shown
  BY <1>6, ShowShown
<1>7. CASE m \notin d.shown /\ Len(t) > 1 /\ Cancellable(Head(t))
  <2>1. ShowBy(show, m, d) = HideBy(show, Head(t), pushed)
    <3>1. Len(Pushed(m, d).buffer) > 1 /\ Cancellable(Head(Pushed(m, d).buffer))
      BY <1>5, <1>7, Zenon DEF pushed
    <3>2. ShowBy(show, m, d) = HideBy(show, Head(Pushed(m, d).buffer), Pushed(m, d))
      BY <1>7, <3>1, Zenon DEF ShowBy, Pushed
    <3> QED BY <1>5, <3>2, Zenon DEF pushed
  <2>2. Len(pushed.buffer) = Len(t)
    BY <1>5, Zenon
  <2>3. Len(d.buffer) > 0 /\ Len(pushed.buffer) - 2 = Len(d.buffer) - 1
    BY <1>2, <1>3, <1>7, <2>2
  <2>4. ShowsTyped(show, Len(pushed.buffer) - 2)
    BY <2>3, Zenon
  <2>5. t # <<>>
    BY <1>2, <1>3, EmptySeq
  <2> QED BY <1>3, <1>5, <2>1, <2>4, <2>5, HideByTyped
<1>8. CASE m \notin d.shown /\ ~(Len(t) > 1 /\ Cancellable(Head(t)))
  <2>1. ~(Len(Pushed(m, d).buffer) > 1 /\ Cancellable(Head(Pushed(m, d).buffer)))
    BY <1>5, <1>8, Zenon DEF pushed
  <2>2. ShowBy(show, m, d) = [pushed EXCEPT !.shown = pushed.shown \cup {m}]
    BY <1>8, <2>1, ShowWithRoom, Zenon DEF pushed
  <2>3. ShowBy(show, m, d)
          = [buffer |-> pushed.buffer, shown |-> pushed.shown \cup {m}, broken |-> pushed.broken]
    BY <1>5, <2>2, Fields
  <2> QED BY <1>5, <2>3 DEF DialogStates
<1> QED BY <1>6, <1>7, <1>8

\* The recursive function has values in the dialogs, by the least number of
\* requests for which it would not.
LEMMA ShowAmongTyped == ASSUME NEW n \in Nat PROVE ShowsTyped(ShowAmong[n], n)
<1> DEFINE T == {k \in Nat : ~ShowsTyped(ShowAmong[k], k)}
<1>1. SUFFICES ASSUME T # {} PROVE FALSE
  BY DEF T
<1>2. PICK k \in T : \A l \in T : k <= l
  BY <1>1, LeastNat
<1>3. SUFFICES ASSUME NEW d \in DialogStates, NEW m \in Dialogs, Len(d.buffer) = k
               PROVE  ShowAmong[k][<<m, d>>] \in DialogStates
  BY <1>2 DEF ShowsTyped
<1>4. k > 0 => ShowsTyped(ShowAmong[k - 1], k - 1)
  <2>1. k > 0 => k - 1 \in Nat /\ ~(k <= k - 1)
    BY <1>2
  <2> QED BY <1>2, <2>1
<1>5. ShowAmong[k][<<m, d>>] = ShowBy(ShowAmong[k - 1], m, d)
  BY <1>2, <1>3, ShowAmongAt
<1> HIDE DEF T
<1>6. Len(d.buffer) > 0 => ShowsTyped(ShowAmong[k - 1], Len(d.buffer) - 1)
  BY <1>3, <1>4, Zenon
<1> QED BY <1>5, <1>6, ShowByTyped

LEMMA ShowTyped ==
  ASSUME NEW d \in DialogStates, NEW m \in Dialogs PROVE Show(m, d) \in DialogStates
<1>1. Len(d.buffer) \in Nat
  BY LenProperties DEF DialogStates
<1>2. Len(d.buffer) > 0 => Len(d.buffer) - 1 \in Nat
  BY <1>1
<1>3. Len(d.buffer) > 0 => ShowsTyped(ShowAmong[Len(d.buffer) - 1], Len(d.buffer) - 1)
  BY <1>2, ShowAmongTyped
<1> QED BY <1>3, ShowByTyped DEF Show

LEMMA HideTyped ==
  ASSUME NEW d \in DialogStates, NEW m \in Dialogs PROVE Hide(m, d) \in DialogStates
<1>1. Len(d.buffer) \in Nat
  BY LenProperties DEF DialogStates
<1>2. Len(d.buffer) > 1 => Len(d.buffer) - 2 \in Nat
  BY <1>1
<1>3. Len(d.buffer) > 1 => ShowsTyped(ShowAmong[Len(d.buffer) - 2], Len(d.buffer) - 2)
  BY <1>2, ShowAmongTyped
<1> QED BY <1>3, HideByTyped DEF Hide

LEMMA DestroyTyped ==
  ASSUME NEW d \in DialogStates, NEW m \in Dialogs PROVE Destroy(m, d) \in DialogStates
<1>1. CASE \E i \in DOMAIN d.buffer : d.buffer[i] = m
  <2>1. Destroy(m, d) = d
    BY <1>1, Zenon DEF Destroy
  <2> QED BY <2>1
<1>2. CASE ~\E i \in DOMAIN d.buffer : d.buffer[i] = m
  <2>1. Destroy(m, d) = [d EXCEPT !.shown = d.shown \ {m}]
    BY <1>2, Zenon DEF Destroy
  <2>2. Destroy(m, d) = [buffer |-> d.buffer, shown |-> d.shown \ {m}, broken |-> d.broken]
    BY <2>1, Fields
  <2> QED BY <2>2 DEF DialogStates
<1> QED BY <1>1, <1>2

-----------------------------------------------------------------------------
(* The types of the container.                                             *)

Flags == [payment : BOOLEAN, error : BOOLEAN, notified : BOOLEAN, choosing : BOOLEAN,
          drawerWaiting : BOOLEAN, reversalWaiting : BOOLEAN]

Logicals == {Waiting, "other waiting", "ordinary", "logged off"}

Values == {None, "active", "reversal", "cancelling", "nonIntegrated", "drawer", "fallback"}

StoreStates ==
  [count : 0 .. MaxOperations, error : Errors, engine : Logicals \X Values, message : Messages,
   blocked : BOOLEAN]

PropStates ==
  [inProgress : BOOLEAN, error : Errors, logical : Logicals, value : Values,
   message : Messages, blocked : BOOLEAN, shown : SUBSET Dialogs, remote : BOOLEAN]

Wants == [c : Flags, message : Messages, dialogs : DialogStates]

\* What is kept of a sound buffer by shows, and by hides but that of the alert.
Keeps(d, e) == Sound(d) => Sound(e) /\ ("alert" \in d.shown => "alert" \in e.shown)

LEMMA Shows ==
  ASSUME NEW d \in DialogStates, NEW m \in Dialogs
  PROVE  Show(m, d) \in DialogStates /\ Keeps(d, Show(m, d))
BY ShowTyped, ShowSound DEF Keeps

LEMMA Hides ==
  ASSUME NEW d \in DialogStates, NEW m \in Dialogs, m # "alert"
  PROVE  Hide(m, d) \in DialogStates /\ Keeps(d, Hide(m, d))
BY HideTyped, HideSound DEF Keeps

LEMMA KeepsOn == ASSUME NEW d, NEW e, NEW f, Keeps(d, e), Keeps(e, f) PROVE Keeps(d, f)
BY DEF Keeps

LEMMA Names ==
  /\ "loading" \in Dialogs /\ "approval" \in Dialogs /\ "retry" \in Dialogs
  /\ "reversal" \in Dialogs /\ "suspend" \in Dialogs /\ "alert" \in Dialogs
  /\ "loading" # "alert" /\ "approval" # "alert" /\ "retry" # "alert" /\ "reversal" # "alert"
  /\ "suspend" # "alert"
BY DEF Dialogs

\* A change of one field.
LEMMA WithDialogs ==
  ASSUME NEW w \in Wants, NEW x \in DialogStates
  PROVE  /\ [w EXCEPT !.dialogs = x] \in Wants
         /\ [w EXCEPT !.dialogs = x].dialogs = x
         /\ [w EXCEPT !.dialogs = x].c = w.c
         /\ [w EXCEPT !.dialogs = x].message = w.message
BY DEF Wants

LEMMA WithMessage ==
  ASSUME NEW w \in Wants, NEW x \in Messages
  PROVE  /\ [w EXCEPT !.message = x] \in Wants
         /\ [w EXCEPT !.message = x].dialogs = w.dialogs
         /\ [w EXCEPT !.message = x].c = w.c
BY DEF Wants

\* Only another flag than error has changed.
Flagged(w, r) ==
  r \in Wants /\ r.dialogs = w.dialogs /\ r.message = w.message /\ r.c.error = w.c.error

LEMMA WithFlags ==
  ASSUME NEW w \in Wants, NEW x \in BOOLEAN
  PROVE  /\ Flagged(w, [w EXCEPT !.c.payment = x])
         /\ Flagged(w, [w EXCEPT !.c.notified = x])
         /\ Flagged(w, [w EXCEPT !.c.choosing = x])
         /\ Flagged(w, [w EXCEPT !.c.drawerWaiting = x])
         /\ Flagged(w, [w EXCEPT !.c.reversalWaiting = x])
         /\ [w EXCEPT !.c.error = x] \in Wants
         /\ [w EXCEPT !.c.error = x].dialogs = w.dialogs
         /\ [w EXCEPT !.c.error = x].message = w.message
         /\ [w EXCEPT !.c.error = x].c.error = x
<1>1. w.c \in Flags
  BY DEF Wants
<1>2. w = [c |-> w.c, message |-> w.message, dialogs |-> w.dialogs]
  BY DEF Wants
<1>3. Flagged(w, [w EXCEPT !.c.payment = x])
  BY <1>1, <1>2 DEF Flagged, Wants, Flags
<1>4. Flagged(w, [w EXCEPT !.c.notified = x])
  BY <1>1, <1>2 DEF Flagged, Wants, Flags
<1>5. Flagged(w, [w EXCEPT !.c.choosing = x])
  BY <1>1, <1>2 DEF Flagged, Wants, Flags
<1>6. Flagged(w, [w EXCEPT !.c.drawerWaiting = x])
  BY <1>1, <1>2 DEF Flagged, Wants, Flags
<1>7. Flagged(w, [w EXCEPT !.c.reversalWaiting = x])
  BY <1>1, <1>2 DEF Flagged, Wants, Flags
<1>8. /\ [w EXCEPT !.c.error = x] \in Wants
      /\ [w EXCEPT !.c.error = x].dialogs = w.dialogs
      /\ [w EXCEPT !.c.error = x].message = w.message
      /\ [w EXCEPT !.c.error = x].c.error = x
  BY <1>1, <1>2 DEF Wants, Flags
<1> QED BY <1>3, <1>4, <1>5, <1>6, <1>7, <1>8

-----------------------------------------------------------------------------
(* What the container does keeps the types, and the buffer sound.          *)

\* r comes of w in the same update, or at the same event.
Follows(w, r) == r \in Wants /\ Keeps(w.dialogs, r.dialogs)

LEMMA FollowsOn ==
  ASSUME NEW w, NEW r, NEW q, Follows(w, r), Follows(r, q) PROVE Follows(w, q)
BY KeepsOn DEF Follows

LEMMA FollowsSame ==
  ASSUME NEW w, NEW r \in Wants, r.dialogs = w.dialogs PROVE Follows(w, r)
BY DEF Follows, Keeps

LEMMA ClosedFollows ==
  ASSUME NEW w \in Wants, NEW now
  PROVE  Follows(w, Closed(now, w)) /\ Closed(now, w).dialogs = w.dialogs
<1> DEFINE a == [w EXCEPT !.c.error = FALSE]
           b == [a EXCEPT !.c.notified = FALSE]
           read == IF now.notified THEN None ELSE w.message
<1>1. a \in Wants /\ a.dialogs = w.dialogs /\ a.message = w.message
  BY WithFlags, Zenon
<1> HIDE DEF a
<1>2. b \in Wants /\ b.dialogs = w.dialogs /\ b.message = w.message
  BY <1>1, WithFlags, Zenon DEF Flagged
<1> HIDE DEF b
<1>3. read \in Messages
  BY DEF Wants, Messages
<1> HIDE DEF read
<1>4. [b EXCEPT !.message = read] \in Wants /\ [b EXCEPT !.message = read].dialogs = w.dialogs
  BY <1>2, <1>3, WithMessage
<1>5. Closed(now, w) = [b EXCEPT !.message = read]
  BY <1>2, Zenon DEF Closed, a, b, read
<1> QED BY <1>4, <1>5, FollowsSame

\* The dialogs an operator cancels are not the loading dialog.
LEMMA CancelledFollows ==
  ASSUME NEW w \in Wants, NEW now
  PROVE  /\ Follows(w, Cancelled(now, w))
         /\ Sound(w.dialogs) =>
              /\ Cancelled(now, w).dialogs.shown \subseteq w.dialogs.shown
              /\ "loading" \in w.dialogs.shown => "loading" \in Cancelled(now, w).dialogs.shown
<1> DEFINE d0 == w.dialogs
           d1 == Hide("approval", d0)
           d2 == Hide("retry", d1)
           d3 == Hide("reversal", d2)
           r == [w EXCEPT !.dialogs = d3]
<1>1. d0 \in DialogStates
  BY DEF Wants
<1> HIDE DEF d0
<1>2. d1 \in DialogStates /\ Keeps(d0, d1)
  BY <1>1, Names, Hides
<1>3. Sound(d0) => d1.shown \subseteq d0.shown /\ ("loading" \in d0.shown => "loading" \in d1.shown)
  BY <1>1, Names, HideSound
<1> HIDE DEF d1
<1>4. d2 \in DialogStates /\ Keeps(d1, d2)
  BY <1>2, Names, Hides
<1>5. Sound(d1) => d2.shown \subseteq d1.shown /\ ("loading" \in d1.shown => "loading" \in d2.shown)
  BY <1>2, Names, HideSound
<1> HIDE DEF d2
<1>6. d3 \in DialogStates /\ Keeps(d2, d3)
  BY <1>4, Names, Hides
<1>7. Sound(d2) => d3.shown \subseteq d2.shown /\ ("loading" \in d2.shown => "loading" \in d3.shown)
  BY <1>4, Names, HideSound
<1> HIDE DEF d3
<1>8. Keeps(d0, d3)
  BY <1>2, <1>4, <1>6, KeepsOn
<1>9. r \in Wants /\ r.dialogs = d3
  BY <1>6, WithDialogs
<1>10. Follows(w, r)
  BY <1>8, <1>9 DEF Follows, d0
<1>11. Cancelled(now, w) = Closed(now, r)
  BY Zenon DEF Cancelled, d0, d1, d2, d3
<1> HIDE DEF r
<1>12. Follows(r, Closed(now, r)) /\ Closed(now, r).dialogs = d3
  BY <1>9, ClosedFollows
<1>13. Follows(w, Cancelled(now, w))
  BY <1>10, <1>11, <1>12, FollowsOn
<1>14. Sound(d0) => d3.shown \subseteq d0.shown /\ ("loading" \in d0.shown => "loading" \in d3.shown)
  <2>1. Sound(d0) => Sound(d1) /\ Sound(d2)
    BY <1>2, <1>4 DEF Keeps
  <2> QED BY <1>3, <1>5, <1>7, <2>1
<1> QED BY <1>11, <1>12, <1>13, <1>14 DEF d0

\* A dialog takes the place of the loading dialog, or is shown as it is.
LEMMA ShownFollows ==
  ASSUME NEW w \in Wants, NEW m \in Dialogs
  PROVE  LET r == [w EXCEPT !.dialogs = Show(m, @)]
             q == [w EXCEPT !.dialogs = Show(m, Hide("loading", @))]
         IN  Follows(w, r) /\ r.c = w.c /\ Follows(w, q) /\ q.c = w.c
<1>1. w.dialogs \in DialogStates
  BY DEF Wants
<1>2. Show(m, w.dialogs) \in DialogStates /\ Keeps(w.dialogs, Show(m, w.dialogs))
  BY <1>1, Shows
<1>3. Hide("loading", w.dialogs) \in DialogStates /\ Keeps(w.dialogs, Hide("loading", w.dialogs))
  BY <1>1, Names, Hides
<1>4. /\ Show(m, Hide("loading", w.dialogs)) \in DialogStates
      /\ Keeps(Hide("loading", w.dialogs), Show(m, Hide("loading", w.dialogs)))
  BY <1>3, Shows
<1>5. Keeps(w.dialogs, Show(m, Hide("loading", w.dialogs)))
  BY <1>3, <1>4, KeepsOn
<1> QED BY <1>2, <1>4, <1>5, WithDialogs DEF Follows

\* A step of the container that takes no error away.
Tells(w, r) == Follows(w, r) /\ (w.c.error => r.c.error)

LEMMA TellsSame == ASSUME NEW w \in Wants PROVE Tells(w, w)
BY FollowsSame DEF Tells

LEMMA FlaggedTells ==
  ASSUME NEW w, NEW r, Flagged(w, r) PROVE Tells(w, r) /\ r.dialogs = w.dialogs
BY FollowsSame DEF Tells, Flagged

LEMMA TellsFlag ==
  ASSUME NEW w \in Wants, NEW x \in BOOLEAN
  PROVE  /\ Tells(w, [w EXCEPT !.c.payment = x])
         /\ Tells(w, [w EXCEPT !.c.notified = x])
         /\ Tells(w, [w EXCEPT !.c.choosing = x])
         /\ x => Tells(w, [w EXCEPT !.c.error = x])
<1>1. /\ Tells(w, [w EXCEPT !.c.payment = x])
      /\ Tells(w, [w EXCEPT !.c.notified = x])
      /\ Tells(w, [w EXCEPT !.c.choosing = x])
  BY WithFlags, FlaggedTells, Zenon
<1> DEFINE r == [w EXCEPT !.c.error = x]
<1>2. r \in Wants /\ r.dialogs = w.dialogs /\ r.c.error = x
  BY WithFlags, Zenon
<1> HIDE DEF r
<1>3. x => Tells(w, r)
  BY <1>2, FollowsSame DEF Tells
<1> QED BY <1>1, <1>3, Zenon DEF r

LEMMA TellsOn ==
  ASSUME NEW w, NEW r, NEW q, Tells(w, r), Tells(r, q) PROVE Tells(w, q)
BY FollowsOn DEF Tells

LEMMA TellsMessage == ASSUME NEW w \in Wants PROVE Tells(w, [w EXCEPT !.message = None])
<1>1. None \in Messages
  BY DEF Messages
<1> QED BY <1>1, WithMessage, FollowsSame DEF Tells

LEMMA TellsShown ==
  ASSUME NEW w \in Wants, NEW m \in Dialogs
  PROVE  /\ Tells(w, [w EXCEPT !.dialogs = Show(m, @)])
         /\ Tells(w, [w EXCEPT !.dialogs = Show(m, Hide("loading", @))])
BY ShownFollows DEF Tells

LEMMA ErrorHandledTells ==
  ASSUME NEW w \in Wants, NEW new \in PropStates PROVE Tells(w, ErrorHandled(new, w))
<1>1. CASE new.error \in {None, "plain"}
  <2>1. ErrorHandled(new, w) = [w EXCEPT !.c.payment = FALSE]
    BY <1>1, NoneAssumption DEF ErrorHandled
  <2> QED BY <2>1, TellsFlag
<1>2. CASE new.error \notin {None, "plain"} /\ new.error = "shown"
  <2> DEFINE a == [w EXCEPT !.c.payment = FALSE]
  <2>1. ErrorHandled(new, w) = [a EXCEPT !.c.error = TRUE]
    BY <1>2 DEF ErrorHandled
  <2>2. Tells(w, a) /\ a \in Wants
    BY TellsFlag DEF Tells, Follows
  <2> HIDE DEF a
  <2>3. Tells(a, [a EXCEPT !.c.error = TRUE])
    BY <2>2, TellsFlag
  <2> QED BY <2>1, <2>2, <2>3, TellsOn
<1>3. CASE new.error \notin {None, "plain"} /\ new.error = "noted"
  <2>1. ErrorHandled(new, w) = [w EXCEPT !.message = None]
    BY <1>3 DEF ErrorHandled
  <2> QED BY <2>1, TellsMessage
<1>4. CASE new.error \notin {None, "plain"} /\ new.error = "device"
  <2>1. ErrorHandled(new, w) = [w EXCEPT !.c.choosing = TRUE]
    BY <1>4 DEF ErrorHandled
  <2> QED BY <2>1, TellsFlag
<1>5. CASE new.error \notin {None, "plain"} /\ new.error = "override"
  <2>1. ErrorHandled(new, w) = [w EXCEPT !.dialogs = Show("approval", Hide("loading", @))]
    BY <1>5 DEF ErrorHandled
  <2> QED BY <2>1, Names, TellsShown
<1>6. CASE new.error \notin {None, "plain"} /\ new.error = "forfeit"
  <2>1. ErrorHandled(new, w) = [w EXCEPT !.dialogs = Show("alert", @)]
    BY <1>6 DEF ErrorHandled
  <2> QED BY <2>1, Names, TellsShown
<1>7. CASE new.error \notin {None, "plain", "shown", "noted", "device", "override", "forfeit"}
  <2>1. ErrorHandled(new, w) = w
    BY <1>7 DEF ErrorHandled
  <2> QED BY <2>1, TellsSame
<1> QED BY <1>1, <1>2, <1>3, <1>4, <1>5, <1>6, <1>7

LEMMA MessageHandledTells ==
  ASSUME NEW w \in Wants, NEW new \in PropStates PROVE Tells(w, MessageHandled(new, w))
<1>1. CASE new.message = "shown"
  <2> DEFINE a == [w EXCEPT !.c.error = TRUE]
  <2>1. MessageHandled(new, w) = [a EXCEPT !.c.notified = TRUE]
    BY <1>1 DEF MessageHandled
  <2>2. Tells(w, a) /\ a \in Wants
    BY TellsFlag DEF Tells, Follows
  <2> HIDE DEF a
  <2>3. Tells(a, [a EXCEPT !.c.notified = TRUE])
    BY <2>2, TellsFlag
  <2> QED BY <2>1, <2>2, <2>3, TellsOn
<1>2. CASE new.message = "noted"
  <2>1. MessageHandled(new, w) = [w EXCEPT !.message = None]
    BY <1>2 DEF MessageHandled
  <2> QED BY <2>1, TellsMessage
<1>3. CASE new.message = "refund" /\ ~committed.payment
  <2> DEFINE a == [w EXCEPT !.dialogs = Show("retry", Hide("loading", @))]
  <2>1. MessageHandled(new, w) = [a EXCEPT !.c.notified = TRUE]
    BY <1>3 DEF MessageHandled
  <2>2. Tells(w, a) /\ a \in Wants
    BY Names, TellsShown DEF Tells, Follows
  <2> HIDE DEF a
  <2>3. Tells(a, [a EXCEPT !.c.notified = TRUE])
    BY <2>2, TellsFlag
  <2> QED BY <2>1, <2>2, <2>3, TellsOn
<1>4. CASE new.message # "shown" /\ new.message # "noted" /\ ~(new.message = "refund" /\ ~committed.payment)
  <2>1. MessageHandled(new, w) = w
    BY <1>4 DEF MessageHandled
  <2> QED BY <2>1, TellsSame
<1> QED BY <1>1, <1>2, <1>3, <1>4

\* componentWillReceiveProps, but for the removal at its end, takes no error
\* away.
LEMMA ReceivedTells ==
  ASSUME NEW w \in Wants, NEW old \in PropStates, NEW new \in PropStates
  PROVE  Tells(w, Received(old, new, w))
<1> DEFINE rest == IF DevicePaying(new) /\ ~NotificationNeeded(new) THEN [w EXCEPT !.c.payment = TRUE]
                   ELSE IF ShouldHandleError(old, new) THEN ErrorHandled(new, w)
                   ELSE IF new.message # None /\ ~committed.notified THEN MessageHandled(new, w)
                   ELSE w
<1>1. CASE NonIntegratedInput(old, new)
  <2>1. Received(old, new, w) = w
    BY <1>1, Zenon DEF Received
  <2> QED BY <2>1, TellsSame
<1>2. CASE ~NonIntegratedInput(old, new) /\ ManualReversal(old, new)
  <2>1. Received(old, new, w) = [w EXCEPT !.dialogs = Show("reversal", @)]
    BY <1>2, Zenon DEF Received
  <2> QED BY <2>1, Names, TellsShown
<1>3. CASE ~NonIntegratedInput(old, new) /\ ~ManualReversal(old, new)
  <2>1. Received(old, new, w) = rest
    BY <1>3, Zenon DEF Received
  <2>2. Tells(w, [w EXCEPT !.c.payment = TRUE])
    BY TellsFlag
  <2>3. Tells(w, rest)
    BY <2>2, ErrorHandledTells, MessageHandledTells, TellsSame
  <2> QED BY <2>1, <2>3
<1> QED BY <1>1, <1>2, <1>3

\* componentWillReceiveProps
LEMMA WillReceiveFollows ==
  ASSUME NEW w \in Wants, NEW old \in PropStates, NEW new \in PropStates
  PROVE  /\ Follows(w, WillReceiveProps(old, new, w))
         /\ w.c.error /\ ~Removes(old, new) => WillReceiveProps(old, new, w).c.error
<1> DEFINE received == Received(old, new, w)
           a == [received EXCEPT !.c.error = FALSE]
           b == [a EXCEPT !.c.notified = FALSE]
<1>1. Tells(w, received)
  BY ReceivedTells
<1>2. received \in Wants /\ Follows(w, received) /\ (w.c.error => received.c.error)
  BY <1>1 DEF Tells, Follows
<1> HIDE DEF received
<1>3. a \in Wants /\ a.dialogs = received.dialogs
  BY <1>2, WithFlags, Zenon
<1> HIDE DEF a
<1>4. b \in Wants /\ b.dialogs = received.dialogs
  BY <1>3, WithFlags, Zenon DEF Flagged
<1> HIDE DEF b
<1>5. Follows(w, b)
  BY <1>2, <1>4, FollowsSame, FollowsOn
<1>6. WillReceiveProps(old, new, w) = IF Removes(old, new) THEN b ELSE received
  BY Zenon DEF WillReceiveProps, received, a, b
<1> QED BY <1>2, <1>5, <1>6

\* The loading dialog in componentDidUpdate.
LEMMA LoadingUpdatedKeeps ==
  ASSUME NEW d \in DialogStates, NEW old, NEW new, NEW now
  PROVE  LoadingUpdated(old, new, now, d) \in DialogStates /\ Keeps(d, LoadingUpdated(old, new, now, d))
<1>1. Keeps(d, d)
  BY DEF Keeps
<1>2. Hide("loading", d) \in DialogStates /\ Keeps(d, Hide("loading", d))
  BY Names, Hides
<1>3. Show("loading", d) \in DialogStates /\ Keeps(d, Show("loading", d))
  BY Names, Shows
<1>4. LoadingUpdated(old, new, now, d) \in {d, Hide("loading", d), Show("loading", d)}
  BY Zenon DEF LoadingUpdated
<1> QED BY <1>1, <1>2, <1>3, <1>4

\* Unless it is blocked, the loading dialog is shown while something is processed,
\* and hidden when nothing is.
LEMMA LoadingUpdatedShows ==
  ASSUME NEW d \in DialogStates, Sound(d), NEW old, NEW new, NEW now, ~new.blocked,
         "alert" \notin LoadingUpdated(old, new, now, d).shown
  PROVE  /\ Processing(new, now) /\ "loading" \notin new.shown
              => "loading" \in LoadingUpdated(old, new, now, d).shown
         /\ ~Processing(new, now) /\ "loading" \in new.shown
              => "loading" \notin LoadingUpdated(old, new, now, d).shown
<1>1. Stopped(new, now) <=> ~Processing(new, now)
  BY Zenon DEF Stopped, Processing
<1>2. ASSUME Processing(new, now), "loading" \notin new.shown
      PROVE  "loading" \in LoadingUpdated(old, new, now, d).shown
  <2>1. LoadingUpdated(old, new, now, d) = Show("loading", d)
    BY <1>2, Zenon DEF LoadingUpdated
  <2> QED BY <2>1, Names, ShowSound
<1>3. ASSUME ~Processing(new, now), "loading" \in new.shown
      PROVE  "loading" \notin LoadingUpdated(old, new, now, d).shown
  <2>1. LoadingUpdated(old, new, now, d) = Hide("loading", d)
    BY <1>1, <1>3, Zenon DEF LoadingUpdated
  <2>2. "alert" \in d.shown => "alert" \in Hide("loading", d).shown
    BY Names, HideSound
  <2> QED BY <2>1, <2>2, Names, HideSound
<1> QED BY <1>2, <1>3

LEMMA DrawerUpdatedFollows ==
  ASSUME NEW w \in Wants, NEW old, NEW new
  PROVE  Follows(w, DrawerUpdated(old, new, w)) /\ DrawerUpdated(old, new, w).dialogs = w.dialogs
<1>1. CASE (old.value = "drawer") = (new.value = "drawer")
  <2>1. DrawerUpdated(old, new, w) = w
    BY <1>1, Zenon DEF DrawerUpdated
  <2> QED BY <2>1, FollowsSame
<1>2. CASE (old.value = "drawer") # (new.value = "drawer")
  <2> DEFINE x == new.value = "drawer"
  <2>1. x \in BOOLEAN
    OBVIOUS
  <2>2. DrawerUpdated(old, new, w) = [w EXCEPT !.c.drawerWaiting = x]
    BY <1>2, Zenon DEF DrawerUpdated
  <2> HIDE DEF x
  <2>3. Flagged(w, [w EXCEPT !.c.drawerWaiting = x])
    BY <2>1, WithFlags, Zenon
  <2> QED BY <2>2, <2>3, FollowsSame DEF Flagged
<1> QED BY <1>1, <1>2

\* The end of a cancellation of a manual reversal: of the dialogs, the loading
\* dialog is the one that stays.
LEMMA ReversalUpdatedFollows ==
  ASSUME NEW w \in Wants, NEW old, NEW new, NEW now
  PROVE  LET r == ReversalUpdated(old, new, now, w)
         IN  /\ Follows(w, r)
             /\ Sound(w.dialogs) =>
                  /\ r.dialogs.shown \subseteq w.dialogs.shown
                  /\ "loading" \in w.dialogs.shown => "loading" \in r.dialogs.shown
<1> DEFINE r == ReversalUpdated(old, new, now, w)
           ends == old.value = "cancelling" /\ new.value # "cancelling"
           q == Cancelled(now, w)
           x == [q EXCEPT !.c.reversalWaiting = FALSE]
<1>1. /\ Follows(w, q)
      /\ Sound(w.dialogs) =>
           /\ q.dialogs.shown \subseteq w.dialogs.shown
           /\ "loading" \in w.dialogs.shown => "loading" \in q.dialogs.shown
  BY CancelledFollows
<1> HIDE DEF q
<1>2. Flagged(q, x)
  BY <1>1, WithFlags, Zenon DEF Follows
<1>3. r = IF ends THEN x ELSE w
  BY Zenon DEF ReversalUpdated, q
<1> HIDE DEF r, ends, x
<1>4. Follows(w, x) /\ x.dialogs = q.dialogs
  BY <1>1, <1>2, FollowsSame, FollowsOn DEF Flagged
<1>5. Follows(w, w)
  BY FollowsSame
<1>6. CASE ends
  <2>1. r = x
    BY <1>3, <1>6
  <2> QED BY <1>1, <1>4, <2>1 DEF r
<1>7. CASE ~ends
  <2>1. r = w
    BY <1>3, <1>7
  <2> QED BY <1>5, <2>1 DEF r
<1> QED BY <1>6, <1>7

LEMMA FallbackUpdatedFollows ==
  ASSUME NEW w \in Wants, NEW old, NEW new
  PROVE  /\ Follows(w, FallbackUpdated(old, new, w))
         /\ Sound(w.dialogs) /\ "alert" \notin FallbackUpdated(old, new, w).dialogs.shown
              => FallbackUpdated(old, new, w) = w
<1> DEFINE q == [w EXCEPT !.dialogs = Show("alert", w.dialogs)]
           fallback == OperationEnds(old, new) /\ new.error = None /\ new.value = "fallback"
<1>1. Follows(w, q)
  BY Names, ShownFollows
<1>2. w.dialogs \in DialogStates
  BY DEF Wants
<1>3. Show("alert", w.dialogs) \in DialogStates
  BY <1>2, Names, Shows
<1>4. q.dialogs = Show("alert", w.dialogs)
  BY <1>3, WithDialogs
<1>5. Sound(w.dialogs) => "alert" \in q.dialogs.shown
  BY <1>2, <1>4, Names, ShowSound
<1>6. FallbackUpdated(old, new, w) = IF fallback THEN q ELSE w
  BY Zenon DEF FallbackUpdated
<1>7. Follows(w, w)
  BY FollowsSame
<1> HIDE DEF q, fallback
<1> QED BY <1>1, <1>5, <1>6, <1>7

\* componentDidUpdate
LEMMA DidUpdateFollows ==
  ASSUME NEW w \in Wants, NEW old \in PropStates, NEW new \in PropStates, NEW now
  PROVE  LET r == DidUpdate(old, new, now, w)
             d == LoadingUpdated(old, new, now, w.dialogs)
         IN  /\ Follows(w, r)
             /\ Sound(w.dialogs) /\ "alert" \notin r.dialogs.shown
                  => /\ "alert" \notin d.shown
                     /\ "loading" \in d.shown <=> "loading" \in r.dialogs.shown
<1> DEFINE d == LoadingUpdated(old, new, now, w.dialogs)
           w1 == [w EXCEPT !.dialogs = d]
           w2 == DrawerUpdated(old, new, w1)
           w3 == ReversalUpdated(old, new, now, w2)
           w4 == FallbackUpdated(old, new, w3)
<1>1. DidUpdate(old, new, now, w) = w4
  BY Zenon DEF DidUpdate
<1>2. w.dialogs \in DialogStates
  BY DEF Wants
<1>3. d \in DialogStates /\ Keeps(w.dialogs, d)
  BY <1>2, LoadingUpdatedKeeps
<1> HIDE DEF d
<1>4. w1 \in Wants /\ w1.dialogs = d
  BY <1>3, WithDialogs
<1>5. Follows(w, w1)
  BY <1>3, <1>4 DEF Follows
<1> HIDE DEF w1
<1>6. Follows(w1, w2) /\ w2.dialogs = d
  BY <1>4, DrawerUpdatedFollows
<1>7. w2 \in Wants
  BY <1>6 DEF Follows
<1> HIDE DEF w2
<1>8. /\ Follows(w2, w3)
      /\ Sound(d) => /\ w3.dialogs.shown \subseteq d.shown
                     /\ "loading" \in d.shown => "loading" \in w3.dialogs.shown
  BY <1>6, <1>7, ReversalUpdatedFollows
<1>9. w3 \in Wants
  BY <1>8 DEF Follows
<1> HIDE DEF w3
<1>10. /\ Follows(w3, w4)
       /\ Sound(w3.dialogs) /\ "alert" \notin w4.dialogs.shown => w4 = w3
  BY <1>9, FallbackUpdatedFollows
<1> HIDE DEF w4
<1>11. Follows(w, w3)
  BY <1>5, <1>6, <1>8, FollowsOn
<1>12. Follows(w, w4)
  BY <1>10, <1>11, FollowsOn
<1>13. ASSUME Sound(w.dialogs), "alert" \notin w4.dialogs.shown
       PROVE  /\ "alert" \notin d.shown
              /\ "loading" \in d.shown <=> "loading" \in w4.dialogs.shown
  <2>1. Sound(d) /\ Sound(w3.dialogs)
    BY <1>3, <1>11, <1>13 DEF Keeps, Follows
  <2>2. w4 = w3
    BY <1>10, <1>13, <2>1
  <2>3. "alert" \in d.shown => "alert" \in w3.dialogs.shown
    BY <1>6, <1>8, <2>1 DEF Keeps, Follows
  <2> QED BY <1>8, <1>13, <2>1, <2>2, <2>3
<1> QED BY <1>1, <1>12, <1>13 DEF d

-----------------------------------------------------------------------------
(* The types of the variables, whatever step is taken.                     *)

\* What a saga may have yet to put.
Puts == {[put |-> "notified"]} \cup [put : {"logical state"}, logical : Logicals]

Typed ==
  /\ TypeOK
  /\ store \in StoreStates /\ dialogs \in DialogStates
  /\ todo = <<>> \/ \E put \in Puts : todo = <<put>>
  /\ due \in BOOLEAN
  /\ seen \in PropStates /\ committed \in Flags /\ wanted \in Flags
  /\ ended \in 0 .. MaxEnds

DialogTypeOK == Typed /\ piled \in BOOLEAN

LEMMA PropsTyped == ASSUME Typed PROVE Props \in PropStates
<1>1. /\ store.count \in 0 .. MaxOperations /\ store.error \in Errors /\ store.engine \in Logicals \X Values
      /\ store.message \in Messages /\ store.blocked \in BOOLEAN
  BY DEF Typed, StoreStates
<1>2. dialogs.shown \in SUBSET Dialogs /\ state.isProcessing \in BOOLEAN
  BY DEF Typed, DialogStates, TypeOK
<1>3. (store.count > 0) \in BOOLEAN /\ store.engine[1] \in Logicals /\ store.engine[2] \in Values
  BY <1>1
<1> QED BY <1>1, <1>2, <1>3 DEF Props, PropStates

LEMMA CurrentTyped ==
  ASSUME Typed
  PROVE  Current \in Wants /\ Current.dialogs = dialogs /\ Current.c = wanted /\ Current.message = store.message
BY DEF Typed, Current, Wants, StoreStates

\* The puts of the saga.
LEMMA StoredNotified ==
  ASSUME NEW s \in StoreStates
  PROVE  Stored([put |-> "notified"], s) \in StoreStates
<1>1. Stored([put |-> "notified"], s) = [s EXCEPT !.message = None]
  BY DEF Stored
<1> QED BY <1>1 DEF StoreStates, Messages

LEMMA StoredRequest ==
  ASSUME NEW s \in StoreStates, s.count < MaxOperations
  PROVE  Stored([put |-> "request"], s) \in StoreStates
<1>1. Stored([put |-> "request"], s) = [s EXCEPT !.count = @ + 1]
  BY DEF Stored
<1>2. s.count \in 0 .. MaxOperations /\ s.count + 1 \in 0 .. MaxOperations
  BY BoundAssumption DEF StoreStates
<1> QED BY <1>1, <1>2 DEF StoreStates

LEMMA RequestedTyped ==
  ASSUME NEW s \in StoreStates, s.count < MaxOperations PROVE Requested(s) \in StoreStates
BY StoredRequest, StoredNotified DEF Requested

LEMMA StoredSuccess ==
  ASSUME NEW s \in StoreStates, s.count > 0, NEW v \in Values
  PROVE  Stored([put |-> "success", value |-> v], s) \in StoreStates
<1> DEFINE e == <<s.engine[1], v>>
<1>1. /\ s = [count |-> s.count, error |-> s.error, engine |-> s.engine, message |-> s.message,
             blocked |-> s.blocked]
      /\ s.count \in 0 .. MaxOperations /\ s.engine \in Logicals \X Values /\ s.message \in Messages
      /\ s.blocked \in BOOLEAN
  BY DEF StoreStates
<1>2. s.count - 1 \in 0 .. MaxOperations /\ e \in Logicals \X Values /\ None \in Errors
  BY <1>1, BoundAssumption DEF Errors
<1>3. Stored([put |-> "success", value |-> v], s)
        = [s EXCEPT !.count = s.count - 1, !.error = None, !.engine = e]
  <2>1. [s EXCEPT !.count = s.count - 1, !.error = None].engine = s.engine
    BY <1>1
  <2> QED BY <2>1 DEF Stored
<1> HIDE DEF e
<1> DEFINE n == s.count - 1
<1>4. n \in 0 .. MaxOperations
  BY <1>2
<1> HIDE DEF n
<1>5. [s EXCEPT !.count = n, !.error = None, !.engine = e] \in StoreStates
  BY <1>2, <1>4 DEF StoreStates
<1> QED BY <1>3, <1>5 DEF n

LEMMA StoredFailure ==
  ASSUME NEW s \in StoreStates, s.count > 0, NEW e \in Errors
  PROVE  Stored([put |-> "failure", error |-> e], s) \in StoreStates
<1>1. Stored([put |-> "failure", error |-> e], s) = [s EXCEPT !.count = @ - 1, !.error = e]
  BY DEF Stored
<1>2. s.count \in 0 .. MaxOperations /\ s.count - 1 \in 0 .. MaxOperations
  BY BoundAssumption DEF StoreStates
<1> QED BY <1>1, <1>2 DEF StoreStates

LEMMA StoredLogical ==
  ASSUME NEW s \in StoreStates, NEW l \in Logicals
  PROVE  Stored([put |-> "logical state", logical |-> l], s) \in StoreStates
<1>1. Stored([put |-> "logical state", logical |-> l], s) = [s EXCEPT !.engine = <<l, @[2]>>]
  BY DEF Stored
<1>2. s.engine \in Logicals \X Values
  BY DEF StoreStates
<1>3. <<l, s.engine[2]>> \in Logicals \X Values
  BY <1>2
<1> QED BY <1>1, <1>3 DEF StoreStates

LEMMA StoredTyped ==
  ASSUME NEW s \in StoreStates, NEW put \in Puts PROVE Stored(put, s) \in StoreStates
<1>1. CASE put = [put |-> "notified"]
  BY <1>1, StoredNotified
<1>2. CASE put \in [put : {"logical state"}, logical : Logicals]
  <2>1. put = [put |-> "logical state", logical |-> put.logical] /\ put.logical \in Logicals
    BY <1>2
  <2> QED BY <2>1, StoredLogical
<1> QED BY <1>1, <1>2 DEF Puts

\* What the engine says of its state.
LEMMA EngineTyped == Engine \subseteq Logicals \X Values
<1>1. ASSUME NEW value \in {None, "active", "reversal", "cancelling", "nonIntegrated"}
      PROVE  <<Waiting, value>> \in Logicals \X Values
  <2>1. Waiting \in Logicals /\ value \in Values
    BY <1>1 DEF Logicals, Values
  <2> QED BY <2>1
<1>2. /\ <<"other waiting", "active">> \in Logicals \X Values /\ <<"ordinary", None>> \in Logicals \X Values
      /\ <<"ordinary", "drawer">> \in Logicals \X Values /\ <<"ordinary", "fallback">> \in Logicals \X Values
      /\ <<"logged off", None>> \in Logicals \X Values
  BY DEF Logicals, Values
<1> QED BY <1>1, <1>2, Zenon DEF Engine

\* Whatever was told last, a buffer in order stays so, or the pile is recorded.
StaysSound == Sound(dialogs) => Sound(dialogs') \/ Piled(dialogs')

\* An event handler of a screen, for any state and store it wants.
HandledSoundly ==
  \E w \in Wants, s \in StoreStates :
     Handled(w, s) /\ (Sound(dialogs) => Sound(w.dialogs) \/ Piled(w.dialogs))

LEMMA HandledFollows ==
  ASSUME Typed, NEW w, Follows(Current, w), NEW s \in StoreStates, Handled(w, s)
  PROVE  HandledSoundly
<1>1. w \in Wants /\ Keeps(dialogs, w.dialogs)
  BY CurrentTyped DEF Follows
<1> QED BY <1>1 DEF HandledSoundly, Keeps

LEMMA OperateHandled == ASSUME Typed, Operate PROVE HandledSoundly
<1>1. Follows(Current, Current)
  BY CurrentTyped, FollowsSame
<1>2. Requested(store) \in StoreStates
  BY RequestedTyped DEF Operate, MayRequest, Typed
<1> QED BY <1>1, <1>2, HandledFollows DEF Operate

LEMMA CloseHandled == ASSUME Typed, Close PROVE HandledSoundly
<1> DEFINE w == Closed(committed, Current)
           s == [store EXCEPT !.message = w.message]
<1>1. Follows(Current, w)
  BY CurrentTyped, ClosedFollows
<1>2. w.message \in Messages
  BY <1>1 DEF Follows, Wants
<1>3. Handled(w, s)
  BY DEF Close
<1> HIDE DEF w
<1>4. s \in StoreStates
  BY <1>2 DEF Typed, StoreStates
<1> QED BY <1>1, <1>3, <1>4, HandledFollows

\* A dialog is hidden, and what was told closed.
LEMMA AcceptHandled ==
  ASSUME Typed, NEW m \in {"approval", "retry"}, Accept(m) PROVE HandledSoundly
<1> DEFINE q == [Current EXCEPT !.dialogs = Hide(m, Current.dialogs)]
           w == Closed(committed, q)
<1>1. Current \in Wants /\ Current.dialogs \in DialogStates /\ m \in Dialogs /\ m # "alert"
  BY CurrentTyped DEF Typed, Dialogs
<1>2. Hide(m, Current.dialogs) \in DialogStates /\ Keeps(Current.dialogs, Hide(m, Current.dialogs))
  BY <1>1, Hides
<1>3. q \in Wants /\ q.dialogs = Hide(m, Current.dialogs)
  BY <1>1, <1>2, WithDialogs
<1>4. Follows(Current, q)
  BY <1>2, <1>3 DEF Follows
<1>5. Handled(w, Requested(store)) /\ MayRequest
  BY Zenon DEF Accept
<1> HIDE DEF q
<1>6. Follows(q, w)
  BY <1>3, ClosedFollows
<1>7. Follows(Current, w)
  BY <1>4, <1>6, FollowsOn
<1>8. Requested(store) \in StoreStates
  BY <1>5, RequestedTyped DEF MayRequest, Typed
<1> HIDE DEF w
<1> QED BY <1>5, <1>7, <1>8, HandledFollows

LEMMA DismissHandled ==
  ASSUME Typed, NEW m, Dismiss(m) PROVE HandledSoundly
<1> DEFINE w == Cancelled(committed, Current)
           s == [store EXCEPT !.message = w.message]
<1>1. Follows(Current, w)
  BY CurrentTyped, CancelledFollows
<1>2. w.message \in Messages
  BY <1>1 DEF Follows, Wants
<1>3. Handled(w, s) \/ (MayRequest /\ Handled(w, Requested(store)))
  BY Zenon DEF Dismiss
<1> HIDE DEF w
<1>4. s \in StoreStates
  BY <1>2 DEF Typed, StoreStates
<1>5. MayRequest => Requested(store) \in StoreStates
  BY RequestedTyped DEF MayRequest, Typed
<1> HIDE DEF s
<1> QED BY <1>1, <1>3, <1>4, <1>5, HandledFollows

LEMMA AskSuspendHandled == ASSUME Typed, AskSuspend PROVE HandledSoundly
<1> DEFINE w == [Current EXCEPT !.dialogs = Show("suspend", Current.dialogs)]
<1>1. Follows(Current, w)
  BY CurrentTyped, Names, ShownFollows
<1>2. Handled(w, store)
  BY Zenon DEF AskSuspend
<1>3. store \in StoreStates
  BY DEF Typed
<1> HIDE DEF w
<1> QED BY <1>1, <1>2, <1>3, HandledFollows

LEMMA AnswerSuspendHandled == ASSUME Typed, AnswerSuspend PROVE HandledSoundly
<1> DEFINE w == [Current EXCEPT !.dialogs = Hide("suspend", Current.dialogs)]
<1>1. Current \in Wants /\ Current.dialogs \in DialogStates
  BY CurrentTyped DEF Typed
<1>2. Hide("suspend", Current.dialogs) \in DialogStates /\ Keeps(Current.dialogs, Hide("suspend", Current.dialogs))
  BY <1>1, Names, Hides
<1>3. Follows(Current, w)
  BY <1>1, <1>2, WithDialogs DEF Follows
<1>4. Handled(w, store) \/ (MayRequest /\ Handled(w, Requested(store)))
  BY Zenon DEF AnswerSuspend
<1>5. store \in StoreStates
  BY DEF Typed
<1>6. MayRequest => Requested(store) \in StoreStates
  BY RequestedTyped DEF MayRequest, Typed
<1> HIDE DEF w
<1> QED BY <1>3, <1>4, <1>5, <1>6, HandledFollows

LEMMA ReverseManuallyHandled == ASSUME Typed, ReverseManually PROVE HandledSoundly
<1> DEFINE q == Cancelled(committed, Current)
           p == [q EXCEPT !.dialogs = Show("loading", q.dialogs)]
           w == [p EXCEPT !.c.reversalWaiting = TRUE]
<1>1. Handled(w, Requested(store)) /\ MayRequest
  <2>1. w = [q EXCEPT !.dialogs = Show("loading", @), !.c.reversalWaiting = TRUE]
    BY Zenon
  <2> QED BY <2>1, Zenon DEF ReverseManually
<1>2. Follows(Current, q)
  BY CurrentTyped, CancelledFollows
<1> HIDE DEF q
<1>3. Follows(q, p)
  BY <1>2, Names, ShownFollows DEF Follows
<1> HIDE DEF p
<1>4. Flagged(p, w)
  BY <1>3, WithFlags, Zenon DEF Follows
<1>5. Follows(p, w)
  BY <1>4, FollowsSame DEF Flagged
<1>6. Follows(Current, w)
  BY <1>2, <1>3, <1>5, FollowsOn
<1>7. Requested(store) \in StoreStates
  BY <1>1, RequestedTyped DEF MayRequest, Typed
<1> HIDE DEF w
<1> QED BY <1>1, <1>6, <1>7, HandledFollows

LEMMA ChooseDeviceHandled == ASSUME Typed, ChooseDevice PROVE HandledSoundly
<1> DEFINE w == [Current EXCEPT !.c.choosing = FALSE]
<1>1. Flagged(Current, w)
  BY CurrentTyped, WithFlags, Zenon
<1>2. Follows(Current, w)
  BY <1>1, FollowsSame DEF Flagged
<1>3. Handled(w, store) \/ (MayRequest /\ Handled(w, Requested(store)))
  BY Zenon DEF ChooseDevice
<1>4. store \in StoreStates
  BY DEF Typed
<1>5. MayRequest => Requested(store) \in StoreStates
  BY RequestedTyped DEF MayRequest, Typed
<1> HIDE DEF w
<1> QED BY <1>2, <1>3, <1>4, <1>5, HandledFollows

\* The alert leaves a buffer behind that is sound or piled.
LEMMA AlertGone ==
  ASSUME NEW d \in DialogStates
  PROVE  /\ Destroy("alert", Hide("alert", d)) \in DialogStates
         /\ Sound(d) => Sound(Destroy("alert", Hide("alert", d))) \/ Piled(Destroy("alert", Hide("alert", d)))
<1>1. Hide("alert", d) \in DialogStates
  BY Names, HideTyped
<1>2. Destroy("alert", Hide("alert", d)) \in DialogStates
  BY <1>1, Names, DestroyTyped
<1>3. ASSUME Sound(d)
      PROVE  Sound(Destroy("alert", Hide("alert", d))) \/ Piled(Destroy("alert", Hide("alert", d)))
  <2>1. Ordered(Hide("alert", d).buffer, Hide("alert", d).shown)
    BY <1>3, Names, HideSound
  <2> QED BY <1>1, <2>1, DestroyOrdered DEF Sound
<1> QED BY <1>2, <1>3

LEMMA PressButtonHandled == ASSUME Typed, PressButton PROVE HandledSoundly
<1> DEFINE e == Destroy("alert", Hide("alert", dialogs))
           w == [Current EXCEPT !.dialogs = e]
           unlocked == [store EXCEPT !.blocked = FALSE]
<1>1. e \in DialogStates /\ (Sound(dialogs) => Sound(e) \/ Piled(e))
  BY AlertGone DEF Typed
<1>2. Handled(w, unlocked) \/ (MayRequest /\ Handled(w, Requested(unlocked)))
  <2>1. Current.dialogs = dialogs
    BY CurrentTyped
  <2>2. w = [Current EXCEPT !.dialogs = Destroy("alert", Hide("alert", @))]
    BY <2>1, Zenon
  <2> QED BY <2>2, Zenon DEF PressButton
<1> HIDE DEF e
<1>3. w \in Wants /\ w.dialogs = e
  BY <1>1, CurrentTyped, WithDialogs
<1> HIDE DEF w
<1>4. unlocked \in StoreStates /\ unlocked.count = store.count
  BY DEF Typed, StoreStates
<1> HIDE DEF unlocked
<1>5. MayRequest => Requested(unlocked) \in StoreStates
  BY <1>4, RequestedTyped DEF MayRequest
<1> QED BY <1>1, <1>2, <1>3, <1>4, <1>5 DEF HandledSoundly

-----------------------------------------------------------------------------
(* The steps, by how they are rendered.                                    *)

\* After this step nothing that is shown or told has changed.
Unseen ==
  /\ Settled
  /\ store' = store /\ dialogs'.shown = dialogs.shown /\ committed' = committed /\ state' = state

\* An event handler.
LEMMA HandledStep ==
  ASSUME Typed, HandledSoundly
  PROVE  Typed' /\ StaysSound /\ (Settled' => Unseen) /\ UNCHANGED vars /\ committed' = committed
<1>1. PICK w \in Wants, s \in StoreStates :
         Handled(w, s) /\ (Sound(dialogs) => Sound(w.dialogs) \/ Piled(w.dialogs))
  BY DEF HandledSoundly
<1>2. /\ Settled /\ wanted' = w.c /\ dialogs' = w.dialogs /\ store' = s
      /\ due' = (s # store \/ w.dialogs.shown # dialogs.shown)
      /\ todo' = todo /\ seen' = seen /\ committed' = committed /\ ended' = ended
      /\ listening' = listening /\ announced' = announced /\ state' = state
  BY <1>1 DEF Handled, vars
<1>3. w.c \in Flags /\ w.dialogs \in DialogStates
  BY DEF Wants
<1>4. TypeOK'
  BY <1>2 DEF Typed, TypeOK
<1>5. due' \in BOOLEAN
  BY <1>2
<1>6. Typed'
  BY <1>2, <1>3, <1>4, <1>5 DEF Typed
<1>7. StaysSound
  BY <1>1, <1>2 DEF StaysSound
<1>8. Settled' => ~due'
  BY DEF Settled, Calm
<1>9. Settled' => Unseen
  BY <1>2, <1>8 DEF Unseen
<1> QED BY <1>2, <1>6, <1>7, <1>9 DEF vars

\* The steps after which the container has something to render.
Renders ==
  \/ Put \/ OperateInBackground
  \/ \E engine \in Engine : Succeed(engine)
  \/ \E error \in Errors \ {None} : Fail(error)
  \/ \E message \in Messages \ {None} : Notify(message)
  \/ DismissAlert

LEMMA PutStep == ASSUME Typed, Put PROVE Typed' /\ dialogs' = dialogs /\ due'
<1>1. PICK put \in Puts : todo = <<put>>
  BY DEF Put, Typed
<1>2. Head(todo) = put /\ Tail(todo) = <<>>
  BY <1>1
<1>3. Stored(put, store) \in StoreStates
  BY StoredTyped DEF Typed
<1>4. /\ store' = Stored(put, store) /\ todo' = <<>> /\ due' = TRUE
      /\ dialogs' = dialogs /\ seen' = seen /\ committed' = committed /\ wanted' = wanted /\ ended' = ended
      /\ listening' = listening /\ announced' = announced /\ state' = state
  BY <1>2 DEF Put, vars
<1>5. TypeOK'
  BY <1>4 DEF Typed, TypeOK
<1> QED BY <1>3, <1>4, <1>5 DEF Typed

LEMMA OperateInBackgroundStep ==
  ASSUME Typed, OperateInBackground PROVE Typed' /\ dialogs' = dialogs /\ due'
<1>1. Stored([put |-> "request"], store) \in StoreStates
  BY StoredRequest DEF OperateInBackground, MayRequest, Typed
<1>2. [put |-> "notified"] \in Puts
  BY DEF Puts
<1>3. /\ store' = Stored([put |-> "request"], store) /\ todo' = <<[put |-> "notified"]>> /\ due' = TRUE
      /\ dialogs' = dialogs /\ seen' = seen /\ committed' = committed /\ wanted' = wanted /\ ended' = ended
      /\ listening' = listening /\ announced' = announced /\ state' = state
  BY DEF OperateInBackground, vars
<1>4. TypeOK'
  BY <1>3 DEF Typed, TypeOK
<1> QED BY <1>1, <1>2, <1>3, <1>4 DEF Typed

\* The answer of the engine, with what is left to put after it.
LEMMA EndStep ==
  ASSUME Typed, NEW puts, End(puts), Stored(Head(puts), store) \in StoreStates,
         Tail(puts) = <<>> \/ \E put \in Puts : Tail(puts) = <<put>>
  PROVE  Typed' /\ dialogs' = dialogs /\ due'
<1>1. /\ store' = Stored(Head(puts), store) /\ todo' = Tail(puts) /\ due' = TRUE
      /\ dialogs' = dialogs /\ seen' = seen /\ committed' = committed /\ wanted' = wanted
      /\ ended' = ended + 1 /\ ended < MaxEnds
      /\ listening' = listening /\ announced' = announced /\ state' = state
  BY DEF End, vars
<1>2. TypeOK'
  BY <1>1 DEF Typed, TypeOK
<1>3. ended' \in 0 .. MaxEnds
  BY <1>1, BoundAssumption DEF Typed
<1> QED BY <1>1, <1>2, <1>3 DEF Typed

LEMMA SucceedStep ==
  ASSUME Typed, NEW engine \in Engine, Succeed(engine) PROVE Typed' /\ dialogs' = dialogs /\ due'
<1> DEFINE first == [put |-> "success", value |-> engine[2]]
           second == [put |-> "logical state", logical |-> engine[1]]
<1>1. engine[1] \in Logicals /\ engine[2] \in Values
  BY EngineTyped
<1>2. store \in StoreStates /\ store.count > 0
  BY DEF Typed, Succeed, End
<1>3. Stored(first, store) \in StoreStates
  BY <1>1, <1>2, StoredSuccess
<1>4. second \in Puts
  BY <1>1 DEF Puts
<1>5. End(<<first, second>>)
  BY DEF Succeed
<1> HIDE DEF first, second
<1>6. Head(<<first, second>>) = first /\ Tail(<<first, second>>) = <<second>>
  OBVIOUS
<1> QED BY <1>3, <1>4, <1>5, <1>6, EndStep

LEMMA FailStep ==
  ASSUME Typed, NEW error \in Errors, Fail(error) PROVE Typed' /\ dialogs' = dialogs /\ due'
<1> DEFINE first == [put |-> "failure", error |-> error]
<1>1. store \in StoreStates /\ store.count > 0
  BY DEF Typed, Fail, End
<1>2. Stored(first, store) \in StoreStates
  BY <1>1, StoredFailure
<1>3. End(<<first>>)
  BY DEF Fail
<1> HIDE DEF first
<1>4. Head(<<first>>) = first /\ Tail(<<first>>) = <<>>
  OBVIOUS
<1> QED BY <1>2, <1>3, <1>4, EndStep

LEMMA NotifyStep ==
  ASSUME Typed, NEW message \in Messages, Notify(message) PROVE Typed' /\ dialogs' = dialogs /\ due'
<1>1. /\ store' = [store EXCEPT !.message = message] /\ due' = TRUE
      /\ dialogs' = dialogs /\ todo' = todo /\ seen' = seen /\ committed' = committed /\ wanted' = wanted
      /\ ended' = ended /\ listening' = listening /\ announced' = announced /\ state' = state
  BY DEF Notify, vars
<1>2. store' \in StoreStates
  BY <1>1 DEF Typed, StoreStates
<1>3. TypeOK'
  BY <1>1 DEF Typed, TypeOK
<1> QED BY <1>1, <1>2, <1>3 DEF Typed

LEMMA DismissAlertStep == ASSUME Typed, DismissAlert PROVE Typed' /\ StaysSound /\ due'
<1>1. /\ dialogs' = Destroy("alert", Hide("alert", dialogs)) /\ due' = TRUE
      /\ store' = store /\ todo' = todo /\ seen' = seen /\ committed' = committed /\ wanted' = wanted
      /\ ended' = ended /\ listening' = listening /\ announced' = announced /\ state' = state
  BY DEF DismissAlert, vars
<1>2. dialogs' \in DialogStates /\ StaysSound
  BY <1>1, AlertGone DEF Typed, StaysSound
<1>3. TypeOK'
  BY <1>1 DEF Typed, TypeOK
<1> QED BY <1>1, <1>2, <1>3 DEF Typed

LEMMA RendersStep == ASSUME Typed, Renders PROVE Typed' /\ StaysSound /\ due'
<1>1. dialogs' = dialogs => StaysSound
  BY DEF StaysSound
<1>2. CASE Put
  BY <1>1, <1>2, PutStep
<1>3. CASE OperateInBackground
  BY <1>1, <1>3, OperateInBackgroundStep
<1>4. CASE \E engine \in Engine : Succeed(engine)
  BY <1>1, <1>4, SucceedStep
<1>5. CASE \E error \in Errors \ {None} : Fail(error)
  BY <1>1, <1>5, FailStep
<1>6. CASE \E message \in Messages \ {None} : Notify(message)
  BY <1>1, <1>6, NotifyStep
<1>7. CASE DismissAlert
  BY <1>7, DismissAlertStep
<1> QED BY <1>2, <1>3, <1>4, <1>5, <1>6, <1>7 DEF Renders

LEMMA RemoteCallsStep ==
  ASSUME Typed, TypeOK', RemoteCalls PROVE Typed' /\ StaysSound /\ due'
<1>1. /\ due' = TRUE
      /\ store' = store /\ dialogs' = dialogs /\ todo' = todo /\ seen' = seen /\ committed' = committed
      /\ wanted' = wanted /\ ended' = ended
  BY DEF RemoteCalls
<1> QED BY <1>1 DEF Typed, StaysSound

\* What an update of the container assigns, and of what it comes.
LEMMA UpdateFacts ==
  ASSUME Typed, Update
  PROVE  LET received == IF due THEN WillReceiveProps(seen, Props, Current) ELSE Current
             updated  == DidUpdate(seen, Props, received.c, received)
         IN  /\ Follows(Current, received) /\ Follows(received, updated)
             /\ committed' = received.c /\ wanted' = updated.c /\ dialogs' = updated.dialogs
             /\ store' = [store EXCEPT !.message = updated.message, !.blocked = "alert" \in dialogs.shown]
             /\ seen' = Props /\ due' = (store' # store \/ dialogs'.shown # dialogs.shown)
             /\ UNCHANGED <<todo, ended, vars>>
<1> DEFINE received == IF due THEN WillReceiveProps(seen, Props, Current) ELSE Current
           updated  == DidUpdate(seen, Props, received.c, received)
<1>1. Current \in Wants /\ Props \in PropStates /\ seen \in PropStates
  BY CurrentTyped, PropsTyped DEF Typed
<1>2. Follows(Current, received)
  BY <1>1, WillReceiveFollows, FollowsSame
<1>3. /\ committed' = received.c /\ wanted' = updated.c /\ dialogs' = updated.dialogs
      /\ store' = [store EXCEPT !.message = updated.message, !.blocked = "alert" \in dialogs.shown]
      /\ seen' = Props /\ due' = (store' # store \/ dialogs'.shown # dialogs.shown)
      /\ UNCHANGED <<todo, ended, vars>>
  BY Zenon DEF Update
<1> HIDE DEF received
<1>4. Follows(received, updated)
  BY <1>1, <1>2, DidUpdateFollows DEF Follows
<1> QED BY <1>2, <1>3, <1>4 DEF received

LEMMA UpdateStep == ASSUME Typed, Update PROVE Typed' /\ StaysSound
<1> DEFINE received == IF due THEN WillReceiveProps(seen, Props, Current) ELSE Current
           updated  == DidUpdate(seen, Props, received.c, received)
           blocked  == "alert" \in dialogs.shown
<1>1. /\ Follows(Current, received) /\ Follows(received, updated)
      /\ committed' = received.c /\ wanted' = updated.c /\ dialogs' = updated.dialogs
      /\ store' = [store EXCEPT !.message = updated.message, !.blocked = blocked]
      /\ seen' = Props /\ due' = (store' # store \/ dialogs'.shown # dialogs.shown)
      /\ todo' = todo /\ ended' = ended
      /\ listening' = listening /\ announced' = announced /\ state' = state
  BY UpdateFacts DEF vars
<1>2. blocked \in BOOLEAN
  OBVIOUS
<1> HIDE DEF received, updated, blocked
<1>3. received.c \in Flags /\ updated.c \in Flags /\ updated.dialogs \in DialogStates
      /\ updated.message \in Messages
  BY <1>1 DEF Follows, Wants
<1>4. store' \in StoreStates
  BY <1>1, <1>2, <1>3 DEF Typed, StoreStates
<1>5. TypeOK'
  BY <1>1 DEF Typed, TypeOK
<1>6. seen' \in PropStates /\ due' \in BOOLEAN
  BY <1>1, PropsTyped
<1>7. Typed'
  BY <1>1, <1>3, <1>4, <1>5, <1>6 DEF Typed
<1>8. Follows(Current, updated)
  BY <1>1, FollowsOn
<1>9. StaysSound
  BY <1>1, <1>8, CurrentTyped DEF StaysSound, Follows, Keeps
<1> QED BY <1>7, <1>9

\* An update that leaves nothing to render has the loading dialog as it should
\* be: else what it shows or hides would be rendered once more.
LEMMA UpdateSettles ==
  ASSUME Typed, Update, Sound(dialogs), Settled', ~store'.blocked
  PROVE  "loading" \in dialogs'.shown <=> Processing(Props, committed)'
<1> DEFINE received == IF due THEN WillReceiveProps(seen, Props, Current) ELSE Current
           updated  == DidUpdate(seen, Props, received.c, received)
           blocked  == "alert" \in dialogs.shown
           d        == LoadingUpdated(seen, Props, received.c, received.dialogs)
<1>1. /\ Follows(Current, received) /\ Follows(received, updated)
      /\ committed' = received.c /\ wanted' = updated.c /\ dialogs' = updated.dialogs
      /\ store' = [store EXCEPT !.message = updated.message, !.blocked = blocked]
      /\ due' = (store' # store \/ dialogs'.shown # dialogs.shown)
      /\ state' = state
  BY UpdateFacts DEF vars
<1>2. /\ Sound(received.dialogs) /\ "alert" \notin updated.dialogs.shown
           => /\ "alert" \notin d.shown
              /\ "loading" \in d.shown <=> "loading" \in updated.dialogs.shown
  BY <1>1, DidUpdateFollows, PropsTyped DEF Follows, Typed
<1>3. received.dialogs \in DialogStates
  BY <1>1 DEF Follows, Wants
<1> HIDE DEF updated, blocked
<1>4. Sound(received.dialogs)
  BY <1>1, CurrentTyped DEF Follows, Keeps
<1> HIDE DEF received
<1>5. store' = store /\ dialogs'.shown = dialogs.shown
  BY <1>1 DEF Settled, Calm
<1>6. ~blocked /\ ~store.blocked
  <2>1. store'.blocked = blocked
    BY <1>1 DEF Typed, StoreStates
  <2> QED BY <1>5, <2>1
<1>7. "alert" \notin updated.dialogs.shown
  BY <1>1, <1>5, <1>6 DEF blocked
<1>8. Props.shown = dialogs.shown /\ Props.blocked = store.blocked
  BY DEF Props
<1>9. ~Props.blocked /\ "alert" \notin d.shown
  BY <1>2, <1>4, <1>6, <1>7, <1>8
<1>10. /\ Processing(Props, received.c) /\ "loading" \notin Props.shown => "loading" \in d.shown
       /\ ~Processing(Props, received.c) /\ "loading" \in Props.shown => "loading" \notin d.shown
  BY <1>3, <1>4, <1>9, LoadingUpdatedShows
<1> HIDE DEF d
<1>11. "loading" \in d.shown <=> "loading" \in dialogs.shown
  BY <1>1, <1>2, <1>4, <1>5, <1>7
<1>12. "loading" \in dialogs.shown <=> Processing(Props, received.c)
  BY <1>8, <1>10, <1>11
<1>13. Props' = Props
  BY <1>1, <1>5 DEF Props
<1>14. Processing(Props, committed)' <=> Processing(Props, received.c)
  BY <1>1, <1>13 DEF Processing
<1> QED BY <1>5, <1>12, <1>14

\* componentDidUpdate closes what is told at the end of a cancellation alone.
LEMMA DidUpdateTells ==
  ASSUME NEW w \in Wants, NEW old \in PropStates, NEW new \in PropStates, NEW now, w.c.error,
         ~(old.value = "cancelling" /\ new.value # "cancelling")
  PROVE  DidUpdate(old, new, now, w).c.error
<1> DEFINE d == LoadingUpdated(old, new, now, w.dialogs)
           w1 == [w EXCEPT !.dialogs = d]
           w2 == DrawerUpdated(old, new, w1)
           w3 == ReversalUpdated(old, new, now, w2)
           w4 == FallbackUpdated(old, new, w3)
<1>1. DidUpdate(old, new, now, w) = w4
  BY Zenon DEF DidUpdate
<1>2. d \in DialogStates
  BY LoadingUpdatedKeeps DEF Wants
<1> HIDE DEF d
<1>3. w1 \in Wants /\ w1.c = w.c
  BY <1>2, WithDialogs
<1> HIDE DEF w1
<1>4. w2 \in Wants /\ w2.c.error = w1.c.error
  <2> DEFINE x == new.value = "drawer"
             q == [w1 EXCEPT !.c.drawerWaiting = x]
  <2>1. x \in BOOLEAN
    OBVIOUS
  <2>2. w2 \in {w1, q}
    BY Zenon DEF DrawerUpdated
  <2> HIDE DEF x
  <2>3. Flagged(w1, q)
    BY <1>3, <2>1, WithFlags, Zenon
  <2> QED BY <1>3, <2>2, <2>3 DEF Flagged
<1> HIDE DEF w2
<1>5. w3 = w2
  BY Zenon DEF ReversalUpdated
<1> HIDE DEF w3
<1>6. w4.c = w3.c
  <2> DEFINE q == [w3 EXCEPT !.dialogs = Show("alert", w3.dialogs)]
  <2>1. w4 \in {w3, q}
    BY Zenon DEF FallbackUpdated
  <2>2. q.c = w3.c
    BY <1>4, <1>5, Names, ShownFollows
  <2> HIDE DEF q
  <2> QED BY <2>1, <2>2
<1> HIDE DEF w4
<1> QED BY <1>1, <1>3, <1>4, <1>5, <1>6

\* An update takes a message away only when the operator is logged off, or at
\* the end of a cancellation.
LEMMA UpdateTells ==
  ASSUME Typed, Update, committed.notified, wanted.error, ~wanted'.error
  PROVE  LoggedOff \/ CancellingOver
<1> DEFINE received == IF due THEN WillReceiveProps(seen, Props, Current) ELSE Current
           updated  == DidUpdate(seen, Props, received.c, received)
<1>1. wanted' = updated.c /\ seen' = Props /\ received \in Wants
  BY UpdateFacts DEF Follows
<1>2. Current \in Wants /\ Current.c = wanted /\ Props \in PropStates /\ seen \in PropStates
  BY CurrentTyped, PropsTyped DEF Typed
<1>3. ~received.c.error => Removes(seen, Props)
  <2>1. CASE ~due
    <3>1. received = Current
      BY <2>1, Zenon
    <3> HIDE DEF received
    <3> QED BY <1>2, <3>1
  <2>2. CASE due
    <3>1. received = WillReceiveProps(seen, Props, Current)
      BY <2>2, Zenon
    <3> HIDE DEF received
    <3> QED BY <1>2, <3>1, WillReceiveFollows
  <2> QED BY <2>1, <2>2 DEF Typed
<1> HIDE DEF received
<1>4. Removes(seen, Props) => LoggedOff
  BY <1>1, Zenon DEF Removes, LoggedOff
<1>5. received.c.error => CancellingOver
  <2> SUFFICES ASSUME received.c.error, ~CancellingOver PROVE FALSE
    OBVIOUS
  <2>1. ~(seen.value = "cancelling" /\ Props.value # "cancelling")
    BY <1>1 DEF CancellingOver
  <2>2. updated.c.error
    BY <1>1, <1>2, <2>1, DidUpdateTells
  <2> QED BY <1>1, <2>2
<1> QED BY <1>3, <1>4, <1>5

-----------------------------------------------------------------------------

\* The disjuncts of the next-state relation.
LEMMA Kinds == ASSUME Typed, DialogNext PROVE Renders \/ Update \/ RemoteCalls \/ HandledSoundly
<1>1. CASE Put
  BY <1>1 DEF Renders
<1>2. CASE Update
  BY <1>2
<1>3. CASE Operate \/ Close \/ ReverseManually \/ ChooseDevice \/ PressButton \/ AskSuspend \/ AnswerSuspend
  BY <1>3, OperateHandled, CloseHandled, ReverseManuallyHandled, ChooseDeviceHandled, PressButtonHandled,
     AskSuspendHandled, AnswerSuspendHandled
<1>4. CASE OperateInBackground \/ DismissAlert
  BY <1>4 DEF Renders
<1>5. CASE \/ \E engine \in Engine : Succeed(engine)
           \/ \E error \in Errors \ {None} : Fail(error)
           \/ \E message \in Messages \ {None} : Notify(message)
  BY <1>5 DEF Renders
<1>6. CASE RemoteCalls
  BY <1>6
<1>7. CASE \E m \in {"approval", "retry"} : Accept(m) \/ Dismiss(m)
  BY <1>7, AcceptHandled, DismissHandled
<1> QED BY <1>1, <1>2, <1>3, <1>4, <1>5, <1>6, <1>7 DEF DialogNext, Stimulus

\* Sound, unless a pile has been recorded.
BufferSound == piled \/ Sound(dialogs)

LoadingInv == DialogTypeOK /\ BufferSound /\ LoadingShown

LEMMA LoadingInitially == DialogInit => LoadingInv
<1> SUFFICES ASSUME DialogInit PROVE LoadingInv
  OBVIOUS
<1>1. /\ store = [count |-> 0, error |-> None, engine |-> <<"logged off", None>>,
                  message |-> None, blocked |-> FALSE]
      /\ dialogs = [buffer |-> <<>>, shown |-> {}, broken |-> FALSE]
      /\ todo = <<>> /\ due = FALSE /\ seen = Props /\ wanted = committed /\ ended = 0 /\ piled = FALSE
      /\ committed = [payment |-> FALSE, error |-> FALSE, notified |-> FALSE, choosing |-> FALSE,
                      drawerWaiting |-> FALSE, reversalWaiting |-> FALSE]
      /\ state = [isProcessing |-> FALSE, lastSequenceNumber |-> -1]
  BY DEF DialogInit, Init
<1>1a. store.count = 0 /\ ended = 0 /\ state.isProcessing = FALSE
  BY <1>1
<1>2. TypeOK
  BY Initially DEF DialogInit, IInv
<1>3. store \in StoreStates
  <2>1. None \in Errors /\ None \in Messages
    BY DEF Errors, Messages
  <2>2. "logged off" \in Logicals /\ None \in Values
    BY DEF Logicals, Values
  <2>3. 0 \in 0 .. MaxOperations
    BY BoundAssumption
  <2> QED BY <1>1, <2>1, <2>2, <2>3 DEF StoreStates
<1>4. dialogs \in DialogStates /\ Sound(dialogs)
  <2>1. <<>> \in Seq(Dialogs) /\ Len(<<>>) = 0 /\ DOMAIN <<>> = {}
    BY EmptySeq
  <2>2. dialogs.buffer = <<>>
    BY <1>1
  <2>3. Ordered(<<>>, dialogs.shown) /\ ~(Len(<<>>) > 1)
    BY <2>1 DEF Ordered
  <2> QED BY <1>1, <2>1, <2>2, <2>3 DEF DialogStates, Sound, Piled
<1>5. committed \in Flags /\ wanted \in Flags
  BY <1>1 DEF Flags
<1>6. Props \in PropStates
  <2>0. (store.count > 0) \in BOOLEAN
    OBVIOUS
  <2>1. /\ store.error \in Errors /\ store.engine \in Logicals \X Values
        /\ store.message \in Messages /\ store.blocked \in BOOLEAN
    BY <1>3 DEF StoreStates
  <2>2. store.engine[1] \in Logicals /\ store.engine[2] \in Values
    BY <2>1
  <2>3. dialogs.shown \in SUBSET Dialogs /\ state.isProcessing \in BOOLEAN
    BY <1>1, <1>4 DEF DialogStates
  <2> QED BY <2>0, <2>1, <2>2, <2>3 DEF Props, PropStates
<1>7. DialogTypeOK
  <2>1. seen \in PropStates /\ todo = <<>> /\ due \in BOOLEAN /\ piled \in BOOLEAN
    BY <1>1, <1>6
  <2>2. ended \in 0 .. MaxEnds
    BY <1>1a, BoundAssumption
  <2> QED BY <1>2, <1>3, <1>4, <1>5, <2>1, <2>2 DEF DialogTypeOK, Typed
<1>8. ~Processing(Props, committed)
  <2>1. ~(store.count > 0) /\ ~state.isProcessing
    BY <1>1a
  <2>2. ~committed.error /\ ~committed.payment /\ ~committed.drawerWaiting
    BY <1>1
  <2>3. ~Props.inProgress /\ ~Props.remote
    BY <2>1 DEF Props
  <2> QED BY <2>2, <2>3, Zenon DEF Processing
<1>9. LoadingShown
  <2>1. "loading" \notin dialogs.shown
    BY <1>1
  <2> QED BY <1>8, <2>1 DEF LoadingShown
<1> QED BY <1>4, <1>7, <1>9 DEF LoadingInv, BufferSound

LEMMA LoadingInductive == LoadingInv /\ TypeOK' /\ [DialogNext]_all => LoadingInv'
<1> SUFFICES ASSUME LoadingInv, TypeOK', [DialogNext]_all PROVE LoadingInv'
  OBVIOUS
<1>1. Typed /\ piled \in BOOLEAN /\ BufferSound /\ LoadingShown
  BY DEF LoadingInv, DialogTypeOK
<1>2. CASE UNCHANGED all
  <2>1. /\ store' = store /\ dialogs' = dialogs /\ todo' = todo /\ due' = due /\ seen' = seen
        /\ committed' = committed /\ wanted' = wanted /\ ended' = ended /\ piled' = piled
        /\ listening' = listening /\ announced' = announced /\ state' = state
    BY <1>2 DEF all, own, vars
  <2>2. DialogTypeOK'
    BY <1>1, <2>1 DEF DialogTypeOK, Typed
  <2>3. BufferSound'
    BY <1>1, <2>1 DEF BufferSound
  <2>4. LoadingShown'
    BY <1>1, <2>1 DEF LoadingShown, Settled, Calm, Props, Processing
  <2> QED BY <2>2, <2>3, <2>4 DEF LoadingInv
<1>3. CASE DialogNext
  <2>1. piled' = (piled \/ Piled(dialogs'))
    BY <1>3 DEF DialogNext, Recorded
  <2>2. Renders \/ Update \/ RemoteCalls \/ HandledSoundly
    BY <1>1, <1>3, Kinds
  <2>3. Typed' /\ StaysSound
    BY <1>1, <2>2, RendersStep, UpdateStep, RemoteCallsStep, HandledStep
  <2>4. piled' \in BOOLEAN /\ (piled => piled') /\ (Piled(dialogs') => piled')
    BY <1>1, <2>1
  <2>5. BufferSound'
    BY <1>1, <2>3, <2>4 DEF BufferSound, StaysSound
  <2>6. LoadingShown'
    <3> SUFFICES ASSUME Settled', ~store'.blocked, ~piled'
                 PROVE  "loading" \in dialogs'.shown <=> Processing(Props, committed)'
      BY DEF LoadingShown
    <3>1. ~piled /\ Sound(dialogs)
      BY <1>1, <2>4 DEF BufferSound
    <3>2. ~due'
      BY DEF Settled, Calm
    <3>3. CASE Renders \/ RemoteCalls
      BY <1>1, <3>2, <3>3, RendersStep, RemoteCallsStep
    <3>4. CASE Update
      BY <1>1, <3>1, <3>4, UpdateSettles
    <3>5. CASE HandledSoundly
      <4>1. Unseen
        BY <1>1, <3>5, HandledStep
      <4>2. ~store.blocked /\ Settled
        BY <4>1 DEF Unseen
      <4>3. "loading" \in dialogs.shown <=> Processing(Props, committed)
        BY <1>1, <3>1, <4>2 DEF LoadingShown
      <4>4. Props' = Props
        BY <4>1 DEF Unseen, Props
      <4>5. Processing(Props, committed)' <=> Processing(Props, committed)
        BY <4>1, <4>4 DEF Processing, Unseen
      <4> QED BY <4>1, <4>3, <4>5 DEF Unseen
    <3> QED BY <2>2, <3>3, <3>4, <3>5
  <2> QED BY <2>3, <2>4, <2>5, <2>6 DEF LoadingInv, DialogTypeOK
<1> QED BY <1>2, <1>3

\* What the dialogs do leaves the remote calls alone, but for RemoteCalls.
LEMMA RemoteStep == DialogNext => [Next]_vars
<1> SUFFICES ASSUME DialogNext, ~UNCHANGED vars PROVE Next
  OBVIOUS
<1>1. ~Put /\ ~Update
  BY DEF Put, Update
<1>2. \A w, s : ~Handled(w, s)
  BY DEF Handled
<1>3. ~Operate /\ ~Close /\ ~ReverseManually /\ ~ChooseDevice /\ ~PressButton /\ ~AskSuspend /\ ~AnswerSuspend
  BY <1>2 DEF Operate, Close, ReverseManually, ChooseDevice, PressButton, AskSuspend, AnswerSuspend
<1>4. \A m : ~Accept(m) /\ ~Dismiss(m)
  BY <1>2 DEF Accept, Dismiss
<1>5. ~OperateInBackground /\ ~DismissAlert /\ (\A message : ~Notify(message))
  BY DEF OperateInBackground, DismissAlert, Notify
<1>6. \A puts : ~End(puts)
  BY DEF End
<1>7. (\A engine : ~Succeed(engine)) /\ (\A error : ~Fail(error))
  BY <1>6 DEF Succeed, Fail
<1>8. RemoteCalls
  BY <1>1, <1>3, <1>4, <1>5, <1>7 DEF DialogNext, Stimulus
<1> QED BY <1>8 DEF RemoteCalls, Next

\* The dialogs implement the remote calls: whatever the container is composed
\* with, the announcements reach the reducer as in RemoteCall (sagas/remoteCall.ts).
THEOREM ImplementsRemoteCalls == DialogSpec => Spec
<1>1. DialogInit => Init
  BY DEF DialogInit
<1>2. [DialogNext]_all => [Next]_vars
  <2>1. UNCHANGED all => UNCHANGED vars
    BY DEF all
  <2> QED BY <2>1, RemoteStep
<1> QED BY <1>1, <1>2, PTL DEF DialogSpec, Spec

LEMMA LoadingInvariant == DialogSpec => []LoadingInv
<1>1. DialogSpec => []TypeOK
  BY ImplementsRemoteCalls, TypeCorrect, PTL
<1> QED BY <1>1, LoadingInitially, LoadingInductive, PTL DEF DialogSpec

\* Among the dialogs, too, a call that has ended never blocks the screens
\* (reducers/remoteCall.ts).
THEOREM NotBlockedAmongDialogs == DialogSpec => []NotBlocked
BY ImplementsRemoteCalls, NeverBlockedForGood, PTL

\* The container, the saga and the middleware keep their types, whatever piles up
\* in the buffer: no show and no hide leads out of them, and no more operations
\* are under way than were requested (ModalContainer.tsx, businessState.ts).
THEOREM DialogTypeCorrect == DialogSpec => []DialogTypeOK
<1>1. LoadingInv => DialogTypeOK
  BY DEF LoadingInv
<1> QED BY <1>1, LoadingInvariant, PTL

\* Until an alert has left several requests behind, every request in the buffer
\* of the middleware is for another dialog that is shown, behind the alert if
\* there is one, and alone if there is none (modalMiddleware.ts).
THEOREM BufferSoundAlways == DialogSpec => []BufferSound
<1>1. LoadingInv => BufferSound
  BY DEF LoadingInv
<1> QED BY <1>1, LoadingInvariant, PTL

\* Once the updates have come to rest, and unless an alert blocks it or has left
\* several requests behind, the loading dialog is shown exactly while something
\* is processed or told, for any number of operations and answers
\* (componentDidUpdate of ModalContainer.tsx).
THEOREM LoadingShownAlways == DialogSpec => []LoadingShown
<1>1. LoadingInv => LoadingShown
  BY DEF LoadingInv
<1> QED BY <1>1, LoadingInvariant, PTL

\* But for an update, what is told is told until a button is pressed.
LEMMA OthersTell ==
  ASSUME Typed, DialogNext, ~Update, ~Pressed PROVE wanted'.error = wanted.error
<1>1. CASE Put \/ OperateInBackground \/ DismissAlert \/ RemoteCalls
  BY <1>1 DEF Put, OperateInBackground, DismissAlert, RemoteCalls
<1>2. ASSUME NEW puts, End(puts) PROVE wanted' = wanted
  BY <1>2 DEF End
<1>3. CASE \/ \E engine \in Engine : Succeed(engine)
           \/ \E error \in Errors \ {None} : Fail(error)
           \/ \E message \in Messages \ {None} : Notify(message)
  BY <1>2, <1>3 DEF Succeed, Fail, Notify
<1>4. Current \in Wants /\ Current.c = wanted
  BY CurrentTyped
<1>5. ASSUME NEW w, NEW s, Handled(w, s) PROVE wanted' = w.c
  BY <1>5 DEF Handled
<1>6. CASE Operate
  BY <1>4, <1>5, <1>6 DEF Operate
<1>7. CASE ChooseDevice
  <2> DEFINE w == [Current EXCEPT !.c.choosing = FALSE]
  <2>1. Flagged(Current, w)
    BY <1>4, WithFlags, Zenon
  <2>2. \E s : Handled(w, s)
    BY <1>7, Zenon DEF ChooseDevice
  <2> HIDE DEF w
  <2> QED BY <1>4, <1>5, <2>1, <2>2 DEF Flagged
<1>8. ASSUME NEW x, NEW s, Handled([Current EXCEPT !.dialogs = x], s) PROVE wanted' = wanted
  <2>1. [Current EXCEPT !.dialogs = x].c = Current.c
    BY <1>4 DEF Wants
  <2> QED BY <1>4, <1>5, <1>8, <2>1
<1>9. CASE PressButton \/ AskSuspend \/ AnswerSuspend
  <2>1. \E x, s : Handled([Current EXCEPT !.dialogs = x], s)
    BY <1>9, Zenon DEF PressButton, AskSuspend, AnswerSuspend
  <2> QED BY <1>8, <2>1
<1> QED BY <1>1, <1>3, <1>6, <1>7, <1>9 DEF DialogNext, Stimulus, Pressed

\* A message the container tells goes only when a button is pressed, when the
\* operator is logged off, or when a tender is no longer being cancelled
\* (componentWillReceiveProps and componentDidUpdate of ModalContainer.tsx).
THEOREM MessageStaysAlways == DialogSpec => MessageStays
<1> DEFINE A == committed.error /\ committed.notified /\ wanted.error /\ ~wanted'.error
                  => Pressed \/ LoggedOff \/ CancellingOver
<1>1. LoadingInv /\ [DialogNext]_all => [A]_all
  <2> SUFFICES ASSUME LoadingInv, DialogNext PROVE A
    OBVIOUS
  <2>1. Typed
    BY DEF LoadingInv, DialogTypeOK
  <2>2. CASE Update
    BY <2>1, <2>2, UpdateTells
  <2>3. CASE ~Update
    BY <2>1, <2>3, OthersTell
  <2> QED BY <2>2, <2>3
<1>2. DialogSpec => [][DialogNext]_all
  BY PTL DEF DialogSpec
<1> QED BY <1>1, <1>2, LoadingInvariant, PTL DEF MessageStays
=============================================================================
