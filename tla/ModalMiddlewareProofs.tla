----------------------- MODULE ModalMiddlewareProofs -----------------------
(***************************************************************************)
(* Theorems about ModalMiddleware, for any set of dialogs and any length   *)
(* of the buffer.                                                          *)
(*                                                                         *)
(* Three arguments, from the weakest hypothesis to the strongest.  With    *)
(* any locks, a hide is served (Underneath, Hiding).  With a lock on the   *)
(* alert alone, which is all the application asks for, the lock is kept    *)
(* (LockInv).  With no lock, a call goes through a handful of phases       *)
(* (Phase), from which follow the single dialog, the absence of exceptions,*)
(* that shows are served, and the implementation of DialogSlot.            *)
(***************************************************************************)
EXTENDS ModalMiddleware, WellFoundedInduction, SequenceTheorems, TLAPS

USE ModalsAssumption, BoundAssumption

\* The requests and frames that a step makes are requests and frames.
LEMMA BareType == ASSUME NEW m \in Modals PROVE Bare(m) \in Requests
  BY DEF Bare, Requests

LEMMA DispatchType ==
  ASSUME NEW r \in Requests, NEW t \in {"SHOW", "HIDE", "DESTROY"}
  PROVE  Dispatch(t, r) \in Frames
  BY DEF Dispatch, Frames

LEMMA FrameType ==
  ASSUME NEW f \in Frames
  PROVE  /\ Pass(f) \in Frames
         /\ f.request \in Requests
         /\ f.request.modal \in Modals
  BY DEF Pass, Frames, Requests

\* A non-empty set of natural numbers has a least element.
LEMMA LeastNat ==
  ASSUME NEW T \in SUBSET Nat, T # {}
  PROVE  \E i \in T : \A j \in T : i <= j
<1>1. IsWellFoundedOn(OpToRel(<, Nat), Nat)
  BY NatLessThanWellFounded
<1>2. PICK i \in T : \A j \in T : ~(<<j, i>> \in OpToRel(<, Nat))
  BY <1>1, WFMin
<1>3. \A j \in T : ~(j < i)
  BY <1>2 DEF OpToRel
<1> QED BY <1>3

\* indexOf answers 0 when the modal has no request, else its first position.
LEMMA IndexOfType ==
  ASSUME buffer \in Seq(Requests), NEW m
  PROVE  /\ IndexOf(m) \in 0 .. Len(buffer)
         /\ IndexOf(m) > 0 => buffer[IndexOf(m)].modal = m
         /\ IndexOf(m) = 0 <=> \A i \in DOMAIN buffer : buffer[i].modal # m
<1> DEFINE hits == {i \in DOMAIN buffer : buffer[i].modal = m}
<1>1. CASE hits = {}
  BY <1>1 DEF IndexOf
<1>2. CASE hits # {}
  <2>1. hits \in SUBSET Nat
    OBVIOUS
  <2>2. PICK i \in hits : \A j \in hits : i <= j
    BY <1>2, <2>1, LeastNat
  <2>3. i \in DOMAIN buffer /\ buffer[i].modal = m /\ \A j \in 1 .. i - 1 : buffer[j].modal # m
    BY <2>2
  <2> QED BY <2>3 DEF IndexOf
<1> QED BY <1>1, <1>2

\* Removing one element of a sequence leaves a sequence of the same type.
LEMMA WithoutType ==
  ASSUME NEW S, NEW s \in Seq(S), NEW i \in 0 .. Len(s), i = 0 => s = <<>>
  PROVE  /\ Without(s, i) \in Seq(S)
         /\ i # 0 => Len(Without(s, i)) = Len(s) - 1
<1>1. CASE i = 0
  BY <1>1, SubSeqEmpty DEF Without
<1>2. CASE i # 0
  <2>1. /\ SubSeq(s, 1, i - 1) \in Seq(S)
        /\ Len(SubSeq(s, 1, i - 1)) = i - 1
    BY <1>2, SubSeqProperties
  <2>2. /\ SubSeq(s, i + 1, Len(s)) \in Seq(S)
        /\ Len(SubSeq(s, i + 1, Len(s))) = Len(s) - i
    BY <1>2, SubSeqProperties
  <2>3. \A s1, s2 \in Seq(S) : s1 \o s2 \in Seq(S) /\ Len(s1 \o s2) = Len(s1) + Len(s2)
    BY ConcatProperties
  <2>4. /\ Without(s, i) \in Seq(S)
        /\ Len(Without(s, i)) = (i - 1) + (Len(s) - i)
    BY <2>1, <2>2, <2>3 DEF Without
  <2> QED BY <1>2, <2>4
<1> QED BY <1>1, <1>2

\* The splice of the middleware, index -1 included, leaves requests.
LEMMA SplicedType ==
  ASSUME buffer \in Seq(Requests), NEW i \in 0 .. Len(buffer)
  PROVE  /\ Spliced(i) \in Seq(Requests)
         /\ i # 0 => Len(Spliced(i)) = Len(buffer) - 1
<1>1. (IF i = 0 THEN Len(buffer) ELSE i) \in 0 .. Len(buffer)
  OBVIOUS
<1>2. (IF i = 0 THEN Len(buffer) ELSE i) = 0 => buffer = <<>>
  OBVIOUS
<1> QED BY <1>1, <1>2, WithoutType DEF Spliced

-----------------------------------------------------------------------------

\* The type invariant is inductive: every step of a caller, of the middleware
\* and of the reducer (modalMiddleware.ts:7-66) leaves requests in the buffer,
\* views in the store and actions on the call stack.
LEMMA TypeInductive == TypeOK /\ [Next]_vars => TypeOK'
<1> SUFFICES ASSUME TypeOK, [Next]_vars PROVE TypeOK'
  OBVIOUS
<1> USE DEF TypeOK
<1>1. ASSUME NEW frames \in Seq(Frames), frames # <<>>, Call(frames)
      PROVE  TypeOK'
  <2>1. stack' \in Seq(Frames) /\ asked' \in Frames
    BY <1>1 DEF Call
  <2> QED BY <1>1, <2>1 DEF Call
<1>2. ASSUME NEW r \in Requests, ShowModal(r)
      PROVE  TypeOK'
  <2>1. <<Dispatch("SHOW", r)>> \in Seq(Frames)
    BY DispatchType
  <2> QED BY <1>1, <1>2, <2>1 DEF ShowModal
<1>3. ASSUME NEW m \in Modals, HideModal(m) \/ DestroyModal(m)
      PROVE  TypeOK'
  <2>1. /\ <<Dispatch("HIDE", Bare(m))>> \in Seq(Frames)
        /\ <<Dispatch("DESTROY", Bare(m))>> \in Seq(Frames)
    BY BareType, DispatchType
  <2> QED BY <1>1, <1>3, <2>1 DEF HideModal, DestroyModal
<1>4. CASE DismissAlert
  <2>1. <<Dispatch("HIDE", Bare(Alert)), Dispatch("DESTROY", Bare(Alert))>> \in Seq(Frames)
    BY BareType, DispatchType
  <2> QED BY <1>1, <1>4, <2>1 DEF DismissAlert
<1>5. ASSUME NEW frames \in Seq(Frames), stack # <<>>, Return(frames)
      PROVE  stack' \in Seq(Frames)
  <2>1. Tail(stack) \in Seq(Frames)
    BY <1>5
  <2> QED BY <1>5, <2>1, ConcatProperties DEF Return
<1>6. ASSUME stack # <<>>, Ignore
      PROVE  TypeOK'
  <2>1. stack' \in Seq(Frames)
    <3>1. <<>> \in Seq(Frames)
      OBVIOUS
    <3> QED BY <1>5, <1>6, <3>1 DEF Ignore
  <2> QED BY <1>6, <2>1 DEF Ignore
<1>7. stack # <<>> => stack[1] \in Frames
  OBVIOUS
<1>8. CASE HandleShow
  <2> DEFINE r == stack[1].request
             b == Append(buffer, r)
  <2>1. stack # <<>> /\ r \in Requests /\ r.modal \in Modals /\ b \in Seq(Requests)
    BY <1>7, <1>8, FrameType DEF HandleShow, Running
  <2>2. CASE Displayed(r.modal)
    BY <1>6, <1>8, <2>1, <2>2 DEF HandleShow
  <2>3. CASE ~Displayed(r.modal)
    <3>1. b[1] \in Requests
      BY <2>1
    <3>2. /\ <<Dispatch("HIDE", Bare(b[1].modal))>> \in Seq(Frames)
          /\ <<Pass(stack[1])>> \in Seq(Frames)
      BY <1>7, <2>1, <3>1, FrameType, BareType, DispatchType DEF Requests
    <3>3. /\ buffer' = b
          /\ \/ Return(<<Dispatch("HIDE", Bare(b[1].modal))>>)
             \/ Return(<<Pass(stack[1])>>)
          /\ UNCHANGED <<view, thrown, asked>>
      BY <1>8, <2>3 DEF HandleShow
    <3> QED BY <1>5, <2>1, <3>2, <3>3
  <2> QED BY <2>2, <2>3
<1>9. CASE HandleHide
  <2> DEFINE m == stack[1].request.modal
             i == IndexOf(m)
             rest == Spliced(i)
  <2>1. stack # <<>> /\ m \in Modals
    BY <1>7, <1>9, FrameType DEF HandleHide, Running
  <2>2. i \in 0 .. Len(buffer)
    BY IndexOfType
  <2>3. rest \in Seq(Requests)
    BY <2>2, SplicedType
  <2>4. <<Pass(stack[1])>> \in Seq(Frames)
    BY <1>7, <2>1, FrameType
  <2>5. CASE ~Displayed(m) /\ Ignore
    BY <1>6, <2>1, <2>5
  <2>6. ASSUME buffer' = rest, Return(<<Pass(stack[1])>>), UNCHANGED <<view, thrown, asked>>
        PROVE  TypeOK'
    BY <1>5, <2>1, <2>3, <2>4, <2>6
  <2>7. ASSUME rest # <<>>, Len(rest) >= i, i > 0, buffer' = Without(rest, i),
               Return(IF Displayed(rest[i].modal) THEN <<Pass(stack[1])>>
                      ELSE <<Dispatch("SHOW", rest[i]), Pass(stack[1])>>),
               UNCHANGED <<view, thrown, asked>>
        PROVE  TypeOK'
    <3>1. rest[i] \in Requests
      BY <2>2, <2>3, <2>7
    <3>2. <<Dispatch("SHOW", rest[i]), Pass(stack[1])>> \in Seq(Frames)
      BY <1>7, <2>1, <3>1, FrameType, DispatchType
    <3>3. Without(rest, i) \in Seq(Requests)
      BY <2>2, <2>3, <2>7, WithoutType
    <3> QED BY <1>5, <2>1, <2>4, <2>7, <3>2, <3>3
  <2>8. ASSUME buffer' = rest, stack' = <<>>, thrown' = TRUE,
               UNCHANGED <<view, asked>>
        PROVE  TypeOK'
    <3>1. <<>> \in Seq(Frames)
      OBVIOUS
    <3>2. thrown' \in BOOLEAN
      BY <2>8
    <3>3. view' = view /\ asked' = asked
      BY <2>8
    <3> QED BY <2>3, <2>8, <3>1, <3>2, <3>3
  <2> QED BY <1>9, <2>5, <2>6, <2>7, <2>8 DEF HandleHide
<1>10. CASE HandleDestroy
  <2>1. stack # <<>> /\ <<Pass(stack[1])>> \in Seq(Frames)
    BY <1>7, <1>10, FrameType DEF HandleDestroy, Running
  <2>2. Ignore \/ (Return(<<Pass(stack[1])>>) /\ UNCHANGED <<buffer, view, thrown, asked>>)
    BY <1>10 DEF HandleDestroy
  <2>3. ASSUME Return(<<Pass(stack[1])>>), UNCHANGED <<buffer, view, thrown, asked>>
        PROVE  TypeOK'
    <3>1. stack' \in Seq(Frames)
      BY <1>5, <2>1, <2>3
    <3>2. buffer' = buffer /\ view' = view /\ thrown' = thrown /\ asked' = asked
      BY <2>3
    <3> QED BY <3>1, <3>2
  <2> QED BY <1>6, <2>1, <2>2, <2>3
<1>11. CASE Reduce
  <2> DEFINE f == stack[1]
             shows == CASE f.type = "SHOW" /\ f.request.cancellable -> "shown"
                        [] f.type = "SHOW" /\ ~f.request.cancellable -> "locked"
                        [] f.type = "HIDE" -> "hidden"
                        [] f.type = "DESTROY" -> "absent"
  <2>1. f \in Frames /\ stack # <<>>
    BY <1>7, <1>11 DEF Reduce
  <2>2. shows \in Views
    BY <2>1 DEF Frames, Requests, Views
  <2>3. view' = [view EXCEPT ![f.request.modal] = shows]
    BY <1>11 DEF Reduce
  <2>4. view' \in [Modals -> Views]
    BY <2>2, <2>3
  <2>5. stack' \in Seq(Frames)
    BY <2>1, <1>11 DEF Reduce
  <2> QED BY <1>11, <2>4, <2>5 DEF Reduce
<1>12. CASE UNCHANGED vars
  BY <1>12 DEF vars
<1> QED
  BY <1>2, <1>3, <1>4, <1>8, <1>9, <1>10, <1>11, <1>12 DEF Next, Environment, Middleware

\* Whatever the dialogs, and the locks, the state keeps its types.
THEOREM TypeCorrect == Spec => []TypeOK
<1>1. Init => TypeOK
  <2>1. Dispatch("DESTROY", Bare(Alert)) \in Frames
    BY BareType, DispatchType
  <2>2. Init => view \in [Modals -> Views]
    BY DEF Init, Views
  <2>3. Init => buffer \in Seq(Requests) /\ stack \in Seq(Frames)
    BY DEF Init
  <2> QED BY <2>1, <2>2, <2>3 DEF Init, TypeOK
<1> QED BY <1>1, TypeInductive, PTL DEF Spec

-----------------------------------------------------------------------------
(* What a step does to the call stack and to the buffer, element by        *)
(* element.                                                                *)

\* The frame on top returns; it is replaced by f; by g, above which f runs.
Popped == /\ Len(stack') = Len(stack) - 1
          /\ \A i \in 1 .. Len(stack') : stack'[i] = stack[i + 1]

Swapped(f) == /\ Len(stack') = Len(stack)
              /\ stack'[1] = f
              /\ \A i \in 2 .. Len(stack') : stack'[i] = stack[i]

Pushed(f, g) == /\ Len(stack') = Len(stack) + 1
                /\ stack'[1] = f /\ stack'[2] = g
                /\ \A i \in 3 .. Len(stack') : stack'[i] = stack[i - 1]

LEMMA ReturnShape ==
  ASSUME stack \in Seq(Frames), stack # <<>>,
         NEW frames \in Seq(Frames), Return(frames)
  PROVE  /\ Len(stack') = Len(frames) + Len(stack) - 1
         /\ \A i \in 1 .. Len(frames) : stack'[i] = frames[i]
         /\ \A i \in Len(frames) + 1 .. Len(stack') : stack'[i] = stack[i - Len(frames) + 1]
<1>1. /\ Tail(stack) \in Seq(Frames)
      /\ Len(Tail(stack)) = Len(stack) - 1
      /\ \A i \in 1 .. Len(stack) - 1 : Tail(stack)[i] = stack[i + 1]
  OBVIOUS
<1>2. /\ Len(stack') = Len(frames) + Len(Tail(stack))
      /\ \A i \in 1 .. Len(frames) + Len(Tail(stack)) :
           stack'[i] = IF i <= Len(frames) THEN frames[i] ELSE Tail(stack)[i - Len(frames)]
  BY <1>1, ConcatProperties DEF Return
<1>3. Len(frames) \in Nat /\ Len(stack) \in Nat /\ Len(stack) > 0
  OBVIOUS
<1>4. ASSUME NEW i \in Len(frames) + 1 .. Len(stack')
      PROVE  stack'[i] = stack[i - Len(frames) + 1]
  <2>1. i - Len(frames) \in 1 .. Len(stack) - 1 /\ ~(i <= Len(frames))
    BY <1>1, <1>2, <1>3, <1>4
  <2>2. stack'[i] = Tail(stack)[i - Len(frames)]
    BY <1>1, <1>2, <1>3, <1>4, <2>1
  <2> QED BY <1>1, <2>1, <2>2
<1> QED BY <1>1, <1>2, <1>3, <1>4

LEMMA ReturnNone ==
  ASSUME stack \in Seq(Frames), stack # <<>>, Return(<<>>)
  PROVE  Popped
<1>1. <<>> \in Seq(Frames) /\ Len(<<>>) = 0
  OBVIOUS
<1>2. Len(stack) \in Nat
  OBVIOUS
<1>3. /\ Len(stack') = Len(<<>>) + Len(stack) - 1
      /\ \A i \in 1 .. Len(<<>>) : stack'[i] = <<>>[i]
      /\ \A i \in Len(<<>>) + 1 .. Len(stack') : stack'[i] = stack[i - Len(<<>>) + 1]
  BY <1>1, ReturnShape
<1> QED BY <1>1, <1>2, <1>3 DEF Popped

LEMMA ReturnOne ==
  ASSUME stack \in Seq(Frames), stack # <<>>,
         NEW f \in Frames, Return(<<f>>)
  PROVE  Swapped(f)
<1>1. <<f>> \in Seq(Frames) /\ Len(<<f>>) = 1 /\ <<f>>[1] = f
  OBVIOUS
<1>2. Len(stack) \in Nat
  OBVIOUS
<1>3. /\ Len(stack') = Len(<<f>>) + Len(stack) - 1
      /\ \A i \in 1 .. Len(<<f>>) : stack'[i] = <<f>>[i]
      /\ \A i \in Len(<<f>>) + 1 .. Len(stack') : stack'[i] = stack[i - Len(<<f>>) + 1]
  BY <1>1, ReturnShape
<1> QED BY <1>1, <1>2, <1>3 DEF Swapped

LEMMA ReturnTwo ==
  ASSUME stack \in Seq(Frames), stack # <<>>,
         NEW f \in Frames, NEW g \in Frames, Return(<<f, g>>)
  PROVE  Pushed(f, g)
<1>1. <<f, g>> \in Seq(Frames) /\ Len(<<f, g>>) = 2 /\ <<f, g>>[1] = f /\ <<f, g>>[2] = g
  OBVIOUS
<1>2. Len(stack) \in Nat
  OBVIOUS
<1>3. /\ Len(stack') = Len(<<f, g>>) + Len(stack) - 1
      /\ \A i \in 1 .. Len(<<f, g>>) : stack'[i] = <<f, g>>[i]
      /\ \A i \in Len(<<f, g>>) + 1 .. Len(stack') : stack'[i] = stack[i - Len(<<f, g>>) + 1]
  BY <1>1, ReturnShape
<1> QED BY <1>1, <1>2, <1>3 DEF Pushed

\* A removal moves what follows it one place down.
LEMMA WithoutElements ==
  ASSUME NEW S, NEW s \in Seq(S), NEW i \in 1 .. Len(s)
  PROVE  /\ Len(Without(s, i)) = Len(s) - 1
         /\ \A j \in 1 .. Len(s) - 1 :
              Without(s, i)[j] = IF j < i THEN s[j] ELSE s[j + 1]
<1> DEFINE before == SubSeq(s, 1, i - 1)
           after == SubSeq(s, i + 1, Len(s))
<1>1. /\ before \in Seq(S)
      /\ Len(before) = i - 1
      /\ \A j \in 1 .. i - 1 : before[j] = s[j]
  BY SubSeqProperties
<1>2. /\ after \in Seq(S)
      /\ Len(after) = Len(s) - i
      /\ \A j \in 1 .. Len(s) - i : after[j] = s[j + i]
  BY SubSeqProperties
<1>0. Without(s, i) = before \o after
  BY DEF Without
<1> HIDE DEF before, after
<1>3. /\ Len(before \o after) = Len(before) + Len(after)
      /\ \A j \in 1 .. Len(before) + Len(after) :
           (before \o after)[j] = IF j <= Len(before) THEN before[j] ELSE after[j - Len(before)]
  BY <1>1, <1>2, ConcatProperties
<1>4. i \in Nat /\ Len(s) \in Nat
  OBVIOUS
<1>5. Len(Without(s, i)) = Len(s) - 1 /\ Len(before) + Len(after) = Len(s) - 1
  BY <1>0, <1>1, <1>2, <1>3, <1>4
<1>6. ASSUME NEW j \in 1 .. Len(s) - 1, j < i
      PROVE  Without(s, i)[j] = s[j]
  BY <1>0, <1>1, <1>3, <1>4, <1>5, <1>6
<1>7. ASSUME NEW j \in 1 .. Len(s) - 1, ~(j < i)
      PROVE  Without(s, i)[j] = s[j + 1]
  <2>1. j - (i - 1) \in 1 .. Len(s) - i /\ (j - (i - 1)) + i = j + 1 /\ ~(j <= i - 1)
    BY <1>4, <1>7
  <2>2. Without(s, i)[j] = after[j - (i - 1)]
    BY <1>0, <1>1, <1>3, <1>4, <1>5, <2>1
  <2> QED BY <1>2, <2>1, <2>2
<1> QED BY <1>5, <1>6, <1>7
-----------------------------------------------------------------------------
(* What each step of the middleware does, in those terms.                  *)

\* A caller's frames are all that the call stack holds.
Called == /\ stack = <<>> /\ Len(stack') >= 1
          /\ stack'[1].at = "dispatch" /\ stack'[1] = asked'
          /\ Len(stack') > 1 => /\ Len(stack') = 2
                                /\ asked' = Dispatch("HIDE", Bare(Alert))
                                /\ stack'[2] = Dispatch("DESTROY", Bare(Alert))
          /\ asked'.type # "SHOW" => \E m \in Modals : asked' = Dispatch(asked'.type, Bare(m))
          /\ UNCHANGED <<buffer, view, thrown>>

LEMMA EnvironmentStep == ASSUME TypeOK, Environment PROVE Called
<1>1. ASSUME NEW frames \in Seq(Frames), Call(frames)
      PROVE  stack = <<>> /\ stack' = frames /\ asked' = frames[1] /\ UNCHANGED <<buffer, view, thrown>>
  BY <1>1 DEF Call
<1>2. ASSUME NEW t \in {"SHOW", "HIDE", "DESTROY"}, NEW r \in Requests, Call(<<Dispatch(t, r)>>),
             t = "SHOW" \/ \E m \in Modals : r = Bare(m)
      PROVE  Called
  <2>1. <<Dispatch(t, r)>> \in Seq(Frames)
    BY DispatchType
  <2>2. stack = <<>> /\ stack' = <<Dispatch(t, r)>> /\ asked' = Dispatch(t, r)
        /\ UNCHANGED <<buffer, view, thrown>>
    BY <1>1, <1>2, <2>1
  <2>3. Dispatch(t, r).at = "dispatch" /\ Dispatch(t, r).type = t
    BY DEF Dispatch
  <2> QED BY <1>2, <2>2, <2>3 DEF Called
<1>3. CASE DismissAlert
  <2>1. <<Dispatch("HIDE", Bare(Alert)), Dispatch("DESTROY", Bare(Alert))>> \in Seq(Frames)
    BY BareType, DispatchType
  <2>2. /\ stack = <<>>
        /\ stack' = <<Dispatch("HIDE", Bare(Alert)), Dispatch("DESTROY", Bare(Alert))>>
        /\ asked' = Dispatch("HIDE", Bare(Alert))
        /\ UNCHANGED <<buffer, view, thrown>>
    BY <1>3, <1>1, <2>1 DEF DismissAlert
  <2>3. asked'.at = "dispatch" /\ asked'.type = "HIDE"
    BY <2>2 DEF Dispatch
  <2> QED BY <2>2, <2>3 DEF Called
<1>4. ASSUME NEW r \in Requests, ShowModal(r) PROVE Called
  BY <1>2, <1>4 DEF ShowModal
<1>5. ASSUME NEW m \in Modals, HideModal(m) \/ DestroyModal(m) PROVE Called
  BY <1>2, <1>5, BareType DEF HideModal, DestroyModal
<1> QED BY <1>3, <1>4, <1>5 DEF Environment

\* A show is dropped, or makes the oldest request yield, or goes through.
ShowDropped(r) == Displayed(r.modal) /\ Popped /\ buffer' = buffer

ShowYields(r) == /\ ~Displayed(r.modal)
                 /\ buffer' = Append(buffer, r)
                 /\ buffer # <<>> /\ buffer[1].cancellable
                 /\ Swapped(Dispatch("HIDE", Bare(buffer[1].modal)))

ShowPasses(r) == /\ ~Displayed(r.modal)
                 /\ buffer' = Append(buffer, r)
                 /\ buffer = <<>> \/ ~buffer[1].cancellable
                 /\ Swapped(Pass(stack[1]))

LEMMA ShowStep ==
  ASSUME TypeOK, HandleShow
  PROVE  /\ stack # <<>> /\ stack[1].at = "dispatch" /\ stack[1].type = "SHOW"
         /\ stack[1].request \in Requests
         /\ \/ ShowDropped(stack[1].request)
            \/ ShowYields(stack[1].request)
            \/ ShowPasses(stack[1].request)
         /\ UNCHANGED <<view, thrown, asked>>
<1> DEFINE r == stack[1].request
           b == Append(buffer, r)
<1>1. /\ stack # <<>> /\ stack \in Seq(Frames) /\ stack[1] \in Frames
      /\ stack[1].at = "dispatch" /\ stack[1].type = "SHOW"
      /\ r \in Requests /\ r.modal \in Modals
      /\ buffer \in Seq(Requests)
  BY FrameType DEF HandleShow, Running, TypeOK
<1>2. CASE Displayed(r.modal)
  BY <1>1, <1>2, ReturnNone DEF HandleShow, Ignore, ShowDropped
<1>3. CASE ~Displayed(r.modal)
  <2>1. Len(b) = Len(buffer) + 1 /\ b[1] = IF buffer = <<>> THEN r ELSE buffer[1]
    BY <1>1
  <2>2. buffer # <<>> => Len(buffer) > 0 /\ buffer[1] \in Requests
    BY <1>1
  <2>3. CASE buffer # <<>> /\ buffer[1].cancellable
    <3>1. /\ buffer' = b /\ Return(<<Dispatch("HIDE", Bare(buffer[1].modal))>>)
          /\ UNCHANGED <<view, thrown, asked>>
      BY <1>1, <1>3, <2>1, <2>2, <2>3 DEF HandleShow
    <3>2. Dispatch("HIDE", Bare(buffer[1].modal)) \in Frames
      BY <2>2, <2>3, BareType, DispatchType DEF Requests
    <3> QED BY <1>1, <1>3, <2>3, <3>1, <3>2, ReturnOne DEF ShowYields
  <2>4. CASE buffer = <<>> \/ ~buffer[1].cancellable
    <3>1. ~(Len(b) > 1 /\ b[1].cancellable)
      BY <1>1, <2>1, <2>4
    <3>2. /\ buffer' = b /\ Return(<<Pass(stack[1])>>)
          /\ UNCHANGED <<view, thrown, asked>>
      BY <1>1, <1>3, <3>1 DEF HandleShow
    <3> QED BY <1>1, <1>3, <2>4, <3>2, FrameType, ReturnOne DEF ShowPasses
  <2> QED BY <2>3, <2>4
<1> QED BY <1>2, <1>3

\* A hide is dropped, or goes through; it may have the next request shown
\* first; on a buffer that does not know the dialog it may throw.
HideDropped(m) == ~Displayed(m) /\ Popped /\ UNCHANGED <<buffer, thrown>>

HideAlone(m, i) == /\ Displayed(m)
                   /\ buffer' = Spliced(i)
                   /\ Spliced(i) = <<>> \/ Len(Spliced(i)) < i
                   /\ Swapped(Pass(stack[1]))
                   /\ UNCHANGED thrown

HideNext(m, i) == /\ Displayed(m)
                  /\ i > 0 /\ Spliced(i) # <<>> /\ Len(Spliced(i)) >= i
                  /\ buffer' = Without(Spliced(i), i)
                  /\ LET next == Spliced(i)[i]
                     IN  /\ next \in Requests
                         /\ \/ Displayed(next.modal) /\ Swapped(Pass(stack[1]))
                            \/ /\ ~Displayed(next.modal)
                               /\ Pushed(Dispatch("SHOW", next), Pass(stack[1]))
                  /\ UNCHANGED thrown

HideThrows(m, i) == /\ Displayed(m)
                    /\ i = 0 /\ Spliced(0) # <<>>
                    /\ buffer' = Spliced(0)
                    /\ stack' = <<>>
                    /\ thrown'

LEMMA HideStep ==
  ASSUME TypeOK, HandleHide
  PROVE  LET m == stack[1].request.modal
             i == IndexOf(m)
         IN  /\ stack # <<>> /\ stack[1].at = "dispatch" /\ stack[1].type = "HIDE"
             /\ m \in Modals
             /\ HideDropped(m) \/ HideAlone(m, i) \/ HideNext(m, i) \/ HideThrows(m, i)
             /\ UNCHANGED <<view, asked>>
<1> DEFINE m == stack[1].request.modal
           i == IndexOf(m)
           rest == Spliced(i)
<1>1. /\ stack # <<>> /\ stack \in Seq(Frames) /\ stack[1] \in Frames
      /\ stack[1].at = "dispatch" /\ stack[1].type = "HIDE"
      /\ stack[1].request \in Requests /\ m \in Modals
      /\ buffer \in Seq(Requests)
  BY FrameType DEF HandleHide, Running, TypeOK
<1>2. i \in 0 .. Len(buffer) /\ rest \in Seq(Requests)
  BY <1>1, IndexOfType, SplicedType
<1>3. Pass(stack[1]) \in Frames
  BY <1>1, FrameType
<1>4. CASE ~Displayed(m) /\ Ignore
  BY <1>1, <1>4, ReturnNone DEF Ignore, HideDropped
<1>5. ASSUME Displayed(m), ~(rest # <<>> /\ Len(rest) >= i), buffer' = rest,
             Return(<<Pass(stack[1])>>), UNCHANGED <<view, thrown, asked>>
      PROVE  HideAlone(m, i)
  <2>1. Len(rest) \in Nat /\ i \in Nat
    BY <1>2
  <2>2. Swapped(Pass(stack[1]))
    BY <1>1, <1>3, <1>5, ReturnOne
  <2> HIDE DEF rest, i, m
  <2>3. rest = <<>> \/ Len(rest) < i
    BY <1>5, <2>1
  <2> QED BY <1>5, <2>2, <2>3 DEF HideAlone, rest
<1>6. ASSUME Displayed(m), rest # <<>>, Len(rest) >= i, i > 0, buffer' = Without(rest, i),
             Return(IF Displayed(rest[i].modal) THEN <<Pass(stack[1])>>
                    ELSE <<Dispatch("SHOW", rest[i]), Pass(stack[1])>>),
             UNCHANGED <<view, thrown, asked>>
      PROVE  HideNext(m, i)
  <2>1. rest[i] \in Requests
    BY <1>2, <1>6
  <2>2. Dispatch("SHOW", rest[i]) \in Frames
    BY <2>1, DispatchType
  <2>3. CASE Displayed(rest[i].modal)
    <3>1. Swapped(Pass(stack[1]))
      BY <1>1, <1>3, <1>6, <2>3, ReturnOne
    <3> QED BY <1>6, <2>1, <2>3, <3>1 DEF HideNext
  <2>4. CASE ~Displayed(rest[i].modal)
    <3>1. Return(<<Dispatch("SHOW", rest[i]), Pass(stack[1])>>)
      BY <1>6, <2>4
    <3>2. Pushed(Dispatch("SHOW", rest[i]), Pass(stack[1]))
      BY <1>1, <1>3, <2>2, <3>1, ReturnTwo
    <3> QED BY <1>6, <2>1, <2>4, <3>2 DEF HideNext
  <2> QED BY <2>3, <2>4
<1>7. ASSUME Displayed(m), rest # <<>>, i = 0, buffer' = rest,
             stack' = <<>>, thrown' = TRUE
      PROVE  HideThrows(m, i)
  BY <1>7 DEF HideThrows
<1>8. UNCHANGED <<view, asked>>
  BY DEF HandleHide, Ignore
<1>9. HideDropped(m) \/ HideAlone(m, i) \/ HideNext(m, i) \/ HideThrows(m, i)
  BY <1>4, <1>5, <1>6, <1>7 DEF HandleHide
<1> QED BY <1>1, <1>8, <1>9

LEMMA DestroyStep ==
  ASSUME TypeOK, HandleDestroy
  PROVE  LET m == stack[1].request.modal
         IN  /\ stack # <<>> /\ stack[1].at = "dispatch" /\ stack[1].type = "DESTROY"
             /\ m \in Modals
             /\ \/ (view[m] = "absent" \/ IndexOf(m) > 0) /\ Popped
                \/ view[m] # "absent" /\ IndexOf(m) = 0 /\ Swapped(Pass(stack[1]))
             /\ UNCHANGED <<buffer, view, thrown, asked>>
<1> DEFINE m == stack[1].request.modal
<1>1. /\ stack # <<>> /\ stack \in Seq(Frames) /\ stack[1] \in Frames
      /\ stack[1].at = "dispatch" /\ stack[1].type = "DESTROY"
      /\ stack[1].request \in Requests /\ m \in Modals
      /\ buffer \in Seq(Requests)
  BY FrameType DEF HandleDestroy, Running, TypeOK
<1>2. IndexOf(m) \in Nat
  BY <1>1, IndexOfType
<1>3. CASE view[m] = "absent" \/ IndexOf(m) > 0
  BY <1>1, <1>3, ReturnNone DEF HandleDestroy, Ignore
<1>4. CASE ~(view[m] = "absent" \/ IndexOf(m) > 0)
  <2>1. Return(<<Pass(stack[1])>>) /\ UNCHANGED <<buffer, view, thrown, asked>>
    BY <1>4 DEF HandleDestroy
  <2> QED BY <1>1, <1>2, <1>4, <2>1, FrameType, ReturnOne
<1> QED BY <1>3, <1>4

LEMMA ReduceStep ==
  ASSUME TypeOK, Reduce
  PROVE  LET f == stack[1]
             m == f.request.modal
         IN  /\ stack # <<>> /\ f.at = "next" /\ f \in Frames
             /\ m \in Modals /\ f.request \in Requests
             /\ f.type \in {"SHOW", "HIDE", "DESTROY"}
             /\ f.type = "SHOW" => view'[m] = IF f.request.cancellable THEN "shown" ELSE "locked"
             /\ f.type = "HIDE" => view'[m] = "hidden"
             /\ f.type = "DESTROY" => view'[m] = "absent"
             /\ \A x \in Modals : x # m => view'[x] = view[x]
             /\ Popped
             /\ UNCHANGED <<buffer, thrown, asked>>
<1> DEFINE f == stack[1]
           shows == CASE f.type = "SHOW" /\ f.request.cancellable -> "shown"
                      [] f.type = "SHOW" /\ ~f.request.cancellable -> "locked"
                      [] f.type = "HIDE" -> "hidden"
                      [] f.type = "DESTROY" -> "absent"
<1>0. /\ stack # <<>> /\ stack \in Seq(Frames) /\ f \in Frames /\ f.at = "next"
  BY DEF Reduce, TypeOK
<1>1. /\ stack # <<>> /\ stack \in Seq(Frames) /\ f \in Frames /\ f.at = "next"
      /\ f.request \in Requests /\ f.request.modal \in Modals
      /\ f.type \in {"SHOW", "HIDE", "DESTROY"}
  <2> HIDE DEF f
  <2>1. f.type \in {"SHOW", "HIDE", "DESTROY"}
    BY <1>0 DEF Frames
  <2> QED BY <1>0, <2>1, FrameType
<1>2. /\ view' = [view EXCEPT ![f.request.modal] = shows]
      /\ stack' = Tail(stack)
      /\ UNCHANGED <<buffer, thrown, asked>>
  BY DEF Reduce
<1>3. /\ view'[f.request.modal] = shows
      /\ \A x \in Modals : x # f.request.modal => view'[x] = view[x]
  <2> HIDE DEF shows
  <2> QED BY <1>1, <1>2 DEF TypeOK
<1>4. /\ f.type = "SHOW" => shows = IF f.request.cancellable THEN "shown" ELSE "locked"
      /\ f.type = "HIDE" => shows = "hidden"
      /\ f.type = "DESTROY" => shows = "absent"
  <2>1. CASE f.type = "SHOW"
    BY <2>1
  <2>2. CASE f.type = "HIDE"
    BY <2>2
  <2>3. CASE f.type = "DESTROY"
    BY <2>3
  <2> QED BY <1>1, <2>1, <2>2, <2>3
<1>5. Popped
  BY <1>1, <1>2 DEF Popped
<1> HIDE DEF shows
<1> QED BY <1>1, <1>2, <1>3, <1>4, <1>5

\* What remains of the buffer after a hide was in it before, and its first
\* request is still the first, unless that was the one spliced out.
LEMMA HideRemains ==
  ASSUME TypeOK, NEW m \in Modals, NEW i, i = IndexOf(m),
         \/ buffer' = Spliced(i)
         \/ i > 0 /\ Len(Spliced(i)) >= i /\ buffer' = Without(Spliced(i), i)
  PROVE  /\ \A j \in 1 .. Len(buffer') : \E k \in 1 .. Len(buffer) : buffer'[j] = buffer[k]
         /\ i # 1 /\ Len(buffer') > 0 => buffer'[1] = buffer[1]
         /\ i > 1 => Len(buffer') > 0
<1>1. buffer \in Seq(Requests) /\ i \in 0 .. Len(buffer) /\ Len(buffer) \in Nat
  BY IndexOfType DEF TypeOK
<1>2. CASE buffer = <<>>
  <2>1. i = 0
    BY <1>1, <1>2
  <2>2. Spliced(0) = <<>>
    BY <1>2, SubSeqEmpty DEF Spliced, Without
  <2> QED BY <2>1, <2>2
<1>3. CASE buffer # <<>>
  <2> DEFINE k == IF i = 0 THEN Len(buffer) ELSE i
             rest == Spliced(i)
  <2>1. k \in 1 .. Len(buffer) /\ rest = Without(buffer, k)
    BY <1>1, <1>3 DEF Spliced
  <2>2. /\ Len(rest) = Len(buffer) - 1
        /\ \A j \in 1 .. Len(buffer) - 1 : rest[j] = IF j < k THEN buffer[j] ELSE buffer[j + 1]
    <3> HIDE DEF k, rest
    <3>1. /\ Len(Without(buffer, k)) = Len(buffer) - 1
          /\ \A j \in 1 .. Len(buffer) - 1 :
               Without(buffer, k)[j] = IF j < k THEN buffer[j] ELSE buffer[j + 1]
      BY <1>1, <2>1, WithoutElements
    <3> QED BY <2>1, <3>1
  <2>3. rest \in Seq(Requests)
    BY <1>1, SplicedType
  <2>4. CASE buffer' = rest
    BY <1>1, <1>3, <2>1, <2>2, <2>4
  <2>5. CASE i > 0 /\ Len(rest) >= i /\ buffer' = Without(rest, i)
    <3>1. /\ Len(buffer') = Len(rest) - 1
          /\ \A j \in 1 .. Len(rest) - 1 : buffer'[j] = IF j < i THEN rest[j] ELSE rest[j + 1]
      BY <1>1, <2>3, <2>5, WithoutElements
    <3> HIDE DEF rest
    <3>2. \A j \in 1 .. Len(buffer') : j + 1 \in 1 .. Len(rest) /\ j \in 1 .. Len(rest)
      BY <1>1, <2>2, <3>1
    <3>3. \A j \in 1 .. Len(rest) : \E l \in 1 .. Len(buffer) : rest[j] = buffer[l]
      BY <1>1, <2>2
    <3>4. \A j \in 1 .. Len(buffer') : \E l \in 1 .. Len(rest) : buffer'[j] = rest[l]
      BY <3>1, <3>2
    <3>5. \A j \in 1 .. Len(buffer') : \E l \in 1 .. Len(buffer) : buffer'[j] = buffer[l]
      BY <3>3, <3>4
    <3>6. i > 1 => 1 < i /\ 1 < k
      BY <1>1
    <3> QED BY <1>1, <2>2, <2>5, <3>1, <3>2, <3>5, <3>6
  <2> QED BY <2>4, <2>5
<1> QED BY <1>2, <1>3
-----------------------------------------------------------------------------
(* A hide is served.                                                       *)

\* The frame that hides m, past the middleware; a frame past the middleware
\* that hides a dialog, or one that destroys a dialog.
Hides(f, m) == f.at = "next" /\ f.type = "HIDE" /\ f.request.modal = m

Quits(f) == (f.at = "next" /\ f.type = "HIDE") \/ f.type = "DESTROY"

\* Only the frame on top may go on to show a dialog.
Underneath == \A i \in 2 .. Len(stack) : Quits(stack[i])

\* What a caller asked to hide is hidden, or will be.
Hiding ==
  asked.type = "HIDE" /\ ~thrown =>
    LET m == asked.request.modal
    IN  \/ \E i \in 1 .. Len(stack) : Hides(stack[i], m)
        \/ ~Displayed(m) /\ \A i \in 1 .. Len(stack) : Quits(stack[i])
        \/ /\ stack # <<>> /\ stack[1] = Dispatch("HIDE", Bare(m))
           /\ \A i \in 2 .. Len(stack) : stack[i].type = "DESTROY"

LEMMA PassFields ==
  ASSUME NEW f \in Frames
  PROVE  /\ Pass(f).at = "next"
         /\ Pass(f).type = f.type
         /\ Pass(f).request = f.request
  BY DEF Pass, Frames

LEMMA DispatchFields ==
  ASSUME NEW t, NEW r
  PROVE  /\ Dispatch(t, r).at = "dispatch"
         /\ Dispatch(t, r).type = t
         /\ Dispatch(t, r).request = r
  BY DEF Dispatch

LEMMA BareFields ==
  ASSUME NEW m
  PROVE  Bare(m).modal = m /\ Bare(m).cancellable
  BY DEF Bare

\* Below the frame that a caller adds there is at most the alert's destruction.
LEMMA CalledBelow ==
  ASSUME Called, Len(stack') \in Nat
  PROVE  \A k \in 2 .. Len(stack') : stack'[k].type = "DESTROY"
<1>1. Len(stack') > 1 => Len(stack') = 2 /\ stack'[2] = Dispatch("DESTROY", Bare(Alert))
  BY DEF Called
<1>2. ASSUME NEW k \in 2 .. Len(stack') PROVE stack'[k].type = "DESTROY"
  BY <1>1, <1>2, DispatchFields
<1> QED BY <1>2

LEMMA UnderneathKept == TypeOK /\ TypeOK' /\ Underneath /\ [Next]_vars => Underneath'
<1> SUFFICES ASSUME TypeOK, TypeOK', Underneath, [Next]_vars PROVE Underneath'
  OBVIOUS
<1> USE DEF Underneath, Quits
<1>0. /\ Len(stack) \in Nat /\ Len(stack') \in Nat
      /\ stack # <<>> => Len(stack) > 0 /\ stack[1] \in Frames
  BY DEF TypeOK
<1>1. CASE Environment
  <2>1. Called
    BY <1>1, EnvironmentStep
  <2> QED BY <1>0, <2>1, CalledBelow
<1>2. CASE HandleShow
  <2>1. stack # <<>> /\ (Popped \/ \E f : Swapped(f))
    BY <1>2, ShowStep DEF ShowDropped, ShowYields, ShowPasses
  <2> QED BY <1>0, <2>1 DEF Popped, Swapped
<1>3. CASE HandleHide
  <2> DEFINE m == stack[1].request.modal
             i == IndexOf(m)
  <2>1. /\ stack # <<>> /\ stack[1].at = "dispatch" /\ stack[1].type = "HIDE"
        /\ HideDropped(m) \/ HideAlone(m, i) \/ HideNext(m, i) \/ HideThrows(m, i)
    BY <1>3, HideStep
  <2>2. CASE Popped \/ Swapped(Pass(stack[1]))
    BY <1>0, <2>2 DEF Popped, Swapped
  <2>3. ASSUME NEW f, Pushed(f, Pass(stack[1])) PROVE Underneath'
    <3>1. Pass(stack[1]).at = "next" /\ Pass(stack[1]).type = "HIDE"
      BY <1>0, <2>1, PassFields, DispatchFields, BareFields
    <3>2. ASSUME NEW k \in 2 .. Len(stack') PROVE Quits(stack'[k])
      <4>1. CASE k = 2
        BY <2>3, <3>1, <4>1 DEF Pushed
      <4>2. CASE k # 2
        <5>1. k \in 3 .. Len(stack') /\ k - 1 \in 2 .. Len(stack)
          BY <1>0, <2>3, <4>2 DEF Pushed
        <5> QED BY <2>3, <5>1 DEF Pushed
      <4> QED BY <4>1, <4>2
    <3> QED BY <3>2
  <2>4. CASE stack' = <<>>
    BY <2>4
  <2> QED BY <2>1, <2>2, <2>3, <2>4 DEF HideDropped, HideAlone, HideNext, HideThrows
<1>4. CASE HandleDestroy
  BY <1>0, <1>4, DestroyStep DEF Popped, Swapped
<1>5. CASE Reduce
  BY <1>0, <1>5, ReduceStep DEF Popped
<1>6. CASE UNCHANGED vars
  BY <1>6 DEF vars
<1> QED BY <1>1, <1>2, <1>3, <1>4, <1>5, <1>6 DEF Next, Middleware

LEMMA HidingKept == TypeOK /\ TypeOK' /\ Underneath /\ Hiding /\ [Next]_vars => Hiding'
<1> SUFFICES ASSUME TypeOK, TypeOK', Underneath, Hiding, [Next]_vars,
                    asked'.type = "HIDE", ~thrown'
             PROVE  LET m == asked'.request.modal
                    IN  \/ \E i \in 1 .. Len(stack') : Hides(stack'[i], m)
                        \/ view'[m] \notin {"shown", "locked"} /\ \A i \in 1 .. Len(stack') : Quits(stack'[i])
                        \/ /\ stack' # <<>> /\ stack'[1] = Dispatch("HIDE", Bare(m))
                           /\ \A i \in 2 .. Len(stack') : stack'[i].type = "DESTROY"
  BY DEF Hiding, Displayed
<1> DEFINE a == asked.request.modal
<1>0. /\ Len(stack) \in Nat /\ Len(stack') \in Nat
      /\ stack # <<>> => Len(stack) > 0 /\ stack[1] \in Frames
      /\ stack' # <<>> <=> Len(stack') > 0
      /\ a \in Modals
  BY FrameType DEF TypeOK
<1>1. CASE Environment
  <2>1. Called
    BY <1>1, EnvironmentStep
  <2>2. PICK m \in Modals : asked' = Dispatch(asked'.type, Bare(m))
    BY <2>1 DEF Called
  <2>3. asked'.request.modal = m
    <3>1. asked'.request = Bare(m)
      BY <2>2, DispatchFields
    <3> QED BY <3>1, BareFields
  <2>4. \A k \in 2 .. Len(stack') : stack'[k].type = "DESTROY"
    BY <1>0, <2>1, CalledBelow
  <2> QED BY <2>1, <2>2, <2>3, <2>4, <1>0 DEF Called
<1>2. ASSUME asked' = asked, thrown' = thrown
      PROVE  /\ asked'.request.modal = a
             /\ \/ \E i \in 1 .. Len(stack) : Hides(stack[i], a)
                \/ ~Displayed(a) /\ \A i \in 1 .. Len(stack) : Quits(stack[i])
                \/ /\ stack # <<>> /\ stack[1] = Dispatch("HIDE", Bare(a))
                   /\ \A i \in 2 .. Len(stack) : stack[i].type = "DESTROY"
  BY <1>2 DEF Hiding
<1>3. CASE HandleShow
  <2>1. /\ stack # <<>> /\ stack[1].at = "dispatch" /\ stack[1].type = "SHOW"
        /\ Popped \/ \E f : Swapped(f)
        /\ asked' = asked /\ thrown' = thrown
    BY <1>3, ShowStep DEF ShowDropped, ShowYields, ShowPasses
  <2>2. stack[1] # Dispatch("HIDE", Bare(a)) /\ ~Quits(stack[1])
    BY <2>1, PassFields, DispatchFields, BareFields DEF Quits
  <2>3. PICK i \in 1 .. Len(stack) : Hides(stack[i], a)
    BY <1>0, <1>2, <2>1, <2>2
  <2>4. i \in 2 .. Len(stack)
    BY <1>0, <2>1, <2>3 DEF Hides
  <2>5. \E k \in 1 .. Len(stack') : stack'[k] = stack[i]
    <3>1. CASE Popped
      <4>1. i - 1 \in 1 .. Len(stack') /\ stack'[i - 1] = stack[(i - 1) + 1] /\ (i - 1) + 1 = i
        BY <1>0, <2>4, <3>1 DEF Popped
      <4> QED BY <4>1
    <3>2. CASE ~Popped
      BY <1>0, <2>1, <2>4, <3>2 DEF Swapped
    <3> QED BY <3>1, <3>2
  <2> QED BY <1>2, <2>1, <2>3, <2>5
<1>4. CASE HandleHide
  <2> DEFINE m == stack[1].request.modal
             j == IndexOf(m)
  <2>1. /\ stack # <<>> /\ stack[1].at = "dispatch" /\ stack[1].type = "HIDE"
        /\ asked' = asked /\ view' = view
        /\ HideDropped(m) \/ HideAlone(m, j) \/ HideNext(m, j) \/ HideThrows(m, j)
    BY <1>4, HideStep
  <2>2. /\ thrown' = thrown
        /\ \/ ~Displayed(m) /\ Popped
           \/ Displayed(m) /\ Swapped(Pass(stack[1]))
           \/ Displayed(m) /\ \E f : Pushed(f, Pass(stack[1]))
    BY <2>1 DEF HideDropped, HideAlone, HideNext, HideThrows
  <2>3. /\ Pass(stack[1]).at = "next" /\ Pass(stack[1]).type = "HIDE"
        /\ Pass(stack[1]).request.modal = m
    BY <1>0, <2>1, PassFields, DispatchFields, BareFields
  <2>4. ~Quits(stack[1]) /\ ~Hides(stack[1], a)
    BY <2>1 DEF Quits, Hides
  <2>5. ASSUME NEW i \in 1 .. Len(stack), Hides(stack[i], a)
        PROVE  \E k \in 1 .. Len(stack') : Hides(stack'[k], a)
    <3>0. i \in 2 .. Len(stack)
      BY <1>0, <2>4, <2>5
    <3>1. CASE Popped
      <4>1. i - 1 \in 1 .. Len(stack') /\ stack'[i - 1] = stack[(i - 1) + 1] /\ (i - 1) + 1 = i
        BY <1>0, <3>0, <3>1 DEF Popped
      <4> QED BY <2>5, <4>1
    <3>2. CASE Swapped(Pass(stack[1]))
      BY <1>0, <2>5, <3>0, <3>2 DEF Swapped
    <3>3. ASSUME NEW f, Pushed(f, Pass(stack[1]))
          PROVE  \E k \in 1 .. Len(stack') : Hides(stack'[k], a)
      <4>1. i + 1 \in 3 .. Len(stack') /\ stack'[i + 1] = stack[(i + 1) - 1] /\ (i + 1) - 1 = i
        BY <1>0, <3>0, <3>3 DEF Pushed
      <4> QED BY <1>0, <2>5, <4>1
    <3> QED BY <2>2, <3>1, <3>2, <3>3
  <2>6. ASSUME stack[1] = Dispatch("HIDE", Bare(a)),
               \A i \in 2 .. Len(stack) : stack[i].type = "DESTROY"
        PROVE  \/ \E k \in 1 .. Len(stack') : Hides(stack'[k], a)
               \/ view'[a] \notin {"shown", "locked"} /\ \A k \in 1 .. Len(stack') : Quits(stack'[k])
    <3>1. m = a
      <4>1. stack[1].request = Bare(a)
        BY <2>6, DispatchFields
      <4> QED BY <4>1, BareFields
    <3>2. CASE ~Displayed(m) /\ Popped
      BY <1>0, <2>1, <2>6, <3>1, <3>2 DEF Popped, Quits, Displayed
    <3>3. CASE Swapped(Pass(stack[1]))
      BY <1>0, <2>1, <2>3, <3>1, <3>3 DEF Swapped, Hides
    <3>4. ASSUME NEW f, Pushed(f, Pass(stack[1]))
          PROVE  \E k \in 1 .. Len(stack') : Hides(stack'[k], a)
      <4>1. 2 \in 1 .. Len(stack') /\ stack'[2] = Pass(stack[1])
        BY <1>0, <2>1, <3>4 DEF Pushed
      <4> QED BY <2>3, <3>1, <4>1 DEF Hides
    <3> QED BY <2>2, <3>2, <3>3, <3>4
  <2> QED BY <1>0, <1>2, <2>1, <2>2, <2>4, <2>5, <2>6
<1>5. CASE HandleDestroy
  <2>1. /\ stack # <<>> /\ stack[1].type = "DESTROY"
        /\ Popped \/ Swapped(Pass(stack[1]))
        /\ UNCHANGED <<view, thrown, asked>>
    BY <1>5, DestroyStep
  <2>2. Pass(stack[1]).type = "DESTROY"
    BY <1>0, <2>1, PassFields, DispatchFields, BareFields
  <2>3. ~Hides(stack[1], a) /\ stack[1] # Dispatch("HIDE", Bare(a))
    BY <2>1, PassFields, DispatchFields, BareFields DEF Hides
  <2>4. ASSUME NEW i \in 1 .. Len(stack), Hides(stack[i], a)
        PROVE  \E k \in 1 .. Len(stack') : Hides(stack'[k], a)
    <3>0. i \in 2 .. Len(stack)
      BY <1>0, <2>3, <2>4
    <3>1. CASE Popped
      <4>1. i - 1 \in 1 .. Len(stack') /\ stack'[i - 1] = stack[(i - 1) + 1] /\ (i - 1) + 1 = i
        BY <1>0, <3>0, <3>1 DEF Popped
      <4> QED BY <2>4, <4>1
    <3>2. CASE Swapped(Pass(stack[1]))
      BY <1>0, <2>4, <3>0, <3>2 DEF Swapped
    <3> QED BY <2>1, <3>1, <3>2
  <2>5. ASSUME ~Displayed(a), \A i \in 1 .. Len(stack) : Quits(stack[i])
        PROVE  view'[a] \notin {"shown", "locked"} /\ \A k \in 1 .. Len(stack') : Quits(stack'[k])
    <3>1. view'[a] \notin {"shown", "locked"}
      BY <2>1, <2>5 DEF Displayed
    <3>2. CASE Popped
      <4>1. \A k \in 1 .. Len(stack') : Quits(stack'[k])
        BY <1>0, <2>1, <2>5, <3>2 DEF Popped
      <4> QED BY <3>1, <4>1
    <3>3. CASE Swapped(Pass(stack[1]))
      <4>1. Quits(stack'[1])
        BY <2>2, <3>3 DEF Swapped, Quits
      <4>2. \A k \in 2 .. Len(stack') : Quits(stack'[k])
        BY <1>0, <2>5, <3>3 DEF Swapped
      <4> QED BY <1>0, <3>1, <4>1, <4>2
    <3> QED BY <2>1, <3>2, <3>3
  <2> QED BY <1>0, <1>2, <2>1, <2>3, <2>4, <2>5
<1>6. CASE Reduce
  <2> DEFINE f == stack[1]
             m == f.request.modal
  <2>1. /\ stack # <<>> /\ f.at = "next"
        /\ f.type \in {"SHOW", "HIDE", "DESTROY"}
        /\ m \in Modals
        /\ f.type = "HIDE" => view'[m] = "hidden"
        /\ f.type = "DESTROY" => view'[m] = "absent"
        /\ \A x \in Modals : x # m => view'[x] = view[x]
        /\ Popped
        /\ thrown' = thrown /\ asked' = asked
    BY <1>6, ReduceStep
  <2>2. \A k \in 1 .. Len(stack') : Quits(stack'[k])
    BY <1>0, <2>1 DEF Popped, Underneath
  <2>3. f # Dispatch("HIDE", Bare(a))
    BY <2>1, PassFields, DispatchFields, BareFields
  <2>4. ASSUME NEW i \in 1 .. Len(stack), Hides(stack[i], a)
        PROVE  \/ \E k \in 1 .. Len(stack') : Hides(stack'[k], a)
               \/ view'[a] \notin {"shown", "locked"}
    <3>1. CASE i = 1
      BY <2>1, <2>4, <3>1 DEF Hides, Displayed
    <3>2. CASE i # 1
      <4>1. i - 1 \in 1 .. Len(stack') /\ stack'[i - 1] = stack[(i - 1) + 1] /\ (i - 1) + 1 = i
        BY <1>0, <2>1, <3>2 DEF Popped
      <4> QED BY <2>4, <4>1
    <3> QED BY <3>1, <3>2
  <2>5. ASSUME ~Displayed(a), \A i \in 1 .. Len(stack) : Quits(stack[i])
        PROVE  view'[a] \notin {"shown", "locked"}
    <3>1. Quits(f)
      BY <1>0, <2>1, <2>5
    <3> QED BY <1>0, <2>1, <2>5, <3>1 DEF Quits, Displayed
  <2> QED BY <1>0, <1>2, <2>1, <2>2, <2>3, <2>4, <2>5
<1>7. CASE UNCHANGED vars
  <2>1. buffer' = buffer /\ view' = view /\ stack' = stack /\ thrown' = thrown /\ asked' = asked
    BY <1>7 DEF vars
  <2> QED BY <1>2, <2>1 DEF Displayed
<1> QED BY <1>1, <1>3, <1>4, <1>5, <1>6, <1>7 DEF Next, Middleware

\* modalMiddleware.ts:31-50: whatever the locks, a hide that has returned
\* without an exception leaves its dialog hidden, however many dialogs had to
\* make room for each other meanwhile.
THEOREM HideServedAlways == Spec => []HideServed
<1>1. Init => Underneath /\ Hiding
  <2>1. Init => stack = <<>> /\ asked.type = "DESTROY"
    BY PassFields, DispatchFields, BareFields DEF Init
  <2> QED BY <2>1 DEF Underneath, Hiding
<1>2. TypeOK /\ Underneath /\ Hiding => HideServed
  BY DEF HideServed, Quiet, Hiding
<1> QED BY <1>1, <1>2, TypeCorrect, UnderneathKept, HidingKept, PTL DEF Spec

-----------------------------------------------------------------------------
(* A lock is kept: the dialog that must not yield.                         *)

AskedAway(m) == asked.type # "SHOW" /\ asked.request.modal = m

Locked == view[Alert] = "locked"

\* Below a frame that has not reached the reducers yet, dialogs to be hidden
\* are still displayed.
Yielding ==
  \A i \in 2 .. Len(stack) :
    ~Quits(stack[1]) /\ stack[i].type = "HIDE" => Displayed(stack[i].request.modal)

\* The request about to be shown is the only one, or waits for a locked one.
Showing ==
  stack # <<>> /\ stack[1].at = "next" /\ stack[1].type = "SHOW" =>
    /\ ~Displayed(stack[1].request.modal)
    /\ buffer # <<>>
    /\ ~buffer[1].cancellable \/ buffer = <<stack[1].request>>

\* A frame that takes a dialog away is asked for, or makes room for a request.
Making ==
  /\ \A i \in 1 .. Len(stack) : stack[i].type = "DESTROY" => AskedAway(stack[i].request.modal)
  /\ stack # <<>> /\ stack[1].at = "dispatch" /\ stack[1].type = "HIDE" =>
       \/ AskedAway(stack[1].request.modal)
       \/ buffer # <<>> /\ buffer[1].modal = stack[1].request.modal

\* A locked request holds the front of the buffer, unless the buffer has lost
\* sight of the alert or a caller takes it away.
Holding ==
  Locked =>
    \/ buffer # <<>> /\ ~buffer[1].cancellable
    \/ \A i \in 1 .. Len(buffer) : buffer[i].modal # Alert
    \/ AskedAway(Alert) /\ \E i \in 1 .. Len(stack) : Hides(stack[i], Alert)

\* Nothing hides a locked alert that no caller has asked away.
Spared ==
  Locked /\ ~AskedAway(Alert) =>
    \A i \in 1 .. Len(stack) : stack[i].type = "HIDE" => stack[i].request.modal # Alert

OnlyAlert == \A m \in Modals : view[m] = "locked" => m = Alert

LEMMA Lengths ==
  ASSUME TypeOK, TypeOK'
  PROVE  /\ Len(stack) \in Nat /\ Len(stack') \in Nat
         /\ stack # <<>> => Len(stack) > 0 /\ stack[1] \in Frames
         /\ stack' # <<>> => Len(stack') > 0 /\ stack'[1] \in Frames
         /\ stack = <<>> => Len(stack) = 0
         /\ stack' = <<>> => Len(stack') = 0
         /\ Len(buffer) \in Nat /\ Len(buffer') \in Nat
         /\ buffer # <<>> <=> Len(buffer) > 0
         /\ buffer' # <<>> <=> Len(buffer') > 0
  BY DEF TypeOK

\* The frame that comes to the top when another returns is one that quits.
LEMMA PoppedTop ==
  ASSUME TypeOK, TypeOK', Underneath, Popped
  PROVE  stack' # <<>> => Quits(stack'[1])
  BY Lengths DEF Underneath, Popped

LEMMA YieldingKept ==
  TypeOK /\ TypeOK' /\ Underneath /\ Yielding /\ [Next]_vars => Yielding'
<1> SUFFICES ASSUME TypeOK, TypeOK', Underneath, Yielding, [Next]_vars PROVE Yielding'
  OBVIOUS
<1>0. /\ Len(stack) \in Nat /\ Len(stack') \in Nat
      /\ stack # <<>> => Len(stack) > 0 /\ stack[1] \in Frames
      /\ stack' = <<>> => Len(stack') = 0
  BY Lengths
<1>a. ASSUME Popped PROVE Yielding'
  BY <1>0, <1>a, PoppedTop DEF Yielding
<1>b. ASSUME stack' = <<>> PROVE Yielding'
  BY <1>0, <1>b DEF Yielding
<1>c. ASSUME Quits(stack'[1]) PROVE Yielding'
  BY <1>c DEF Yielding
<1>1. CASE Environment
  <2>1. \A k \in 2 .. Len(stack') : stack'[k].type = "DESTROY"
    BY <1>0, <1>1, EnvironmentStep, CalledBelow
  <2> QED BY <2>1 DEF Yielding
<1>2. CASE HandleShow
  <2>1. /\ stack # <<>> /\ stack[1].type = "SHOW" /\ view' = view
        /\ Popped \/ \E f : Swapped(f)
    BY <1>2, ShowStep DEF ShowDropped, ShowYields, ShowPasses
  <2>2. ~Quits(stack[1])
    BY <2>1 DEF Quits
  <2>3. ASSUME NEW f, Swapped(f) PROVE Yielding'
    BY <1>0, <2>1, <2>2, <2>3 DEF Yielding, Swapped, Displayed
  <2> QED BY <1>a, <2>1, <2>3
<1>3. CASE HandleHide
  <2> DEFINE m == stack[1].request.modal
             j == IndexOf(m)
  <2>1. /\ stack # <<>> /\ stack[1].at = "dispatch" /\ stack[1].type = "HIDE"
        /\ view' = view
        /\ HideDropped(m) \/ HideAlone(m, j) \/ HideNext(m, j) \/ HideThrows(m, j)
    BY <1>3, HideStep
  <2>2. \/ Popped
        \/ stack' = <<>>
        \/ Swapped(Pass(stack[1]))
        \/ Displayed(m) /\ \E f : Pushed(f, Pass(stack[1]))
    BY <2>1 DEF HideDropped, HideAlone, HideNext, HideThrows
  <2>3. /\ Pass(stack[1]).at = "next" /\ Pass(stack[1]).type = "HIDE"
        /\ Pass(stack[1]).request.modal = m
    BY <1>0, <2>1, PassFields
  <2>4. ~Quits(stack[1])
    BY <2>1 DEF Quits
  <2>5. CASE Swapped(Pass(stack[1]))
    BY <1>c, <2>3, <2>5 DEF Swapped, Quits
  <2>6. ASSUME Displayed(m), NEW f, Pushed(f, Pass(stack[1])) PROVE Yielding'
    <3>1. ASSUME NEW i \in 2 .. Len(stack'), stack'[i].type = "HIDE"
          PROVE  view'[stack'[i].request.modal] \in {"shown", "locked"}
      <4>1. CASE i = 2
        BY <2>1, <2>3, <2>6, <4>1 DEF Pushed, Displayed
      <4>2. CASE i # 2
        <5>1. i - 1 \in 2 .. Len(stack) /\ stack'[i] = stack[i - 1]
          BY <1>0, <2>6, <3>1, <4>2 DEF Pushed
        <5> QED BY <2>1, <2>4, <3>1, <5>1 DEF Yielding, Displayed
      <4> QED BY <4>1, <4>2
    <3> QED BY <3>1 DEF Yielding, Displayed
  <2> QED BY <1>a, <1>b, <2>2, <2>5, <2>6
<1>4. CASE HandleDestroy
  <2>1. /\ stack # <<>> /\ stack[1].type = "DESTROY"
        /\ Popped \/ Swapped(Pass(stack[1]))
    BY <1>4, DestroyStep
  <2>2. Swapped(Pass(stack[1])) => Quits(stack'[1])
    BY <1>0, <2>1, PassFields DEF Swapped, Quits
  <2> QED BY <1>a, <1>c, <2>1, <2>2
<1>5. CASE Reduce
  BY <1>a, <1>5, ReduceStep
<1>6. CASE UNCHANGED vars
  BY <1>6 DEF vars, Yielding, Displayed
<1> QED BY <1>1, <1>2, <1>3, <1>4, <1>5, <1>6 DEF Next, Middleware

LEMMA ShowingKept ==
  TypeOK /\ TypeOK' /\ Underneath /\ Showing /\ [Next]_vars => Showing'
<1> SUFFICES ASSUME TypeOK, TypeOK', Underneath, Showing, [Next]_vars PROVE Showing'
  OBVIOUS
<1>0. /\ stack # <<>> => stack[1] \in Frames
      /\ buffer \in Seq(Requests)
  BY DEF TypeOK
<1>a. ASSUME stack' # <<>> => Quits(stack'[1]) \/ stack'[1].at = "dispatch"
      PROVE  Showing'
  BY <1>a DEF Showing, Quits
<1>1. CASE Environment
  BY <1>a, <1>1, EnvironmentStep DEF Called
<1>2. CASE HandleShow
  <2> DEFINE r == stack[1].request
  <2>1. /\ stack # <<>> /\ stack[1].type = "SHOW" /\ r \in Requests
        /\ ShowDropped(r) \/ ShowYields(r) \/ ShowPasses(r)
        /\ view' = view
    BY <1>2, ShowStep
  <2>2. CASE ShowDropped(r)
    BY <1>a, <2>2, PoppedTop DEF ShowDropped
  <2>3. CASE ShowYields(r)
    BY <1>a, <2>3, DispatchFields DEF ShowYields, Swapped
  <2>4. CASE ShowPasses(r)
    <3>1. stack'[1].request = r
      BY <1>0, <2>1, <2>4, PassFields DEF ShowPasses, Swapped
    <3>2. view'[r.modal] \notin {"shown", "locked"}
      BY <2>1, <2>4 DEF ShowPasses, Displayed
    <3>3. buffer' = Append(buffer, r) /\ (buffer = <<>> \/ ~buffer[1].cancellable)
      BY <2>4 DEF ShowPasses
    <3>4. buffer' # <<>> /\ (~buffer'[1].cancellable \/ buffer' = <<r>>)
      <4>1. CASE buffer = <<>>
        BY <2>1, <3>3, <4>1
      <4>2. CASE buffer # <<>>
        BY <1>0, <2>1, <3>3, <4>2
      <4> QED BY <4>1, <4>2
    <3> QED BY <3>1, <3>2, <3>4 DEF Showing, Displayed
  <2> QED BY <2>1, <2>2, <2>3, <2>4
<1>3. CASE HandleHide
  <2> DEFINE m == stack[1].request.modal
             j == IndexOf(m)
  <2>1. /\ stack # <<>> /\ stack[1].at = "dispatch" /\ stack[1].type = "HIDE"
        /\ HideDropped(m) \/ HideAlone(m, j) \/ HideNext(m, j) \/ HideThrows(m, j)
    BY <1>3, HideStep
  <2>2. \/ Popped
        \/ stack' = <<>>
        \/ Swapped(Pass(stack[1]))
        \/ \E r : Pushed(Dispatch("SHOW", r), Pass(stack[1]))
    BY <2>1 DEF HideDropped, HideAlone, HideNext, HideThrows
  <2>3. Swapped(Pass(stack[1])) => Quits(stack'[1])
    BY <1>0, <2>1, PassFields DEF Swapped, Quits
  <2>4. ASSUME NEW r, Pushed(Dispatch("SHOW", r), Pass(stack[1])) PROVE stack'[1].at = "dispatch"
    BY <2>4, DispatchFields DEF Pushed
  <2> QED BY <1>a, <2>2, <2>3, <2>4, PoppedTop
<1>4. CASE HandleDestroy
  <2>1. /\ stack # <<>> /\ stack[1].type = "DESTROY"
        /\ Popped \/ Swapped(Pass(stack[1]))
    BY <1>4, DestroyStep
  <2>2. Swapped(Pass(stack[1])) => Quits(stack'[1])
    BY <1>0, <2>1, PassFields DEF Swapped, Quits
  <2> QED BY <1>a, <2>1, <2>2, PoppedTop
<1>5. CASE Reduce
  BY <1>a, <1>5, ReduceStep, PoppedTop
<1>6. CASE UNCHANGED vars
  BY <1>6 DEF vars, Showing, Displayed
<1> QED BY <1>1, <1>2, <1>3, <1>4, <1>5, <1>6 DEF Next, Middleware

LEMMA MakingKept ==
  TypeOK /\ TypeOK' /\ Underneath /\ Making /\ [Next]_vars => Making'
<1> SUFFICES ASSUME TypeOK, TypeOK', Underneath, Making, [Next]_vars PROVE Making'
  OBVIOUS
<1>0. /\ Len(stack) \in Nat /\ Len(stack') \in Nat
      /\ stack # <<>> => Len(stack) > 0 /\ stack[1] \in Frames
      /\ stack' # <<>> => Len(stack') > 0
      /\ stack' = <<>> => Len(stack') = 0
      /\ buffer \in Seq(Requests)
  BY Lengths DEF TypeOK
<1> DEFINE Gone(f) == f.type = "DESTROY" => AskedAway(f.request.modal)
           Asked(f) == f.type = "DESTROY" => asked'.type # "SHOW" /\ asked'.request.modal = f.request.modal
           Room(f) == f.at = "dispatch" /\ f.type = "HIDE" =>
                        \/ asked'.type # "SHOW" /\ asked'.request.modal = f.request.modal
                        \/ buffer' # <<>> /\ buffer'[1].modal = f.request.modal
<1>a. ASSUME \A i \in 1 .. Len(stack') : Asked(stack'[i]), stack' # <<>> => Room(stack'[1])
      PROVE  Making'
  BY <1>a DEF Making, AskedAway
<1>b. \A i \in 1 .. Len(stack) : Gone(stack[i])
  BY DEF Making
<1>c. ASSUME asked' = asked
      PROVE  \A f : Gone(f) => Asked(f)
  BY <1>c DEF AskedAway
<1>d. ASSUME asked' = asked, Popped PROVE Making'
  <2>1. stack' # <<>> => Room(stack'[1])
    BY <1>d, PoppedTop DEF Quits
  <2>2. \A i \in 1 .. Len(stack') : Gone(stack'[i])
    BY <1>0, <1>b, <1>d DEF Popped
  <2> QED BY <1>a, <1>c, <1>d, <2>1, <2>2
<1>e. ASSUME asked' = asked, stack # <<>>, NEW f, Swapped(f), Gone(f), Room(f) PROVE Making'
  <2>1. ASSUME NEW i \in 1 .. Len(stack') PROVE Gone(stack'[i])
    <3>1. CASE i = 1
      BY <1>e, <3>1 DEF Swapped
    <3>2. CASE i # 1
      BY <1>0, <1>b, <1>e, <3>2 DEF Swapped
    <3> QED BY <3>1, <3>2
  <2>2. stack'[1] = f
    BY <1>e DEF Swapped
  <2> QED BY <1>a, <1>c, <1>e, <2>1, <2>2
<1>1. CASE Environment
  <2>1. Called
    BY <1>1, EnvironmentStep
  <2>2. Room(stack'[1])
    BY <2>1 DEF Called
  <2>3. ASSUME NEW i \in 1 .. Len(stack') PROVE Asked(stack'[i])
    <3>1. CASE i = 1
      BY <2>1, <3>1 DEF Called
    <3>2. CASE i # 1
      <4>1. Len(stack') > 1 => /\ Len(stack') = 2
                               /\ asked' = Dispatch("HIDE", Bare(Alert))
                               /\ stack'[2] = Dispatch("DESTROY", Bare(Alert))
        BY <2>1 DEF Called
      <4>2. asked' = Dispatch("HIDE", Bare(Alert)) /\ stack'[i] = Dispatch("DESTROY", Bare(Alert))
        BY <1>0, <2>3, <3>2, <4>1
      <4> QED BY <4>2, DispatchFields
    <3> QED BY <3>1, <3>2
  <2> QED BY <1>a, <2>2, <2>3
<1>2. CASE HandleShow
  <2> DEFINE r == stack[1].request
  <2>1. /\ stack # <<>> /\ stack[1].type = "SHOW" /\ r \in Requests
        /\ ShowDropped(r) \/ ShowYields(r) \/ ShowPasses(r)
        /\ asked' = asked
    BY <1>2, ShowStep
  <2>2. CASE ShowDropped(r)
    BY <1>d, <2>1, <2>2 DEF ShowDropped
  <2>3. CASE ShowYields(r)
    <3> DEFINE f == Dispatch("HIDE", Bare(buffer[1].modal))
    <3>1. f.type = "HIDE" /\ f.request = Bare(buffer[1].modal)
      BY DispatchFields
    <3>2. f.request.modal = buffer[1].modal
      BY <3>1, BareFields
    <3>3. buffer' # <<>> /\ buffer'[1] = buffer[1] /\ Swapped(f)
      BY <1>0, <2>1, <2>3 DEF ShowYields
    <3>4. Gone(f) /\ Room(f)
      BY <3>1, <3>2, <3>3
    <3> QED BY <1>e, <2>1, <3>3, <3>4
  <2>4. CASE ShowPasses(r)
    <3>1. Swapped(Pass(stack[1])) /\ Pass(stack[1]).type = "SHOW"
      BY <1>0, <2>1, <2>4, PassFields DEF ShowPasses
    <3> QED BY <1>e, <2>1, <3>1
  <2> QED BY <2>1, <2>2, <2>3, <2>4
<1>3. CASE HandleHide
  <2> DEFINE m == stack[1].request.modal
             j == IndexOf(m)
  <2>1. /\ stack # <<>> /\ stack[1].type = "HIDE" /\ asked' = asked
        /\ HideDropped(m) \/ HideAlone(m, j) \/ HideNext(m, j) \/ HideThrows(m, j)
    BY <1>3, HideStep
  <2>2. \/ Popped
        \/ stack' = <<>>
        \/ Swapped(Pass(stack[1]))
        \/ \E r : Pushed(Dispatch("SHOW", r), Pass(stack[1]))
    BY <2>1 DEF HideDropped, HideAlone, HideNext, HideThrows
  <2>3. Pass(stack[1]).type = "HIDE" /\ Pass(stack[1]).at = "next"
    BY <1>0, <2>1, PassFields
  <2>4. CASE stack' = <<>>
    BY <1>0, <1>a, <2>4
  <2>5. CASE Swapped(Pass(stack[1]))
    BY <1>e, <2>1, <2>3, <2>5
  <2>6. ASSUME NEW r, Pushed(Dispatch("SHOW", r), Pass(stack[1])) PROVE Making'
    <3>1. stack'[1].type = "SHOW" /\ stack'[2].type = "HIDE"
      BY <2>3, <2>6, DispatchFields DEF Pushed
    <3>2. ASSUME NEW i \in 1 .. Len(stack') PROVE Gone(stack'[i])
      <4>1. CASE i \in {1, 2}
        BY <3>1, <4>1
      <4>2. CASE i \notin {1, 2}
        <5>1. i - 1 \in 1 .. Len(stack) /\ stack'[i] = stack[i - 1]
          BY <1>0, <2>6, <3>2, <4>2 DEF Pushed
        <5> QED BY <1>b, <5>1
      <4> QED BY <4>1, <4>2
    <3> QED BY <1>a, <1>c, <2>1, <3>1, <3>2
  <2> QED BY <1>d, <2>1, <2>2, <2>4, <2>5, <2>6
<1>4. CASE HandleDestroy
  <2>1. /\ stack # <<>> /\ stack[1].type = "DESTROY" /\ asked' = asked
        /\ Popped \/ Swapped(Pass(stack[1]))
    BY <1>4, DestroyStep
  <2>2. Pass(stack[1]).type = "DESTROY" /\ Pass(stack[1]).request = stack[1].request
    BY <1>0, <2>1, PassFields
  <2>3. Gone(stack[1])
    BY <1>0, <1>b, <2>1
  <2> QED BY <1>d, <1>e, <2>1, <2>2, <2>3
<1>5. CASE Reduce
  BY <1>d, <1>5, ReduceStep
<1>6. CASE UNCHANGED vars
  BY <1>6 DEF vars, Making, AskedAway
<1> QED BY <1>1, <1>2, <1>3, <1>4, <1>5, <1>6 DEF Next, Middleware

\* Where only the alert may be locked, nothing else is.
LEMMA LockingRequests ==
  ASSUME Locking \subseteq {Alert}, NEW r \in Requests
  PROVE  r.modal \in Modals /\ (~r.cancellable => r.modal = Alert)
  BY DEF Requests

LEMMA OnlyAlertKept ==
  ASSUME Locking \subseteq {Alert}, TypeOK, OnlyAlert, [Next]_vars
  PROVE  OnlyAlert'
<1>1. CASE Environment
  BY <1>1, EnvironmentStep DEF Called, OnlyAlert
<1>2. CASE HandleShow
  BY <1>2, ShowStep DEF OnlyAlert
<1>3. CASE HandleHide
  BY <1>3, HideStep DEF OnlyAlert
<1>4. CASE HandleDestroy
  BY <1>4, DestroyStep DEF OnlyAlert
<1>5. CASE Reduce
  <2> DEFINE r == stack[1].request
  <2>1. /\ r \in Requests
        /\ stack[1].type \in {"SHOW", "HIDE", "DESTROY"}
        /\ stack[1].type = "SHOW" => view'[r.modal] = IF r.cancellable THEN "shown" ELSE "locked"
        /\ stack[1].type = "HIDE" => view'[r.modal] = "hidden"
        /\ stack[1].type = "DESTROY" => view'[r.modal] = "absent"
        /\ \A x \in Modals : x # r.modal => view'[x] = view[x]
    BY <1>5, ReduceStep
  <2>2. view'[r.modal] = "locked" => r.modal = Alert
    BY <2>1, LockingRequests
  <2> QED BY <2>1, <2>2 DEF OnlyAlert
<1>6. CASE UNCHANGED vars
  BY <1>6 DEF vars, OnlyAlert
<1> QED BY <1>1, <1>2, <1>3, <1>4, <1>5, <1>6 DEF Next, Middleware

LEMMA SparedKept ==
  ASSUME Locking \subseteq {Alert}, TypeOK, TypeOK', Underneath,
         Yielding, Showing, Holding, Spared, [Next]_vars
  PROVE  Spared'
<1>0. /\ Len(stack) \in Nat /\ Len(stack') \in Nat
      /\ stack # <<>> => Len(stack) > 0 /\ stack[1] \in Frames
      /\ stack' = <<>> => Len(stack') = 0
      /\ buffer \in Seq(Requests)
  BY Lengths DEF TypeOK
<1> DEFINE Safe(f) == f.type = "HIDE" => f.request.modal # Alert
<1>a. ASSUME \A i \in 1 .. Len(stack') : Safe(stack'[i]) PROVE Spared'
  BY <1>a DEF Spared
<1>b. ASSUME asked' = asked, ~Spared'
      PROVE  view'[Alert] = "locked" /\ ~AskedAway(Alert)
  BY <1>b DEF Spared, Locked, AskedAway
<1>c. ASSUME view[Alert] = "locked", ~AskedAway(Alert)
      PROVE  \A i \in 1 .. Len(stack) : Safe(stack[i])
  BY <1>c DEF Spared, Locked
<1>1. CASE Environment
  <2>1. Called
    BY <1>1, EnvironmentStep
  <2>2. ASSUME ~(asked'.type # "SHOW" /\ asked'.request.modal = Alert), NEW i \in 1 .. Len(stack')
        PROVE  Safe(stack'[i])
    <3>1. CASE i = 1
      BY <2>1, <2>2, <3>1 DEF Called
    <3>2. CASE i # 1
      BY <1>0, <2>1, <3>2, CalledBelow
    <3> QED BY <3>1, <3>2
  <2> QED BY <2>2 DEF Spared, AskedAway
<1>2. CASE HandleShow
  <2> DEFINE r == stack[1].request
  <2>1. /\ stack # <<>> /\ stack[1].type = "SHOW" /\ r \in Requests
        /\ ShowDropped(r) \/ ShowYields(r) \/ ShowPasses(r)
        /\ asked' = asked /\ view' = view
    BY <1>2, ShowStep
  <2> SUFFICES ASSUME view[Alert] = "locked", ~AskedAway(Alert)
               PROVE  \A i \in 1 .. Len(stack') : Safe(stack'[i])
    BY <1>a, <1>b, <2>1
  <2>2. \A i \in 1 .. Len(stack) : Safe(stack[i])
    BY <1>c
  <2>3. CASE ShowDropped(r)
    BY <1>0, <2>2, <2>3 DEF ShowDropped, Popped
  <2>4. CASE ShowYields(r)
    <3> DEFINE f == Dispatch("HIDE", Bare(buffer[1].modal))
    <3>1. f.request = Bare(buffer[1].modal)
      BY DispatchFields
    <3>2. f.request.modal = buffer[1].modal
      BY <3>1, BareFields
    <3>3. buffer # <<>> /\ buffer[1].cancellable /\ Swapped(f)
      BY <2>4 DEF ShowYields
    <3>4. \A i \in 1 .. Len(buffer) : buffer[i].modal # Alert
      BY <3>3 DEF Holding, Locked
    <3>5. buffer[1].modal # Alert
      BY <1>0, <3>3, <3>4
    <3> QED BY <1>0, <2>1, <2>2, <3>2, <3>3, <3>5 DEF Swapped
  <2>5. CASE ShowPasses(r)
    <3>1. Swapped(Pass(stack[1])) /\ Pass(stack[1]).type = "SHOW"
      BY <1>0, <2>1, <2>5, PassFields DEF ShowPasses
    <3> QED BY <1>0, <2>1, <2>2, <3>1 DEF Swapped
  <2> QED BY <2>1, <2>3, <2>4, <2>5
<1>3. CASE HandleHide
  <2> DEFINE m == stack[1].request.modal
             j == IndexOf(m)
  <2>1. /\ stack # <<>> /\ stack[1].type = "HIDE" /\ asked' = asked /\ view' = view
        /\ HideDropped(m) \/ HideAlone(m, j) \/ HideNext(m, j) \/ HideThrows(m, j)
    BY <1>3, HideStep
  <2>2. \/ Popped
        \/ stack' = <<>>
        \/ Swapped(Pass(stack[1]))
        \/ \E r : Pushed(Dispatch("SHOW", r), Pass(stack[1]))
    BY <2>1 DEF HideDropped, HideAlone, HideNext, HideThrows
  <2> SUFFICES ASSUME view[Alert] = "locked", ~AskedAway(Alert)
               PROVE  \A i \in 1 .. Len(stack') : Safe(stack'[i])
    BY <1>a, <1>b, <2>1
  <2>3. \A i \in 1 .. Len(stack) : Safe(stack[i])
    BY <1>c
  <2>4. Safe(Pass(stack[1]))
    BY <1>0, <2>1, <2>3, PassFields
  <2>5. CASE Popped
    BY <1>0, <2>3, <2>5 DEF Popped
  <2>6. CASE stack' = <<>>
    BY <1>0, <2>6
  <2>7. CASE Swapped(Pass(stack[1]))
    BY <1>0, <2>1, <2>3, <2>4, <2>7 DEF Swapped
  <2>8. ASSUME NEW r, Pushed(Dispatch("SHOW", r), Pass(stack[1])), NEW i \in 1 .. Len(stack')
        PROVE  Safe(stack'[i])
    <3>1. CASE i = 1
      BY <2>8, <3>1, DispatchFields DEF Pushed
    <3>2. CASE i = 2
      BY <2>4, <2>8, <3>2 DEF Pushed
    <3>3. CASE i \notin {1, 2}
      <4>1. i - 1 \in 1 .. Len(stack) /\ stack'[i] = stack[i - 1]
        BY <1>0, <2>8, <3>3 DEF Pushed
      <4> QED BY <2>3, <4>1
    <3> QED BY <3>1, <3>2, <3>3
  <2> QED BY <2>2, <2>5, <2>6, <2>7, <2>8
<1>4. CASE HandleDestroy
  <2>1. /\ stack # <<>> /\ stack[1].type = "DESTROY" /\ asked' = asked /\ view' = view
        /\ Popped \/ Swapped(Pass(stack[1]))
    BY <1>4, DestroyStep
  <2> SUFFICES ASSUME view[Alert] = "locked", ~AskedAway(Alert)
               PROVE  \A i \in 1 .. Len(stack') : Safe(stack'[i])
    BY <1>a, <1>b, <2>1
  <2>2. \A i \in 1 .. Len(stack) : Safe(stack[i])
    BY <1>c
  <2>3. Safe(Pass(stack[1]))
    BY <1>0, <2>1, PassFields
  <2>4. CASE Popped
    BY <1>0, <2>2, <2>4 DEF Popped
  <2>5. CASE Swapped(Pass(stack[1]))
    BY <1>0, <2>1, <2>2, <2>3, <2>5 DEF Swapped
  <2> QED BY <2>1, <2>4, <2>5
<1>5. CASE Reduce
  <2> DEFINE f == stack[1]
             m == f.request.modal
  <2>1. /\ stack # <<>> /\ f.at = "next"
        /\ f.type \in {"SHOW", "HIDE", "DESTROY"}
        /\ m \in Modals
        /\ f.type = "HIDE" => view'[m] = "hidden"
        /\ f.type = "DESTROY" => view'[m] = "absent"
        /\ \A x \in Modals : x # m => view'[x] = view[x]
        /\ Popped
        /\ asked' = asked
    BY <1>5, ReduceStep
  <2> SUFFICES ASSUME view'[Alert] = "locked", ~AskedAway(Alert)
               PROVE  \A i \in 1 .. Len(stack') : Safe(stack'[i])
    BY <1>a, <1>b, <2>1
  <2>2. CASE m # Alert
    <3>1. \A i \in 1 .. Len(stack) : Safe(stack[i])
      BY <1>c, <2>1, <2>2
    <3> QED BY <1>0, <2>1, <3>1 DEF Popped
  <2>3. CASE m = Alert
    <3>1. f.type = "SHOW" /\ ~Quits(f)
      BY <2>1, <2>3 DEF Quits
    <3>2. ~Displayed(Alert)
      BY <2>1, <2>3, <3>1 DEF Showing
    <3>3. \A i \in 2 .. Len(stack) : Safe(stack[i])
      BY <3>1, <3>2 DEF Yielding
    <3> QED BY <1>0, <2>1, <3>3 DEF Popped
  <2> QED BY <2>2, <2>3
<1>6. CASE UNCHANGED vars
  BY <1>6 DEF vars, Spared, Locked, AskedAway
<1> QED BY <1>1, <1>2, <1>3, <1>4, <1>5, <1>6 DEF Next, Middleware

LEMMA HoldingKept ==
  ASSUME Locking \subseteq {Alert}, TypeOK, TypeOK', Underneath,
         Showing, Making, Holding, Spared, [Next]_vars
  PROVE  Holding'
<1>0. /\ Len(stack) \in Nat /\ Len(stack') \in Nat
      /\ stack # <<>> => Len(stack) > 0 /\ stack[1] \in Frames
      /\ stack = <<>> => Len(stack) = 0
      /\ buffer \in Seq(Requests)
      /\ Len(buffer) \in Nat /\ Len(buffer') \in Nat
      /\ buffer # <<>> <=> Len(buffer) > 0
      /\ buffer' # <<>> <=> Len(buffer') > 0
  BY Lengths DEF TypeOK
<1> DEFINE Fast == buffer # <<>> /\ ~buffer[1].cancellable
           Lost == \A i \in 1 .. Len(buffer) : buffer[i].modal # Alert
           Leaving == AskedAway(Alert) /\ \E i \in 1 .. Len(stack) : Hides(stack[i], Alert)
<1>a. ASSUME view' = view, view'[Alert] = "locked" PROVE Fast \/ Lost \/ Leaving
  BY <1>a DEF Holding, Locked
<1>b. ASSUME asked' = asked, AskedAway(Alert), NEW i \in 1 .. Len(stack'), Hides(stack'[i], Alert)
      PROVE  Holding'
  BY <1>b DEF Holding, AskedAway
<1>c. ASSUME buffer' # <<>>, ~buffer'[1].cancellable PROVE Holding'
  BY <1>c DEF Holding
<1>d. ASSUME \A i \in 1 .. Len(buffer') : buffer'[i].modal # Alert PROVE Holding'
  BY <1>d DEF Holding
<1>e. ASSUME view'[Alert] # "locked" PROVE Holding'
  BY <1>e DEF Holding, Locked
\* A frame that hides the alert stays, unless it is the one that runs.
<1>f. ASSUME asked' = asked, Leaving, ~Hides(stack[1], Alert),
             Popped \/ (\E f : Swapped(f)) \/ \E f, g : Pushed(f, g)
      PROVE  Holding'
  <2>1. PICK i \in 2 .. Len(stack) : Hides(stack[i], Alert)
    BY <1>0, <1>f
  <2>2. CASE Popped
    <3>1. i - 1 \in 1 .. Len(stack') /\ stack'[i - 1] = stack[(i - 1) + 1] /\ (i - 1) + 1 = i
      BY <1>0, <2>1, <2>2 DEF Popped
    <3> QED BY <1>b, <1>f, <2>1, <3>1
  <2>3. ASSUME NEW f, Swapped(f) PROVE Holding'
    <3>1. i \in 1 .. Len(stack') /\ stack'[i] = stack[i]
      BY <1>0, <2>1, <2>3 DEF Swapped
    <3> QED BY <1>b, <1>f, <2>1, <3>1
  <2>4. ASSUME NEW f, NEW g, Pushed(f, g) PROVE Holding'
    <3>1. i + 1 \in 3 .. Len(stack') /\ stack'[i + 1] = stack[(i + 1) - 1] /\ (i + 1) - 1 = i
      BY <1>0, <2>1, <2>4 DEF Pushed
    <3>2. i + 1 \in 1 .. Len(stack') /\ Hides(stack'[i + 1], Alert)
      BY <1>0, <2>1, <3>1
    <3> QED BY <1>b, <1>f, <3>2
  <2> QED BY <1>f, <2>2, <2>3, <2>4
<1>1. CASE Environment
  <2>1. stack = <<>> /\ buffer' = buffer /\ view' = view
    BY <1>1, EnvironmentStep DEF Called
  <2>2. view'[Alert] = "locked" => Fast \/ Lost
    BY <1>0, <1>a, <2>1
  <2> QED BY <1>c, <1>d, <1>e, <2>1, <2>2
<1>2. CASE HandleShow
  <2> DEFINE r == stack[1].request
  <2>1. /\ stack # <<>> /\ stack[1].at = "dispatch" /\ r \in Requests
        /\ ShowDropped(r) \/ ShowYields(r) \/ ShowPasses(r)
        /\ asked' = asked /\ view' = view
    BY <1>2, ShowStep
  <2> SUFFICES ASSUME view'[Alert] = "locked" PROVE Holding'
    BY <1>e
  <2>2. CASE Fast
    <3>1. buffer' # <<>> /\ buffer'[1] = buffer[1]
      BY <1>0, <2>1, <2>2 DEF ShowDropped, ShowYields, ShowPasses
    <3> QED BY <1>c, <2>2, <3>1
  <2>3. CASE Lost
    <3>1. buffer' = buffer \/ (buffer' = Append(buffer, r) /\ ~Displayed(r.modal))
      BY <2>1 DEF ShowDropped, ShowYields, ShowPasses
    <3>2. CASE buffer' = buffer
      BY <1>d, <2>3, <3>2
    <3>3. CASE buffer' = Append(buffer, r) /\ ~Displayed(r.modal)
      <4>1. r.modal # Alert
        BY <2>1, <3>3 DEF Displayed
      <4>2. ASSUME NEW i \in 1 .. Len(buffer') PROVE buffer'[i].modal # Alert
        <5>1. Len(buffer') = Len(buffer) + 1
          BY <1>0, <2>1, <3>3
        <5>2. CASE i = Len(buffer) + 1
          BY <1>0, <2>1, <3>3, <4>1, <5>2
        <5>3. CASE i \in 1 .. Len(buffer)
          BY <1>0, <2>1, <2>3, <3>3, <5>3
        <5> QED BY <1>0, <5>1, <5>2, <5>3
      <4> QED BY <1>d, <4>2
    <3> QED BY <3>1, <3>2, <3>3
  <2>4. CASE Leaving
    <3>1. Popped \/ \E f : Swapped(f)
      BY <2>1 DEF ShowDropped, ShowYields, ShowPasses
    <3>2. ~Hides(stack[1], Alert)
      BY <2>1 DEF Hides
    <3> QED BY <1>f, <2>1, <2>4, <3>1, <3>2
  <2> QED BY <1>a, <2>1, <2>2, <2>3, <2>4
<1>3. CASE HandleHide
  <2> DEFINE m == stack[1].request.modal
             j == IndexOf(m)
  <2>1. /\ stack # <<>> /\ stack[1].at = "dispatch" /\ stack[1].type = "HIDE"
        /\ m \in Modals
        /\ HideDropped(m) \/ HideAlone(m, j) \/ HideNext(m, j) \/ HideThrows(m, j)
        /\ asked' = asked /\ view' = view
    BY <1>3, HideStep
  <2> SUFFICES ASSUME view'[Alert] = "locked" PROVE Holding'
    BY <1>e
  <2>2. j \in 0 .. Len(buffer) /\ (j > 0 => buffer[j].modal = m)
        /\ (j = 0 <=> \A i \in DOMAIN buffer : buffer[i].modal # m)
    BY <1>0, IndexOfType
  <2>3. Pass(stack[1]).at = "next" /\ Pass(stack[1]).type = "HIDE" /\ Pass(stack[1]).request.modal = m
    BY <1>0, <2>1, PassFields
  <2>4. ~Hides(stack[1], Alert)
    BY <2>1 DEF Hides
  <2>5. \/ HideDropped(m)
        \/ HideThrows(m, j)
        \/ Swapped(Pass(stack[1]))
        \/ \E f : Pushed(f, Pass(stack[1]))
    BY <2>1 DEF HideAlone, HideNext
  <2>6. CASE HideDropped(m)
    BY <1>a, <1>c, <1>d, <1>f, <2>1, <2>4, <2>6 DEF HideDropped
  <2>7. CASE ~HideDropped(m) /\ m = Alert
    <3>1. AskedAway(Alert)
      <4>1. ~(\A i \in 1 .. Len(stack) : stack[i].type = "HIDE" => stack[i].request.modal # Alert)
        BY <1>0, <2>1, <2>7
      <4> QED BY <2>1, <4>1 DEF Spared, Locked
    <3>2. CASE HideThrows(m, j)
      <4>1. j = 0 /\ buffer' = Spliced(j)
        BY <3>2 DEF HideThrows
      <4>2. \A i \in 1 .. Len(buffer) : buffer[i].modal # Alert
        BY <1>0, <2>2, <2>7, <4>1
      <4>3. \A i \in 1 .. Len(buffer') : \E k \in 1 .. Len(buffer) : buffer'[i] = buffer[k]
        BY <2>1, <4>1, HideRemains
      <4> QED BY <1>d, <4>2, <4>3
    <3>3. CASE Swapped(Pass(stack[1]))
      <4>1. 1 \in 1 .. Len(stack') /\ Hides(stack'[1], Alert)
        BY <1>0, <2>1, <2>3, <2>7, <3>3 DEF Swapped, Hides
      <4> QED BY <1>b, <2>1, <3>1, <4>1
    <3>4. ASSUME NEW f, Pushed(f, Pass(stack[1])) PROVE Holding'
      <4>1. 2 \in 1 .. Len(stack') /\ Hides(stack'[2], Alert)
        BY <1>0, <2>1, <2>3, <2>7, <3>4 DEF Pushed, Hides
      <4> QED BY <1>b, <2>1, <3>1, <4>1
    <3> QED BY <2>5, <2>7, <3>2, <3>3, <3>4
  <2>8. CASE ~HideDropped(m) /\ m # Alert
    <3>1. /\ \A i \in 1 .. Len(buffer') : \E k \in 1 .. Len(buffer) : buffer'[i] = buffer[k]
          /\ j # 1 /\ Len(buffer') > 0 => buffer'[1] = buffer[1]
          /\ j > 1 => Len(buffer') > 0
      <4>1. \/ buffer' = Spliced(j)
            \/ j > 0 /\ Len(Spliced(j)) >= j /\ buffer' = Without(Spliced(j), j)
        BY <2>1, <2>8 DEF HideAlone, HideNext, HideThrows
      <4> QED BY <2>1, <4>1, HideRemains
    <3>2. CASE Lost
      BY <1>d, <3>1, <3>2
    <3>3. CASE Fast
      <4>1. buffer[1] \in Requests
        BY <1>0, <3>3
      <4>2. buffer[1].modal = Alert
        BY <3>3, <4>1, LockingRequests
      <4>3. j # 1
        BY <2>2, <2>8, <4>2
      <4>4. CASE buffer' = <<>>
        BY <1>0, <1>d, <4>4
      <4>5. CASE buffer' # <<>>
        BY <1>0, <1>c, <3>1, <3>3, <4>3, <4>5
      <4> QED BY <4>4, <4>5
    <3>4. CASE Leaving
      <4>1. CASE HideThrows(m, j)
        <5>1. ~AskedAway(m)
          BY <2>8, <3>4 DEF AskedAway
        <5>2. buffer # <<>> /\ buffer[1].modal = m
          BY <2>1, <5>1 DEF Making
        <5>3. j # 0
          BY <1>0, <2>2, <5>2
        <5> QED BY <4>1, <5>3 DEF HideThrows
      <4>2. CASE Swapped(Pass(stack[1])) \/ \E f : Pushed(f, Pass(stack[1]))
        BY <1>f, <2>1, <2>4, <3>4, <4>2
      <4> QED BY <2>5, <2>8, <4>1, <4>2
    <3> QED BY <1>a, <2>1, <3>2, <3>3, <3>4
  <2> QED BY <2>6, <2>7, <2>8
<1>4. CASE HandleDestroy
  <2>1. /\ stack # <<>> /\ stack[1].type = "DESTROY"
        /\ Popped \/ Swapped(Pass(stack[1]))
        /\ asked' = asked /\ view' = view /\ buffer' = buffer
    BY <1>4, DestroyStep
  <2>2. ~Hides(stack[1], Alert)
    BY <2>1 DEF Hides
  <2> QED BY <1>a, <1>c, <1>d, <1>e, <1>f, <2>1, <2>2
<1>5. CASE Reduce
  <2> DEFINE f == stack[1]
             m == f.request.modal
  <2>1. /\ stack # <<>> /\ f.at = "next"
        /\ f.type \in {"SHOW", "HIDE", "DESTROY"}
        /\ m \in Modals /\ f.request \in Requests
        /\ f.type = "SHOW" => view'[m] = IF f.request.cancellable THEN "shown" ELSE "locked"
        /\ f.type = "HIDE" => view'[m] = "hidden"
        /\ f.type = "DESTROY" => view'[m] = "absent"
        /\ \A x \in Modals : x # m => view'[x] = view[x]
        /\ Popped
        /\ asked' = asked /\ buffer' = buffer
    BY <1>5, ReduceStep
  <2> SUFFICES ASSUME view'[Alert] = "locked" PROVE Holding'
    BY <1>e
  <2>2. CASE m = Alert
    <3>1. f.type = "SHOW" /\ ~f.request.cancellable
      BY <2>1, <2>2
    <3>2. buffer # <<>> /\ (~buffer[1].cancellable \/ buffer = <<f.request>>)
      BY <2>1, <3>1 DEF Showing
    <3>3. ~buffer[1].cancellable
      BY <2>1, <3>1, <3>2
    <3> QED BY <1>c, <2>1, <3>2, <3>3
  <2>3. CASE m # Alert
    <3>1. Fast \/ Lost \/ Leaving
      BY <2>1, <2>3 DEF Holding, Locked
    <3>2. ~Hides(f, Alert)
      BY <2>3 DEF Hides
    <3> QED BY <1>c, <1>d, <1>f, <2>1, <3>1, <3>2
  <2> QED BY <2>2, <2>3
<1>6. CASE UNCHANGED vars
  BY <1>6 DEF vars, Holding, Locked, AskedAway
<1> QED BY <1>1, <1>2, <1>3, <1>4, <1>5, <1>6 DEF Next, Middleware

\* The invariants that the lock rests on.
LockInv == Underneath /\ Yielding /\ Showing /\ Making /\ Holding /\ Spared /\ OnlyAlert

LEMMA LockInvStep ==
  ASSUME Locking \subseteq {Alert}, TypeOK, TypeOK', LockInv, [Next]_vars
  PROVE  LockInv'
  BY UnderneathKept, YieldingKept, ShowingKept, MakingKept, HoldingKept, SparedKept,
     OnlyAlertKept DEF LockInv

\* The step that ends the display of a locked alert is the reducers', for a
\* frame that a caller asked for.
LEMMA LockStep ==
  ASSUME Locking \subseteq {Alert}, TypeOK, TypeOK', LockInv, [Next]_vars,
         NEW m \in Modals, view[m] = "locked", view'[m] # "locked"
  PROVE  asked.type # "SHOW" /\ asked.request.modal = m
<1>1. m = Alert
  BY DEF LockInv, OnlyAlert
<1>2. Reduce
  <2>1. ASSUME view' = view PROVE FALSE
    BY <2>1
  <2>2. CASE Environment
    BY <2>1, <2>2, EnvironmentStep DEF Called
  <2>3. CASE HandleShow
    BY <2>1, <2>3, ShowStep
  <2>4. CASE HandleHide
    BY <2>1, <2>4, HideStep
  <2>5. CASE HandleDestroy
    BY <2>1, <2>5, DestroyStep
  <2>6. CASE UNCHANGED vars
    BY <2>1, <2>6 DEF vars
  <2> QED BY <2>2, <2>3, <2>4, <2>5, <2>6 DEF Next, Middleware
<1>3. /\ stack # <<>> /\ stack[1].at = "next"
      /\ stack[1].type \in {"SHOW", "HIDE", "DESTROY"}
      /\ stack[1].request.modal = Alert
  BY <1>1, <1>2, ReduceStep
<1>4. Len(stack) \in Nat /\ Len(stack) > 0
  BY <1>3, Lengths
<1>5. stack[1].type # "SHOW"
  BY <1>1, <1>3 DEF LockInv, Showing, Displayed
<1>6. CASE stack[1].type = "HIDE"
  BY <1>1, <1>3, <1>4, <1>6 DEF LockInv, Spared, Locked, AskedAway
<1>7. CASE stack[1].type = "DESTROY"
  BY <1>1, <1>3, <1>4, <1>7 DEF LockInv, Making, AskedAway
<1> QED BY <1>3, <1>5, <1>6, <1>7

\* modalMiddleware.ts:21-25: where only the alert is ever requested with
\* cancellable: false, as in the application, a locked alert disappears only
\* when a caller hides or destroys it, however many shows are nested meanwhile.
THEOREM LockKeptAlways == Locking \subseteq {Alert} => (Spec => LockKept)
<1> SUFFICES ASSUME Locking \subseteq {Alert} PROVE Spec => LockKept
  OBVIOUS
<1>1. Init => LockInv
  <2> SUFFICES ASSUME Init PROVE LockInv
    OBVIOUS
  <2>1. stack = <<>> /\ Len(stack) = 0 /\ \A m \in Modals : view[m] = "absent"
    BY DEF Init
  <2> QED BY <2>1 DEF LockInv, Underneath, Yielding, Showing, Making, Holding, Spared, Locked, OnlyAlert
<1>2. TypeOK /\ TypeOK' /\ LockInv /\ [Next]_vars => LockInv'
  BY LockInvStep
<1>3. TypeOK /\ TypeOK' /\ LockInv /\ [Next]_vars
      => [\A m \in Modals : view[m] = "locked" /\ view'[m] # "locked" =>
            asked.type # "SHOW" /\ asked.request.modal = m]_vars
  BY LockStep
<1> QED BY <1>1, <1>2, <1>3, TypeCorrect, PTL DEF Spec, LockKept

-----------------------------------------------------------------------------
(* Where every request is cancellable: the single place of the dialog.     *)

Places == Modals \cup {NoModal}

Coming(t, m) == [at |-> "dispatch", type |-> t, request |-> Bare(m)]
Going(t, m) == [at |-> "next", type |-> t, request |-> Bare(m)]

Alone(f) == Len(stack) = 1 /\ stack[1] = f
Above(f, g) == Len(stack) = 2 /\ stack[1] = f /\ stack[2] = g
Hider(f) == Alone(f) \/ Above(f, Coming("DESTROY", Alert))

\* The dialogs displayed: the one at o, if any; m and r.
Only(o) == \A x \in Modals : Displayed(x) <=> x = o
Both(m, r) == \A x \in Modals : Displayed(x) <=> x \in {m, r}

\* The buffer holds the request of the dialog at o, if any; those of q and r.
Holds(o) == IF o = NoModal THEN Len(buffer) = 0 ELSE Len(buffer) = 1 /\ buffer[1] = Bare(o)
HoldsBoth(q, r) == Len(buffer) = 2 /\ buffer[1] = Bare(q) /\ buffer[2] = Bare(r)

Settled(o) == Holds(o) /\ Only(o)

AskedShow(r) == asked = Coming("SHOW", r)
AskedHide(m) == asked = Coming("HIDE", m)

\* The states a call goes through.  Nothing runs:
Rest(o) == Len(stack) = 0 /\ Settled(o)
\* a dialog that is not displayed is destroyed;
DestroyAsked(o, m) == Alone(Coming("DESTROY", m)) /\ Settled(o)
Destroys(o, m) == Alone(Going("DESTROY", m)) /\ Settled(o) /\ m # o
\* the dialog displayed is hidden;
HideAsked(o, m) == Hider(Coming("HIDE", m)) /\ Settled(o) /\ AskedHide(m)
HideGoes(m) == Hider(Going("HIDE", m)) /\ Holds(NoModal) /\ Only(m) /\ AskedHide(m)
\* a dialog is shown in the free place;
ShowAsked(o, r) == Alone(Coming("SHOW", r)) /\ Settled(o) /\ AskedShow(r)
ShowGoes(r) == Alone(Going("SHOW", r)) /\ Holds(r) /\ Only(NoModal) /\ AskedShow(r)
\* a dialog is shown in the place of m, which yields, while r is dispatched
\* again and reaches the reducers before m leaves.
Yields(m, r) == /\ Alone(Coming("HIDE", m)) /\ HoldsBoth(m, r)
                /\ Only(m) /\ m # r /\ AskedShow(r)
Again(m, r) == /\ Above(Coming("SHOW", r), Going("HIDE", m)) /\ Holds(NoModal)
               /\ Only(m) /\ m # r /\ AskedShow(r)
Replaces(m, r) == /\ Above(Going("SHOW", r), Going("HIDE", m)) /\ Holds(r)
                  /\ Only(m) /\ m # r /\ AskedShow(r)
Leaves(m, r) == /\ Alone(Going("HIDE", m)) /\ Holds(r)
                /\ Both(m, r) /\ m # r /\ AskedShow(r)

LEMMA ComingFields ==
  ASSUME NEW t, NEW m
  PROVE  /\ Coming(t, m).at = "dispatch"
         /\ Coming(t, m).type = t
         /\ Coming(t, m).request = Bare(m)
         /\ Coming(t, m).request.modal = m
  BY DEF Coming, Bare

LEMMA GoingFields ==
  ASSUME NEW t, NEW m
  PROVE  /\ Going(t, m).at = "next"
         /\ Going(t, m).type = t
         /\ Going(t, m).request.modal = m
         /\ Going(t, m).request = Bare(m)
  BY DEF Going, Bare

LEMMA DispatchBare ==
  ASSUME NEW t, NEW m
  PROVE  Dispatch(t, Bare(m)) = Coming(t, m)
  BY DEF Coming, Dispatch

LEMMA PassComing ==
  ASSUME NEW t, NEW m
  PROVE  Pass(Coming(t, m)) = Going(t, m)
  BY DEF Coming, Going, Pass

LEMMA RequestIsBare ==
  ASSUME Locking = {}, NEW r \in Requests
  PROVE  r = Bare(r.modal) /\ r.modal \in Modals
<1>1. r \in [modal : Modals, cancellable : BOOLEAN] /\ r.cancellable = TRUE
  BY DEF Requests
<1> QED BY <1>1 DEF Bare

LEMMA FrameIs ==
  ASSUME Locking = {}, NEW f \in Frames
  PROVE  /\ f.at = "dispatch" => f = Coming(f.type, f.request.modal)
         /\ f.at = "next" => f = Going(f.type, f.request.modal)
<1>1. f.request = Bare(f.request.modal)
  BY FrameType, RequestIsBare
<1>2. f = [at |-> f.at, type |-> f.type, request |-> f.request]
  BY DEF Frames
<1> QED BY <1>1, <1>2 DEF Coming, Going

\* A step that is not a caller's runs the frame on top.
LEMMA TopRuns ==
  ASSUME TypeOK, Next, Len(stack) # 0
  PROVE  /\ stack[1].at = "next" => Reduce
         /\ stack[1].at = "dispatch" /\ stack[1].type = "SHOW" => HandleShow
         /\ stack[1].at = "dispatch" /\ stack[1].type = "HIDE" => HandleHide
         /\ stack[1].at = "dispatch" /\ stack[1].type = "DESTROY" => HandleDestroy
<1>1. ~Environment
  BY EnvironmentStep DEF Called
<1> QED BY <1>1, ShowStep, HideStep, DestroyStep, ReduceStep DEF Next, Middleware

\* The splice of the only request, and of the first of two.
LEMMA SpliceFirst ==
  ASSUME TypeOK, NEW m \in Modals
  PROVE  /\ Holds(m) => IndexOf(m) = 1 /\ Spliced(1) = <<>>
         /\ \A r \in Modals : HoldsBoth(m, r) =>
              /\ IndexOf(m) = 1
              /\ Len(Spliced(1)) = 1 /\ Spliced(1)[1] = Bare(r)
              /\ Without(Spliced(1), 1) = <<>>
<1>1. buffer \in Seq(Requests) /\ Len(buffer) \in Nat /\ m # NoModal
  BY DEF TypeOK
<1>2. ASSUME Len(buffer) > 0, buffer[1] = Bare(m) PROVE IndexOf(m) = 1
  <2>1. 1 \in DOMAIN buffer /\ buffer[1].modal = m
    <3>1. 1 \in DOMAIN buffer
      BY <1>1, <1>2
    <3> QED BY <1>2, <3>1, BareFields
  <2>2. ASSUME NEW i \in DOMAIN buffer, buffer[i].modal = m,
               \A j \in 1 .. i - 1 : buffer[j].modal # m
        PROVE  i = 1
    BY <1>1, <2>1, <2>2
  <2>3. \A j \in 1 .. 1 - 1 : buffer[j].modal # m
    OBVIOUS
  <2> QED BY <2>1, <2>2, <2>3 DEF IndexOf
\* The first element is at 1.
<1> DEFINE first == 1
<1>0. first = 1 /\ (Len(buffer) > 0 => first \in 1 .. Len(buffer))
  BY <1>1
<1> HIDE DEF first
<1>3. ASSUME Len(buffer) > 0
      PROVE  /\ Spliced(1) \in Seq(Requests)
             /\ Len(Spliced(1)) = Len(buffer) - 1
             /\ \A j \in 1 .. Len(buffer) - 1 : Spliced(1)[j] = buffer[j + 1]
  <2>1. Spliced(1) = Without(buffer, first)
    BY <1>0 DEF Spliced
  <2>2. \A j \in 1 .. Len(buffer) - 1 : Without(buffer, first)[j] = IF j < first THEN buffer[j] ELSE buffer[j + 1]
    BY <1>0, <1>1, <1>3, WithoutElements
  <2>3. Len(Without(buffer, first)) = Len(buffer) - 1
    BY <1>0, <1>1, <1>3, WithoutElements
  <2>4. Spliced(1) \in Seq(Requests)
    BY <1>0, <1>1, <1>3, SplicedType
  <2> QED BY <1>0, <1>1, <2>1, <2>2, <2>3, <2>4
<1>4. ASSUME Holds(m) PROVE IndexOf(m) = 1 /\ Spliced(1) = <<>>
  <2>1. Len(buffer) = 1 /\ buffer[1] = Bare(m)
    BY <1>1, <1>4 DEF Holds
  <2> QED BY <1>2, <1>3, <2>1
<1>5. ASSUME NEW r \in Modals, HoldsBoth(m, r)
      PROVE  /\ IndexOf(m) = 1
             /\ Len(Spliced(1)) = 1 /\ Spliced(1)[1] = Bare(r)
             /\ Without(Spliced(1), 1) = <<>>
  <2>1. Len(buffer) = 2 /\ buffer[1] = Bare(m) /\ buffer[2] = Bare(r)
    BY <1>5 DEF HoldsBoth
  <2>2. Spliced(1) \in Seq(Requests) /\ Len(Spliced(1)) = 1 /\ Spliced(1)[1] = Bare(r)
    BY <1>3, <2>1
  <2>3. Len(Without(Spliced(1), 1)) = 0 /\ Without(Spliced(1), 1) \in Seq(Requests)
    <3> DEFINE s == Spliced(1)
    <3>1. s \in Seq(Requests) /\ Len(s) = 1 /\ first \in 0 .. Len(s) /\ first # 0
      BY <1>0, <2>2
    <3> HIDE DEF s
    <3>2. Without(s, first) \in Seq(Requests) /\ Len(Without(s, first)) = Len(s) - 1
      BY <3>1, WithoutType
    <3> QED BY <1>0, <3>1, <3>2 DEF s
  <2> QED BY <1>2, <2>1, <2>2, <2>3
<1> QED BY <1>4, <1>5

\* Between two calls, and throughout a call.
Phase ==
  \/ \E o \in Places : Rest(o)
  \/ \E o \in Places, m \in Modals : DestroyAsked(o, m) \/ Destroys(o, m) \/ HideAsked(o, m)
                                       \/ ShowAsked(o, m)
  \/ \E m \in Modals : HideGoes(m) \/ ShowGoes(m)
  \/ \E m, r \in Modals : Yields(m, r) \/ Again(m, r) \/ Replaces(m, r) \/ Leaves(m, r)

\* What a middleware step leaves alone throughout.
Steady == asked' = asked /\ thrown' = thrown

LEMMA FromRest ==
  ASSUME Locking = {}, TypeOK, TypeOK', NEW o \in Places, Rest(o), Next
  PROVE  /\ UNCHANGED <<buffer, view, thrown>>
         /\ \E m \in Modals : DestroyAsked(o, m)' \/ HideAsked(o, m)' \/ ShowAsked(o, m)'
<1>1. Environment
  BY ShowStep, HideStep, DestroyStep, ReduceStep, Lengths DEF Rest, Next, Middleware
<1>2. Called
  BY <1>1, EnvironmentStep
<1>3. Settled(o)'
  BY <1>2 DEF Called, Rest, Settled, Holds, Only, Displayed
<1>4. asked' \in Frames /\ asked'.at = "dispatch"
  BY <1>2 DEF Called, TypeOK
<1>5. PICK m \in Modals, t \in {"SHOW", "HIDE", "DESTROY"} : asked' = Coming(t, m)
  <2>1. asked'.request.modal \in Modals /\ asked' = Coming(asked'.type, asked'.request.modal)
    BY <1>4, FrameType, FrameIs
  <2>2. asked'.type \in {"SHOW", "HIDE", "DESTROY"}
    BY <1>4 DEF Frames
  <2> QED BY <2>1, <2>2
<1>6. stack'[1] = asked' /\ Len(stack') \in Nat /\ Len(stack') >= 1
  BY <1>2, Lengths DEF Called
<1>7. Len(stack') > 1 => asked' = Coming("HIDE", Alert) /\ Above(Coming("HIDE", Alert), Coming("DESTROY", Alert))'
  <2>1. Len(stack') > 1 => /\ Len(stack') = 2 /\ asked' = Coming("HIDE", Alert)
                           /\ stack'[2] = Coming("DESTROY", Alert)
    BY <1>2, DispatchBare, PassComing DEF Called
  <2> QED BY <1>6, <2>1 DEF Above
<1>8. ASSUME Len(stack') > 1 PROVE HideAsked(o, Alert)'
  BY <1>3, <1>7, <1>8 DEF HideAsked, Hider, AskedHide
<1>9. ASSUME Len(stack') = 1 PROVE DestroyAsked(o, m)' \/ HideAsked(o, m)' \/ ShowAsked(o, m)'
  <2>1. Alone(Coming(t, m))'
    BY <1>5, <1>6, <1>9 DEF Alone
  <2> QED BY <1>3, <1>5, <2>1 DEF DestroyAsked, HideAsked, ShowAsked, Hider, AskedHide, AskedShow
<1>10. UNCHANGED <<buffer, view, thrown>>
  BY <1>2 DEF Called
<1>11. Len(stack') > 1 \/ Len(stack') = 1
  <2>1. PICK n \in Nat : n = Len(stack') /\ n >= 1
    BY <1>6
  <2>2. n > 1 \/ n = 1
    BY <2>1
  <2> QED BY <2>1, <2>2
<1> QED BY <1>8, <1>9, <1>10, <1>11

LEMMA FromDestroyAsked ==
  ASSUME TypeOK, TypeOK', NEW o \in Places, NEW m \in Modals, DestroyAsked(o, m), Next
  PROVE  Steady /\ view' = view /\ (Rest(o)' \/ Destroys(o, m)')
<1>1. /\ Len(stack) = 1 /\ stack[1] = Coming("DESTROY", m)
      /\ stack[1].at = "dispatch" /\ stack[1].type = "DESTROY" /\ stack[1].request.modal = m
  BY ComingFields, GoingFields DEF DestroyAsked, Alone
<1>2. HandleDestroy
  BY <1>1, TopRuns
<1>3. /\ \/ Popped
         \/ IndexOf(m) = 0 /\ Swapped(Pass(stack[1]))
      /\ UNCHANGED <<buffer, view, thrown, asked>>
  BY <1>1, <1>2, DestroyStep
<1>4. Settled(o) /\ Settled(o)'
  BY <1>3 DEF DestroyAsked, Settled, Holds, Only, Displayed
<1>5. CASE Popped
  BY <1>1, <1>3, <1>4, <1>5 DEF Popped, Rest, Steady
<1>6. CASE IndexOf(m) = 0 /\ Swapped(Pass(stack[1]))
  <2>1. m # o
    BY <1>4, <1>6, SpliceFirst DEF Settled
  <2>2. Alone(Going("DESTROY", m))'
    BY <1>1, <1>6, DispatchBare, PassComing DEF Swapped, Alone
  <2> QED BY <1>3, <1>4, <2>1, <2>2 DEF Destroys, Steady
<1> QED BY <1>3, <1>5, <1>6

LEMMA FromDestroys ==
  ASSUME TypeOK, TypeOK', NEW o \in Places, NEW m \in Modals, Destroys(o, m), Next
  PROVE  Steady /\ Rest(o)'
<1>1. /\ Len(stack) = 1 /\ stack[1].at = "next"
      /\ stack[1].type = "DESTROY" /\ stack[1].request.modal = m
  BY ComingFields, GoingFields DEF Destroys, Alone
<1>2. Reduce
  BY <1>1, TopRuns
<1>3. /\ view'[m] = "absent"
      /\ \A x \in Modals : x # m => view'[x] = view[x]
      /\ Popped
      /\ UNCHANGED <<buffer, thrown, asked>>
  BY <1>1, <1>2, ReduceStep
<1>4. Settled(o)'
  BY <1>3 DEF Destroys, Settled, Holds, Only, Displayed
<1> QED BY <1>1, <1>3, <1>4 DEF Popped, Rest, Steady

\* A hide leaves behind at most the destruction of the alert.
LEMMA AfterHider ==
  ASSUME NEW f, Hider(f), Popped, NEW o \in Places, Settled(o)'
  PROVE  Rest(o)' \/ DestroyAsked(o, Alert)'
<1>1. CASE Alone(f)
  BY <1>1 DEF Alone, Popped, Rest
<1>2. CASE Above(f, Coming("DESTROY", Alert))
  <2>1. Len(stack') = 1 /\ stack'[1] = Coming("DESTROY", Alert)
    BY <1>2 DEF Above, Popped
  <2> QED BY <2>1 DEF DestroyAsked, Alone
<1> QED BY <1>1, <1>2 DEF Hider

LEMMA FromHideAsked ==
  ASSUME TypeOK, TypeOK', NEW o \in Places, NEW m \in Modals, HideAsked(o, m), Next
  PROVE  /\ Steady /\ view' = view
         /\ \/ o # m /\ (Rest(o)' \/ DestroyAsked(o, Alert)')
            \/ o = m /\ HideGoes(m)'
<1>1. /\ Len(stack) \in {1, 2} /\ stack[1] = Coming("HIDE", m)
      /\ stack[1].at = "dispatch" /\ stack[1].type = "HIDE" /\ stack[1].request.modal = m
  BY ComingFields, GoingFields DEF HideAsked, Hider, Alone, Above
<1>2. HandleHide
  BY <1>1, TopRuns
<1>3. /\ HideDropped(m) \/ HideAlone(m, IndexOf(m)) \/ HideNext(m, IndexOf(m)) \/ HideThrows(m, IndexOf(m))
      /\ view' = view /\ asked' = asked
  BY <1>1, <1>2, HideStep
<1>4. Holds(o) /\ Only(o) /\ AskedHide(m)
  BY DEF HideAsked, Settled
<1>5. CASE o # m
  <2>1. HideDropped(m)
    BY <1>3, <1>4, <1>5 DEF Only, HideAlone, HideNext, HideThrows
  <2>2. Settled(o)' /\ Popped /\ thrown' = thrown
    BY <1>3, <1>4, <2>1 DEF HideDropped, Settled, Holds, Only, Displayed
  <2>3. Hider(Coming("HIDE", m))
    BY DEF HideAsked
  <2> QED BY <1>3, <1>5, <2>2, <2>3, AfterHider DEF Steady
<1>6. CASE o = m
  <2>1. IndexOf(m) = 1 /\ Spliced(1) = <<>>
    BY <1>4, <1>6, SpliceFirst
  <2>2. HideAlone(m, 1)
    BY <1>3, <1>4, <1>6, <2>1 DEF Only, HideDropped, HideNext, HideThrows
  <2>3. buffer' = <<>> /\ Swapped(Pass(stack[1])) /\ thrown' = thrown
    BY <2>1, <2>2 DEF HideAlone
  <2>4. Holds(NoModal)' /\ Only(m)' /\ AskedHide(m)'
    BY <1>3, <1>4, <1>6, <2>3 DEF Holds, Only, Displayed, AskedHide
  <2>5. Hider(Going("HIDE", m))'
    <3>1. Pass(stack[1]) = Going("HIDE", m)
      BY <1>1, DispatchBare, PassComing
    <3> QED BY <1>1, <2>3, <3>1 DEF HideAsked, Hider, Alone, Above, Swapped
  <2> QED BY <1>3, <1>6, <2>3, <2>4, <2>5 DEF HideGoes, Steady
<1> QED BY <1>5, <1>6

LEMMA FromHideGoes ==
  ASSUME TypeOK, TypeOK', NEW m \in Modals, HideGoes(m), Next
  PROVE  Steady /\ (Rest(NoModal)' \/ DestroyAsked(NoModal, Alert)')
<1>1. /\ Len(stack) \in {1, 2} /\ stack[1].at = "next"
      /\ stack[1].type = "HIDE" /\ stack[1].request.modal = m
      /\ Hider(Going("HIDE", m))
  BY ComingFields, GoingFields DEF HideGoes, Hider, Alone, Above
<1>2. Reduce
  BY <1>1, TopRuns
<1>3. /\ view'[m] = "hidden"
      /\ \A x \in Modals : x # m => view'[x] = view[x]
      /\ Popped
      /\ UNCHANGED <<buffer, thrown, asked>>
  BY <1>1, <1>2, ReduceStep
<1>4. Settled(NoModal)'
  BY <1>3 DEF HideGoes, Settled, Holds, Only, Displayed
<1> QED BY <1>1, <1>3, <1>4, AfterHider DEF Steady, Places

LEMMA FromShowAsked ==
  ASSUME TypeOK, TypeOK', NEW o \in Places, NEW r \in Modals, ShowAsked(o, r), Next
  PROVE  /\ Steady /\ view' = view
         /\ \/ o = r /\ Rest(o)'
            \/ o = NoModal /\ ShowGoes(r)'
            \/ o \in Modals /\ Yields(o, r)'
<1>1. /\ Len(stack) = 1 /\ stack[1] = Coming("SHOW", r)
      /\ stack[1].at = "dispatch" /\ stack[1].type = "SHOW"
      /\ stack[1].request = Bare(r) /\ Bare(r).modal = r
  BY ComingFields, GoingFields, BareFields DEF ShowAsked, Alone
<1>2. HandleShow
  BY <1>1, TopRuns
<1>3. /\ ShowDropped(Bare(r)) \/ ShowYields(Bare(r)) \/ ShowPasses(Bare(r))
      /\ UNCHANGED <<view, thrown, asked>>
  BY <1>1, <1>2, ShowStep
<1>4. Holds(o) /\ Only(o) /\ AskedShow(r) /\ buffer \in Seq(Requests)
  BY DEF ShowAsked, Settled, TypeOK
<1>5. Only(o)' /\ AskedShow(r)'
  BY <1>3, <1>4 DEF Only, Displayed, AskedShow
<1>6. CASE o = r
  <2>1. ShowDropped(Bare(r))
    BY <1>1, <1>3, <1>4, <1>6 DEF Only, ShowYields, ShowPasses
  <2> QED BY <1>1, <1>3, <1>4, <1>5, <1>6, <2>1 DEF ShowDropped, Popped, Rest, Settled, Holds, Steady
<1>7. CASE o # r
  <2>1. ShowYields(Bare(r)) \/ ShowPasses(Bare(r))
    BY <1>1, <1>3, <1>4, <1>7 DEF Only, ShowDropped
  <2>2. buffer' = Append(buffer, Bare(r)) /\ Bare(r) \in Requests
    BY <2>1, BareType DEF ShowYields, ShowPasses
  <2>3. CASE o = NoModal
    <3>1. buffer = <<>>
      BY <1>4, <2>3 DEF Holds
    <3>2. ShowPasses(Bare(r))
      BY <2>1, <3>1 DEF ShowYields
    <3>3. Alone(Going("SHOW", r))'
      BY <1>1, <3>2, DispatchBare, PassComing DEF ShowPasses, Swapped, Alone
    <3>4. Holds(r)'
      BY <2>2, <3>1 DEF Holds
    <3> QED BY <1>3, <1>5, <2>3, <3>3, <3>4 DEF ShowGoes, Steady
  <2>4. CASE o \in Modals
    <3>1. Len(buffer) = 1 /\ buffer[1] = Bare(o)
      BY <1>4, <2>4 DEF Holds
    <3>2. buffer # <<>> /\ buffer[1].cancellable /\ buffer[1].modal = o
      BY <3>1, BareFields
    <3>3. ShowYields(Bare(r))
      BY <2>1, <3>2 DEF ShowPasses
    <3>4. Alone(Coming("HIDE", o))'
      BY <1>1, <3>2, <3>3, DispatchBare, PassComing DEF ShowYields, Swapped, Alone
    <3>5. HoldsBoth(o, r)'
      <4>1. Len(buffer') = 2 /\ buffer'[1] = buffer[1] /\ buffer'[2] = Bare(r)
        <5> DEFINE q == Bare(r)
        <5>1. buffer' = Append(buffer, q) /\ q \in Requests
          BY <2>2
        <5> HIDE DEF q
        <5>2. Len(buffer') = Len(buffer) + 1
          BY <1>4, <5>1
        <5>3. buffer'[1] = buffer[1]
          BY <1>4, <3>1, <5>1
        <5>4. buffer'[Len(buffer) + 1] = q
          BY <1>4, <5>1
        <5> QED BY <3>1, <5>2, <5>3, <5>4 DEF q
      <4> QED BY <3>1, <4>1 DEF HoldsBoth
    <3> QED BY <1>3, <1>5, <1>7, <2>4, <3>4, <3>5 DEF Yields, Steady
  <2> QED BY <2>3, <2>4 DEF Places
<1> QED BY <1>6, <1>7

LEMMA FromShowGoes ==
  ASSUME TypeOK, TypeOK', NEW r \in Modals, ShowGoes(r), Next
  PROVE  Steady /\ Rest(r)'
<1>1. /\ Len(stack) = 1 /\ stack[1].at = "next" /\ stack[1].type = "SHOW"
      /\ stack[1].request.modal = r /\ stack[1].request.cancellable
  BY GoingFields, BareFields DEF ShowGoes, Alone
<1>2. Reduce
  BY <1>1, TopRuns
<1>3. /\ view'[r] = "shown"
      /\ \A x \in Modals : x # r => view'[x] = view[x]
      /\ Popped
      /\ UNCHANGED <<buffer, thrown, asked>>
  BY <1>1, <1>2, ReduceStep
<1>4. Settled(r)'
  BY <1>3 DEF ShowGoes, Settled, Holds, Only, Displayed
<1> QED BY <1>1, <1>3, <1>4 DEF Popped, Rest, Steady

LEMMA FromYields ==
  ASSUME TypeOK, TypeOK', NEW m \in Modals, NEW r \in Modals, Yields(m, r), Next
  PROVE  Steady /\ Again(m, r)'
<1>1. /\ Len(stack) = 1 /\ stack[1] = Coming("HIDE", m)
      /\ stack[1].at = "dispatch" /\ stack[1].type = "HIDE" /\ stack[1].request.modal = m
  BY ComingFields, GoingFields DEF Yields, Alone
<1>2. HandleHide
  BY <1>1, TopRuns
<1>3. /\ HideDropped(m) \/ HideAlone(m, IndexOf(m)) \/ HideNext(m, IndexOf(m)) \/ HideThrows(m, IndexOf(m))
      /\ view' = view /\ asked' = asked
  BY <1>1, <1>2, HideStep
<1>4. HoldsBoth(m, r) /\ Only(m) /\ m # r /\ AskedShow(r)
  BY DEF Yields
<1>5. /\ IndexOf(m) = 1 /\ Len(Spliced(1)) = 1 /\ Spliced(1)[1] = Bare(r)
      /\ Without(Spliced(1), 1) = <<>>
  BY <1>4, SpliceFirst
<1>6. HideNext(m, 1)
  BY <1>3, <1>4, <1>5 DEF Only, HideDropped, HideAlone, HideThrows
<1>7. ~Displayed(r)
  BY <1>4 DEF Only
<1>8. /\ buffer' = <<>> /\ thrown' = thrown
      /\ Pushed(Dispatch("SHOW", Bare(r)), Pass(stack[1]))
  BY <1>5, <1>6, <1>7, BareFields DEF HideNext
<1>9. Above(Coming("SHOW", r), Going("HIDE", m))'
  BY <1>1, <1>8, DispatchBare, PassComing DEF Pushed, Above
<1>10. Holds(NoModal)' /\ Only(m)' /\ AskedShow(r)'
  BY <1>3, <1>4, <1>8 DEF Holds, Only, Displayed, AskedShow
<1> QED BY <1>3, <1>4, <1>8, <1>9, <1>10 DEF Again, Steady

LEMMA FromAgain ==
  ASSUME TypeOK, TypeOK', NEW m \in Modals, NEW r \in Modals, Again(m, r), Next
  PROVE  Steady /\ Replaces(m, r)'
<1>1. /\ Len(stack) = 2 /\ stack[1] = Coming("SHOW", r) /\ stack[2] = Going("HIDE", m)
      /\ stack[1].at = "dispatch" /\ stack[1].type = "SHOW"
      /\ stack[1].request = Bare(r) /\ Bare(r).modal = r
  BY ComingFields, GoingFields, BareFields DEF Again, Above
<1>2. HandleShow
  BY <1>1, TopRuns
<1>3. /\ ShowDropped(Bare(r)) \/ ShowYields(Bare(r)) \/ ShowPasses(Bare(r))
      /\ UNCHANGED <<view, thrown, asked>>
  BY <1>1, <1>2, ShowStep
<1>4. Holds(NoModal) /\ Only(m) /\ AskedShow(r) /\ m # r /\ buffer \in Seq(Requests)
  BY DEF Again, TypeOK
<1>5. buffer = <<>>
  BY <1>4 DEF Holds
<1>6. ShowPasses(Bare(r))
  BY <1>1, <1>3, <1>4, <1>5 DEF Only, ShowDropped, ShowYields
<1>7. Above(Going("SHOW", r), Going("HIDE", m))'
  BY <1>1, <1>6, DispatchBare, PassComing DEF ShowPasses, Swapped, Above
<1>8. Holds(r)'
  BY <1>5, <1>6, BareType DEF ShowPasses, Holds
<1>9. Only(m)' /\ AskedShow(r)'
  BY <1>3, <1>4 DEF Only, Displayed, AskedShow
<1> QED BY <1>3, <1>4, <1>7, <1>8, <1>9 DEF Replaces, Steady

LEMMA FromReplaces ==
  ASSUME TypeOK, TypeOK', NEW m \in Modals, NEW r \in Modals, Replaces(m, r), Next
  PROVE  Steady /\ Leaves(m, r)'
<1>1. /\ Len(stack) = 2 /\ stack[1].at = "next" /\ stack[1].type = "SHOW"
      /\ stack[1].request.modal = r /\ stack[1].request.cancellable
      /\ stack[2] = Going("HIDE", m)
  BY GoingFields, BareFields DEF Replaces, Above
<1>2. Reduce
  BY <1>1, TopRuns
<1>3. /\ view'[r] = "shown"
      /\ \A x \in Modals : x # r => view'[x] = view[x]
      /\ Popped
      /\ UNCHANGED <<buffer, thrown, asked>>
  BY <1>1, <1>2, ReduceStep
<1>4. Holds(r)' /\ Both(m, r)' /\ m # r /\ AskedShow(r)'
  BY <1>3 DEF Replaces, Holds, Only, Both, Displayed, AskedShow
<1>5. Alone(Going("HIDE", m))'
  BY <1>1, <1>3 DEF Popped, Alone
<1> QED BY <1>3, <1>4, <1>5 DEF Leaves, Steady

LEMMA FromLeaves ==
  ASSUME TypeOK, TypeOK', NEW m \in Modals, NEW r \in Modals, Leaves(m, r), Next
  PROVE  Steady /\ Rest(r)'
<1>1. /\ Len(stack) = 1 /\ stack[1].at = "next"
      /\ stack[1].type = "HIDE" /\ stack[1].request.modal = m
  BY ComingFields, GoingFields DEF Leaves, Alone
<1>2. Reduce
  BY <1>1, TopRuns
<1>3. /\ view'[m] = "hidden"
      /\ \A x \in Modals : x # m => view'[x] = view[x]
      /\ Popped
      /\ UNCHANGED <<buffer, thrown, asked>>
  BY <1>1, <1>2, ReduceStep
<1>4. Settled(r)'
  BY <1>3 DEF Leaves, Settled, Holds, Both, Only, Displayed
<1> QED BY <1>1, <1>3, <1>4 DEF Popped, Rest, Steady

PhaseInv == Phase /\ ~thrown

LEMMA PhaseStep ==
  ASSUME Locking = {}, TypeOK, TypeOK', PhaseInv, [Next]_vars
  PROVE  PhaseInv'
<1>1. CASE UNCHANGED vars
  BY <1>1
     DEF vars, PhaseInv, Phase, Rest, DestroyAsked, Destroys, HideAsked, ShowAsked, HideGoes, ShowGoes,
         Yields, Again, Replaces, Leaves, Hider, Alone, Above, Settled, Holds, HoldsBoth,
         Only, Both, Displayed, AskedShow, AskedHide
<1>2. CASE Next
  <2>0. ~thrown /\ Phase /\ NoModal \in Places /\ Alert \in Modals
    BY DEF PhaseInv, Places
  <2> SUFFICES Phase' /\ thrown' = thrown
    BY <2>0 DEF PhaseInv
  <2>1. ASSUME NEW o \in Places, Rest(o) PROVE Phase' /\ thrown' = thrown
    BY <1>2, <2>1, FromRest DEF Phase
  <2>2. ASSUME NEW o \in Places, NEW m \in Modals,
               DestroyAsked(o, m) \/ Destroys(o, m) \/ HideAsked(o, m) \/ ShowAsked(o, m)
        PROVE  Phase' /\ thrown' = thrown
    <3>1. CASE DestroyAsked(o, m)
      BY <1>2, <3>1, FromDestroyAsked DEF Phase, Steady
    <3>2. CASE Destroys(o, m)
      BY <1>2, <3>2, FromDestroys DEF Phase, Steady
    <3>3. CASE HideAsked(o, m)
      BY <1>2, <2>0, <3>3, FromHideAsked DEF Phase, Steady
    <3>4. CASE ShowAsked(o, m)
      BY <1>2, <3>4, FromShowAsked DEF Phase, Steady
    <3> QED BY <2>2, <3>1, <3>2, <3>3, <3>4
  <2>3. ASSUME NEW m \in Modals, HideGoes(m) \/ ShowGoes(m)
        PROVE  Phase' /\ thrown' = thrown
    <3>1. CASE HideGoes(m)
      BY <1>2, <2>0, <3>1, FromHideGoes DEF Phase, Steady
    <3>2. CASE ShowGoes(m)
      BY <1>2, <3>2, FromShowGoes DEF Phase, Steady, Places
    <3> QED BY <2>3, <3>1, <3>2
  <2>4. ASSUME NEW m \in Modals, NEW r \in Modals,
               Yields(m, r) \/ Again(m, r) \/ Replaces(m, r) \/ Leaves(m, r)
        PROVE  Phase' /\ thrown' = thrown
    <3>1. CASE Yields(m, r)
      BY <1>2, <3>1, FromYields DEF Phase, Steady
    <3>2. CASE Again(m, r)
      BY <1>2, <3>2, FromAgain DEF Phase, Steady
    <3>3. CASE Replaces(m, r)
      BY <1>2, <3>3, FromReplaces DEF Phase, Steady
    <3>4. CASE Leaves(m, r)
      BY <1>2, <3>4, FromLeaves DEF Phase, Steady, Places
    <3> QED BY <2>4, <3>1, <3>2, <3>3, <3>4
  <2> QED BY <2>0, <2>1, <2>2, <2>3, <2>4 DEF Phase
<1> QED BY <1>1, <1>2

LEMMA PhaseInit == Init => PhaseInv
<1> SUFFICES ASSUME Init PROVE PhaseInv
  OBVIOUS
<1>1. Len(buffer) = 0 /\ Len(stack) = 0 /\ ~thrown /\ \A m \in Modals : view[m] = "absent"
  BY DEF Init
<1>2. Rest(NoModal)
  BY <1>1 DEF Rest, Settled, Holds, Only, Displayed
<1> QED BY <1>1, <1>2 DEF PhaseInv, Phase, Places

\* Nothing but Rest leaves the call stack empty.
LEMMA PhaseQuiet ==
  ASSUME TypeOK, Phase, Quiet
  PROVE  \E o \in Places : Rest(o)
<1>1. Len(stack) = 0
  BY DEF Quiet
<1> QED
  BY <1>1 DEF Phase, DestroyAsked, Destroys, HideAsked, ShowAsked, HideGoes, ShowGoes,
              Yields, Again, Replaces, Leaves, Hider, Alone, Above

\* modalMiddleware.ts:18-66: as long as every request is cancellable, the
\* buffer holds, between two calls, the request of the dialog displayed and
\* nothing else.
THEOREM SingleDialogAlways == Locking = {} => (Spec => []SingleDialog)
<1> SUFFICES ASSUME Locking = {} PROVE Spec => []SingleDialog
  OBVIOUS
<1>1. TypeOK /\ TypeOK' /\ PhaseInv /\ [Next]_vars => PhaseInv'
  BY PhaseStep
<1>2. TypeOK /\ PhaseInv => SingleDialog
  <2> SUFFICES ASSUME TypeOK, PhaseInv, Quiet
               PROVE  /\ Len(buffer) <= 1
                      /\ {m \in Modals : Displayed(m)} = {buffer[i].modal : i \in DOMAIN buffer}
    BY DEF SingleDialog
  <2>1. PICK o \in Places : Holds(o) /\ Only(o)
    BY PhaseQuiet DEF PhaseInv, Rest, Settled
  <2>2. buffer \in Seq(Requests) /\ DOMAIN buffer = 1 .. Len(buffer)
    BY DEF TypeOK
  <2>3. CASE o = NoModal
    BY <2>1, <2>2, <2>3 DEF Holds, Only
  <2>4. CASE o # NoModal
    <3>1. Len(buffer) = 1 /\ buffer[1].modal = o /\ o \in Modals
      BY <2>1, <2>4, BareFields DEF Holds, Places
    <3>2. {buffer[i].modal : i \in DOMAIN buffer} = {o}
      BY <2>2, <3>1
    <3> QED BY <2>1, <3>1, <3>2 DEF Only
  <2> QED BY <2>3, <2>4
<1> QED BY <1>1, <1>2, PhaseInit, TypeCorrect, PTL DEF Spec

\* modalMiddleware.ts:41-45: as long as every request is cancellable, the
\* nested dispatches never index the buffer out of its bounds.
THEOREM NoTypeErrorAlways == Locking = {} => (Spec => []NoTypeError)
<1> SUFFICES ASSUME Locking = {} PROVE Spec => []NoTypeError
  OBVIOUS
<1>1. TypeOK /\ TypeOK' /\ PhaseInv /\ [Next]_vars => PhaseInv'
  BY PhaseStep
<1>2. PhaseInv => NoTypeError
  BY DEF PhaseInv, NoTypeError
<1> QED BY <1>1, <1>2, PhaseInit, TypeCorrect, PTL DEF Spec

\* From the call of a show to its end.
Serving(r) ==
  \/ \E o \in Places : ShowAsked(o, r)
  \/ ShowGoes(r)
  \/ \E m \in Modals : Yields(m, r) \/ Again(m, r) \/ Replaces(m, r) \/ Leaves(m, r)
  \/ Rest(r)

ShowInv == asked.type = "SHOW" => \E r \in Modals : asked = Coming("SHOW", r) /\ Serving(r)

LEMMA ServingGoesOn ==
  ASSUME TypeOK, TypeOK', NEW r \in Modals, Serving(r), stack # <<>>, Next
  PROVE  Steady /\ Serving(r)'
<1>1. ASSUME NEW o \in Places, ShowAsked(o, r) PROVE Steady /\ Serving(r)'
  BY <1>1, FromShowAsked DEF Serving
<1>2. ASSUME ShowGoes(r) PROVE Steady /\ Serving(r)'
  BY <1>2, FromShowGoes DEF Serving
<1>3. ASSUME NEW m \in Modals, Yields(m, r) PROVE Steady /\ Serving(r)'
  BY <1>3, FromYields DEF Serving
<1>4. ASSUME NEW m \in Modals, Again(m, r) PROVE Steady /\ Serving(r)'
  BY <1>4, FromAgain DEF Serving
<1>5. ASSUME NEW m \in Modals, Replaces(m, r) PROVE Steady /\ Serving(r)'
  BY <1>5, FromReplaces DEF Serving
<1>6. ASSUME NEW m \in Modals, Leaves(m, r) PROVE Steady /\ Serving(r)'
  BY <1>6, FromLeaves DEF Serving
<1>7. ~Rest(r)
  BY Lengths DEF Rest
<1> QED BY <1>1, <1>2, <1>3, <1>4, <1>5, <1>6, <1>7 DEF Serving

\* What a caller asks for is the frame it dispatches.
LEMMA ServingBegins ==
  ASSUME Locking = {}, TypeOK, TypeOK', Phase, stack = <<>>, Next, asked'.type = "SHOW"
  PROVE  \E r \in Modals : asked' = Coming("SHOW", r) /\ Serving(r)'
<1>1. Called
  BY EnvironmentStep, ShowStep, HideStep, DestroyStep, ReduceStep DEF Next, Middleware
<1>2. PICK o \in Places : Rest(o)
  BY PhaseQuiet DEF Quiet
<1>3. PICK m \in Modals : DestroyAsked(o, m)' \/ HideAsked(o, m)' \/ ShowAsked(o, m)'
  BY <1>2, FromRest
<1>4. ~HideAsked(o, m)'
  BY ComingFields DEF HideAsked, AskedHide
<1>5. ~DestroyAsked(o, m)'
  BY <1>1, ComingFields DEF Called, DestroyAsked, Alone
<1> QED BY <1>3, <1>4, <1>5 DEF ShowAsked, AskedShow, Serving

LEMMA ShowInvStep ==
  ASSUME Locking = {}, TypeOK, TypeOK', Phase, ShowInv, [Next]_vars
  PROVE  ShowInv'
<1>1. CASE UNCHANGED vars
  BY <1>1
     DEF vars, ShowInv, Serving, Rest, ShowAsked, ShowGoes, Yields, Again, Replaces, Leaves,
         Alone, Above, Settled, Holds, HoldsBoth, Only, Both, Displayed, AskedShow
<1>2. CASE Next /\ stack = <<>>
  BY <1>2, ServingBegins DEF ShowInv
<1>3. CASE Next /\ stack # <<>>
  <2>1. asked' = asked
    BY <1>3, EnvironmentStep, ShowStep, HideStep, DestroyStep, ReduceStep
       DEF Called, Next, Middleware
  <2>2. ASSUME asked.type = "SHOW"
        PROVE  \E r \in Modals : asked = Coming("SHOW", r) /\ Serving(r)'
    BY <1>3, <2>2, ServingGoesOn DEF ShowInv
  <2> QED BY <2>1, <2>2 DEF ShowInv
<1> QED BY <1>1, <1>2, <1>3

\* modalMiddleware.ts:24: as long as every request is cancellable, a show
\* that has returned displays its dialog.  A locked alert is what it takes to
\* lose one.
THEOREM ShowServedAlways == Locking = {} => (Spec => []ShowServed)
<1> SUFFICES ASSUME Locking = {} PROVE Spec => []ShowServed
  OBVIOUS
<1>1. TypeOK /\ TypeOK' /\ PhaseInv /\ [Next]_vars => PhaseInv'
  BY PhaseStep
<1>2. TypeOK /\ TypeOK' /\ PhaseInv /\ ShowInv /\ [Next]_vars => ShowInv'
  BY ShowInvStep DEF PhaseInv
<1>3. Init => ShowInv
  <2>1. Init => asked.type = "DESTROY"
    BY DispatchFields DEF Init
  <2> QED BY <2>1 DEF ShowInv
<1>4. TypeOK /\ ShowInv => ShowServed
  <2> SUFFICES ASSUME TypeOK, ShowInv, Quiet, asked.type = "SHOW"
               PROVE  Displayed(asked.request.modal)
    BY DEF ShowServed
  <2>1. PICK r \in Modals : asked = Coming("SHOW", r) /\ Serving(r)
    BY DEF ShowInv
  <2>2. Len(stack) = 0
    BY DEF Quiet
  <2>3. Rest(r)
    BY <2>1, <2>2 DEF Serving, ShowAsked, ShowGoes, Yields, Again, Replaces, Leaves, Alone, Above
  <2>4. asked.request.modal = r
    BY <2>1, ComingFields
  <2> QED BY <2>3, <2>4 DEF Rest, Settled, Only
<1> QED BY <1>1, <1>2, <1>3, <1>4, PhaseInit, TypeCorrect, PTL DEF Spec

-----------------------------------------------------------------------------
(* The middleware implements the single place for a dialog.                *)

Pending == IF Served THEN [type |-> "IDLE", modal |-> NoModal]
           ELSE [type |-> asked.type, modal |-> asked.request.modal]

Free(o) == Front = o /\ Pending = [type |-> "IDLE", modal |-> NoModal]
Busy(o, t, m) == Front = o /\ Pending = [type |-> t, modal |-> m]

\* What the state of each phase stands for.
StandsFor ==
  /\ \A o \in Places : Rest(o) => Free(o)
  /\ \A o \in Places, m \in Modals :
       /\ DestroyAsked(o, m) \/ Destroys(o, m) => Free(o)
       /\ HideAsked(o, m) => Busy(o, "HIDE", m)
       /\ ShowAsked(o, m) => Busy(o, "SHOW", m)
  /\ \A m \in Modals : HideGoes(m) => Busy(m, "HIDE", m)
  /\ \A m \in Modals : ShowGoes(m) => Busy(NoModal, "SHOW", m)
  /\ \A m, r \in Modals :
       Yields(m, r) \/ Again(m, r) \/ Replaces(m, r) \/ Leaves(m, r) => Busy(m, "SHOW", r)

LEMMA FrontOnly ==
  ASSUME NEW o \in Places, Only(o)
  PROVE  Front = o
<1> DEFINE shown == {m \in Modals : Displayed(m)}
           old == {m \in shown : buffer = <<>> \/ m # buffer[Len(buffer)].modal}
<1>1. CASE o = NoModal
  <2>1. shown = {}
    BY <1>1 DEF Only
  <2>2. old = {}
    BY <2>1
  <2> QED BY <1>1, <2>1, <2>2 DEF Front
<1>2. CASE o \in Modals
  <2>1. shown = {o}
    BY <1>2 DEF Only
  <2>2. old = {} \/ old = {o}
    BY <2>1
  <2> QED BY <2>1, <2>2 DEF Front
<1> QED BY <1>1, <1>2 DEF Places

LEMMA FrontBoth ==
  ASSUME NEW m \in Modals, NEW r \in Modals, m # r, Both(m, r), Holds(r)
  PROVE  Front = m
<1> DEFINE shown == {x \in Modals : Displayed(x)}
           old == {x \in shown : buffer = <<>> \/ x # buffer[Len(buffer)].modal}
<1>1. Len(buffer) = 1 /\ buffer[1].modal = r
  BY BareFields DEF Holds
<1>2. shown = {m, r}
  BY DEF Both
<1>3. old = {m}
  BY <1>1, <1>2
<1> QED BY <1>3 DEF Front

LEMMA StandsForAlways == TypeOK => StandsFor
<1> SUFFICES ASSUME TypeOK PROVE StandsFor
  OBVIOUS
<1>0. DOMAIN stack = 1 .. Len(stack) /\ Len(stack) \in Nat
  BY DEF TypeOK
<1>1. ASSUME Len(stack) = 0 PROVE Served
  BY <1>0, <1>1 DEF Served
<1>2. ASSUME Len(stack) = 1, stack[1].type = "DESTROY" PROVE Served
  BY <1>0, <1>2 DEF Served
<1>3. ASSUME Len(stack) > 0, stack[1].type # "DESTROY", NEW t, NEW m, asked = Coming(t, m)
      PROVE  Pending = [type |-> t, modal |-> m]
  <2>1. ~Served
    BY <1>0, <1>3 DEF Served
  <2>2. asked.type = t /\ asked.request.modal = m
    BY <1>3, ComingFields
  <2> QED BY <2>1, <2>2 DEF Pending
<1>4. ASSUME NEW f, Alone(f) \/ Hider(f) \/ \E g : Above(f, g) PROVE Len(stack) > 0 /\ stack[1] = f
  BY <1>4 DEF Alone, Hider, Above
<1>5. ASSUME NEW o \in Places, Rest(o) PROVE Free(o)
  BY <1>1, <1>5, FrontOnly DEF Rest, Settled, Free, Pending
<1>6. ASSUME NEW o \in Places, NEW m \in Modals, DestroyAsked(o, m) \/ Destroys(o, m) PROVE Free(o)
  <2>1. Len(stack) = 1 /\ stack[1].type = "DESTROY" /\ Only(o)
    BY <1>6, ComingFields, GoingFields DEF DestroyAsked, Destroys, Alone, Settled
  <2> QED BY <1>2, <2>1, FrontOnly DEF Free, Pending
<1>7. ASSUME NEW o \in Places, NEW m \in Modals, HideAsked(o, m) PROVE Busy(o, "HIDE", m)
  <2>1. Len(stack) > 0 /\ stack[1].type = "HIDE" /\ asked = Coming("HIDE", m) /\ Only(o)
    BY <1>4, <1>7, ComingFields DEF HideAsked, AskedHide, Settled
  <2> QED BY <1>3, <2>1, FrontOnly DEF Busy
<1>8. ASSUME NEW o \in Places, NEW m \in Modals, ShowAsked(o, m) PROVE Busy(o, "SHOW", m)
  <2>1. Len(stack) > 0 /\ stack[1].type = "SHOW" /\ asked = Coming("SHOW", m) /\ Only(o)
    BY <1>4, <1>8, ComingFields DEF ShowAsked, AskedShow, Settled
  <2> QED BY <1>3, <2>1, FrontOnly DEF Busy
<1>9. ASSUME NEW m \in Modals, HideGoes(m) PROVE Busy(m, "HIDE", m)
  <2>1. Len(stack) > 0 /\ stack[1].type = "HIDE" /\ asked = Coming("HIDE", m) /\ Only(m)
    BY <1>4, <1>9, GoingFields DEF HideGoes, AskedHide
  <2> QED BY <1>3, <2>1, FrontOnly DEF Busy, Places
<1>10. ASSUME NEW m \in Modals, ShowGoes(m) PROVE Busy(NoModal, "SHOW", m)
  <2>1. Len(stack) > 0 /\ stack[1].type = "SHOW" /\ asked = Coming("SHOW", m) /\ Only(NoModal)
    BY <1>4, <1>10, GoingFields DEF ShowGoes, AskedShow
  <2> QED BY <1>3, <2>1, FrontOnly DEF Busy, Places
<1>11. ASSUME NEW m \in Modals, NEW r \in Modals,
              Yields(m, r) \/ Again(m, r) \/ Replaces(m, r) \/ Leaves(m, r)
       PROVE  Busy(m, "SHOW", r)
  <2>1. asked = Coming("SHOW", r) /\ m # r
    BY <1>11 DEF Yields, Again, Replaces, Leaves, AskedShow
  <2>2. Len(stack) > 0 /\ stack[1].type \in {"SHOW", "HIDE"}
    <3>1. PICK f \in {Coming("HIDE", m), Coming("SHOW", r), Going("SHOW", r), Going("HIDE", m)} :
            Alone(f) \/ \E g : Above(f, g)
      BY <1>11 DEF Yields, Again, Replaces, Leaves
    <3>2. f.type \in {"SHOW", "HIDE"}
      BY ComingFields, GoingFields
    <3> QED BY <1>4, <3>1, <3>2
  <2>3. Front = m
    <3>1. CASE Only(m)
      BY <3>1, FrontOnly DEF Places
    <3>2. CASE Leaves(m, r)
      BY <3>2, FrontBoth DEF Leaves
    <3> QED BY <1>11, <3>1, <3>2 DEF Yields, Again, Replaces
  <2> QED BY <1>3, <2>1, <2>2, <2>3 DEF Busy
<1> QED BY <1>5, <1>6, <1>7, <1>8, <1>9, <1>10, <1>11 DEF StandsFor

\* The steps of the place: nothing, a request, its service.
SlotNext == [Slot!Next]_(Slot!slot)

LEMMA SlotStays ==
  ASSUME Front' = Front, Pending' = Pending
  PROVE  SlotNext
  BY DEF SlotNext, Slot!slot, Pending

LEMMA SlotAsks ==
  ASSUME NEW o, NEW t \in {"SHOW", "HIDE"}, NEW m \in Modals, Free(o), Busy(o, t, m)'
  PROVE  SlotNext
<1> DEFINE r == [type |-> t, modal |-> m]
<1>1. r \in Slot!Requests
  BY DEF Slot!Requests
<1>2. Slot!Ask(r)
  BY DEF Slot!Ask, Slot!Idle, Free, Busy, Pending
<1> QED BY <1>1, <1>2 DEF SlotNext, Slot!Next

LEMMA SlotServes ==
  ASSUME NEW o, NEW t \in {"SHOW", "HIDE"}, NEW m \in Modals, NEW p, Busy(o, t, m), Free(p)',
         t = "SHOW" => p = m,
         t = "HIDE" => p = IF o = m THEN NoModal ELSE o
  PROVE  SlotNext
<1>1. /\ Front = o /\ Pending = [type |-> t, modal |-> m]
      /\ Front' = p /\ Pending' = [type |-> "IDLE", modal |-> NoModal]
  BY DEF Free, Busy
<1>2. Pending.type = t /\ Pending.modal = m /\ Pending # [type |-> "IDLE", modal |-> NoModal]
  BY <1>1
<1>3. Slot!Serve
  <2>1. CASE t = "SHOW"
    BY <1>1, <1>2, <2>1 DEF Slot!Serve, Slot!Idle, Pending
  <2>2. CASE t = "HIDE"
    BY <1>1, <1>2, <2>2 DEF Slot!Serve, Slot!Idle, Pending
  <2> QED BY <2>1, <2>2
<1> QED BY <1>3 DEF SlotNext, Slot!Next

LEMMA SlotStep ==
  ASSUME Locking = {}, TypeOK, TypeOK', StandsFor, StandsFor', Phase, [Next]_vars
  PROVE  SlotNext
<1>1. CASE UNCHANGED vars
  BY <1>1, SlotStays DEF vars, Front, Pending, Served, Displayed
<1> SUFFICES ASSUME Next PROVE SlotNext
  BY <1>1
<1>0. NoModal \in Places /\ Alert \in Modals /\ Modals \subseteq Places
  BY DEF Places
<1>2. /\ \A o \in Places : Rest(o)' => Free(o)'
      /\ \A o \in Places, m \in Modals :
           /\ DestroyAsked(o, m)' \/ Destroys(o, m)' => Free(o)'
           /\ HideAsked(o, m)' => Busy(o, "HIDE", m)'
           /\ ShowAsked(o, m)' => Busy(o, "SHOW", m)'
      /\ \A m \in Modals : HideGoes(m)' => Busy(m, "HIDE", m)'
      /\ \A m \in Modals : ShowGoes(m)' => Busy(NoModal, "SHOW", m)'
      /\ \A m, r \in Modals :
           Yields(m, r)' \/ Again(m, r)' \/ Replaces(m, r)' \/ Leaves(m, r)' => Busy(m, "SHOW", r)'
  BY DEF StandsFor
<1>3. ASSUME NEW o, Free(o), Free(o)' PROVE SlotNext
  BY <1>3, SlotStays DEF Free
<1>4. ASSUME NEW o, NEW t, NEW m, Busy(o, t, m), Busy(o, t, m)' PROVE SlotNext
  BY <1>4, SlotStays DEF Busy
<1>5. ASSUME NEW o \in Places, Rest(o) PROVE SlotNext
  <2>1. Free(o)
    BY <1>5 DEF StandsFor
  <2>2. PICK m \in Modals : DestroyAsked(o, m)' \/ HideAsked(o, m)' \/ ShowAsked(o, m)'
    BY <1>5, FromRest
  <2> QED BY <1>2, <1>3, <2>1, <2>2, SlotAsks
<1>6. ASSUME NEW o \in Places, NEW m \in Modals, DestroyAsked(o, m) PROVE SlotNext
  <2>1. Free(o)
    BY <1>6 DEF StandsFor
  <2>2. Rest(o)' \/ Destroys(o, m)'
    BY <1>6, FromDestroyAsked
  <2> QED BY <1>2, <1>3, <2>1, <2>2
<1>7. ASSUME NEW o \in Places, NEW m \in Modals, Destroys(o, m) PROVE SlotNext
  <2>1. Free(o)
    BY <1>7 DEF StandsFor
  <2>2. Rest(o)'
    BY <1>7, FromDestroys
  <2> QED BY <1>2, <1>3, <2>1, <2>2
<1>8. ASSUME NEW o \in Places, NEW m \in Modals, HideAsked(o, m) PROVE SlotNext
  <2>1. Busy(o, "HIDE", m)
    BY <1>8 DEF StandsFor
  <2>2. \/ o # m /\ (Rest(o)' \/ DestroyAsked(o, Alert)')
        \/ o = m /\ HideGoes(m)'
    BY <1>8, FromHideAsked
  <2>3. CASE o # m
    <3>1. Free(o)'
      BY <1>0, <1>2, <2>2, <2>3
    <3> QED BY <2>1, <2>3, <3>1, SlotServes
  <2>4. CASE o = m
    BY <1>2, <1>4, <2>1, <2>2, <2>4
  <2> QED BY <2>3, <2>4
<1>9. ASSUME NEW m \in Modals, HideGoes(m) PROVE SlotNext
  <2>1. Busy(m, "HIDE", m)
    BY <1>9 DEF StandsFor
  <2>2. Free(NoModal)'
    BY <1>0, <1>2, <1>9, FromHideGoes
  <2> QED BY <2>1, <2>2, SlotServes
<1>10. ASSUME NEW o \in Places, NEW r \in Modals, ShowAsked(o, r) PROVE SlotNext
  <2>1. Busy(o, "SHOW", r)
    BY <1>10 DEF StandsFor
  <2>2. \/ o = r /\ Rest(o)'
        \/ o = NoModal /\ ShowGoes(r)'
        \/ o \in Modals /\ Yields(o, r)'
    BY <1>10, FromShowAsked
  <2>3. CASE o = r /\ Rest(o)'
    <3>1. Free(r)'
      BY <1>2, <2>3
    <3> QED BY <2>1, <3>1, SlotServes
  <2>4. CASE (o = NoModal /\ ShowGoes(r)') \/ (o \in Modals /\ Yields(o, r)')
    <3>1. Busy(o, "SHOW", r)'
      BY <1>2, <2>4
    <3> QED BY <1>4, <2>1, <3>1
  <2> QED BY <2>2, <2>3, <2>4
<1>11. ASSUME NEW r \in Modals, ShowGoes(r) PROVE SlotNext
  <2>1. Busy(NoModal, "SHOW", r)
    BY <1>11 DEF StandsFor
  <2>2. Free(r)'
    BY <1>0, <1>2, <1>11, FromShowGoes
  <2> QED BY <2>1, <2>2, SlotServes
<1>12. ASSUME NEW m \in Modals, NEW r \in Modals, Yields(m, r) \/ Again(m, r) \/ Replaces(m, r)
       PROVE  SlotNext
  <2>1. Busy(m, "SHOW", r)
    BY <1>12 DEF StandsFor
  <2>2. Again(m, r)' \/ Replaces(m, r)' \/ Leaves(m, r)'
    BY <1>12, FromYields, FromAgain, FromReplaces
  <2>3. Busy(m, "SHOW", r)'
    BY <1>2, <2>2
  <2> QED BY <1>4, <2>1, <2>3
<1>13. ASSUME NEW m \in Modals, NEW r \in Modals, Leaves(m, r) PROVE SlotNext
  <2>1. Busy(m, "SHOW", r)
    BY <1>13 DEF StandsFor
  <2>2. Free(r)'
    BY <1>0, <1>2, <1>13, FromLeaves
  <2> QED BY <2>1, <2>2, SlotServes
<1> QED BY <1>5, <1>6, <1>7, <1>8, <1>9, <1>10, <1>11, <1>12, <1>13 DEF Phase

\* modalMiddleware.ts:7-66: as long as every request is cancellable, each
\* step of the middleware is a step of the single place for a dialog: it takes
\* a request, serves it as DialogSlot says, or changes nothing there.  That
\* every request is served in the end is ServesSlot's fairness.
THEOREM ServesSlotStepwise ==
  Locking = {} => (Spec => Slot!Init /\ [][Slot!Next]_(Slot!slot))
<1> SUFFICES ASSUME Locking = {} PROVE Spec => Slot!Init /\ [][Slot!Next]_(Slot!slot)
  OBVIOUS
<1>1. TypeOK /\ TypeOK' /\ PhaseInv /\ [Next]_vars => PhaseInv'
  BY PhaseStep
<1>2. Init => Slot!Init
  <2> SUFFICES ASSUME Init PROVE Slot!Init
    OBVIOUS
  <2>1. Only(NoModal) /\ Served
    BY DEF Init, Only, Displayed, Served
  <2>2. Front = NoModal
    BY <2>1, FrontOnly DEF Places
  <2> QED BY <2>1, <2>2 DEF Slot!Init, Slot!Idle
<1>3. TypeOK /\ TypeOK' /\ StandsFor /\ StandsFor' /\ PhaseInv /\ [Next]_vars
      => [Slot!Next]_(Slot!slot)
  BY SlotStep DEF PhaseInv, SlotNext
<1> QED BY <1>1, <1>2, <1>3, PhaseInit, TypeCorrect, StandsForAlways, PTL DEF Spec
=============================================================================
