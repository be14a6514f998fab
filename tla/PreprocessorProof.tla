------------------------- MODULE PreprocessorProof -------------------------
(***************************************************************************)
(* Proofs about the preprocessor, for all limits, macros, resolvers and    *)
(* #line directives, any number of inputs of any length:                   *)
(*   - the include stack and the stack of open groups fit together;        *)
(*   - no source is read within itself;                                    *)
(*   - conditional directives belong to groups of their own buffer;        *)
(*   - the output has the selected texts, each from where it was written;  *)
(*   - what is written is within the budget of the request.                *)
(* The last three relate the stacks to the log: what they hold is what     *)
(* SelectedLines says of the lines read so far (LInv, Faithful).           *)
(***************************************************************************)
EXTENDS Preprocessor, RecursionLemmas, SequenceTheorems, TLAPS

Buffers == [id : Nat, file : Name, name : Name, line : Nat, left : Nat,
            active : BOOLEAN, base : Nat]
Groups == [parentActive : BOOLEAN, branchTaken : BOOLEAN, elseSeen : BOOLEAN]

\* Every variable holds what it should.
Types ==
  /\ stack \in Seq(Buffers) /\ conditionals \in Seq(Groups)
  /\ macros \subseteq Macro
  /\ length \in Nat /\ input \in Nat /\ preprocessedBytes \in Nat
  /\ inputBytes \in Nat /\ inputBytes <= MaxInput
  /\ includeFileCount \in Nat /\ includeFileCount <= MaxFiles
  /\ Len(stack) <= MaxDepth + 1

\* The groups of a buffer, up to end, are nested in one another: each was
\* opened in a branch taken of the one around it, and the buffer is active
\* only in a branch taken of the innermost.
Nested(buffer, end, groups) ==
  /\ buffer.base <= end
  /\ buffer.base = end => buffer.active
  /\ buffer.base < end => groups[buffer.base + 1].parentActive
  /\ \A k \in buffer.base + 1 .. end - 1 :
       groups[k + 1].parentActive => groups[k].parentActive /\ groups[k].branchTaken
  /\ buffer.active /\ buffer.base < end =>
       groups[end].parentActive /\ groups[end].branchTaken

EndIn(buffers, groups, i) ==
  IF i = Len(buffers) THEN Len(groups) ELSE buffers[i + 1].base

\* The strengthening: bases grow with the stack, the groups of every buffer
\* are nested, and all buffers but the last are active and at a line.
Sound(buffers, groups) ==
  /\ \A i \in 1 .. Len(buffers) : buffers[i].base <= Len(groups)
  /\ \A i, j \in 1 .. Len(buffers) : i <= j => buffers[i].base <= buffers[j].base
  /\ \A i \in 1 .. Len(buffers) : Nested(buffers[i], EndIn(buffers, groups, i), groups)
  /\ \A i \in 1 .. Len(buffers) : i < Len(buffers) => buffers[i].active /\ buffers[i].left > 0

IInv ==
  /\ Types
  /\ failure = "none" => Sound(stack, conditionals)
  /\ NoSourceWithinItself

-----------------------------------------------------------------------------
(* Sequences.                                                              *)

(***************************************************************************)
(* The last element of a sequence is one of its elements.                  *)
(***************************************************************************)
LEMMA LastFacts ==
  ASSUME NEW S, NEW s \in Seq(S), s # << >>
  PROVE  /\ Len(s) \in Nat \ {0} /\ Last(s) = s[Len(s)] /\ Last(s) \in S
BY DEF Last

(***************************************************************************)
(* The last element popped leaves the others, as when f2c_preprocessor_    *)
(* process_buffer returns.                                                 *)
(***************************************************************************)
LEMMA FrontFacts ==
  ASSUME NEW S, NEW s \in Seq(S), s # << >>
  PROVE  /\ Front(s) \in Seq(S) /\ Len(Front(s)) = Len(s) - 1
         /\ \A i \in 1 .. Len(s) - 1 : Front(s)[i] = s[i]
<1> DEFINE n == Len(s) - 1
<1>1. n \in Nat /\ \A i \in 1 .. n : s[i] \in S
  BY LastFacts
<1>2. /\ SubSeq(s, 1, n) \in Seq(S) /\ Len(SubSeq(s, 1, n)) = n
      /\ \A i \in 1 .. n : SubSeq(s, 1, n)[i] = s[i]
  <2>1. /\ SubSeq(s, 1, n) \in Seq(S) /\ Len(SubSeq(s, 1, n)) = IF 1 <= n THEN n - 1 + 1 ELSE 0
        /\ \A i \in 1 .. n - 1 + 1 : SubSeq(s, 1, n)[i] = s[1 + i - 1]
    BY <1>1, SubSeqProperties
  <2> HIDE DEF n
  <2> QED BY <1>1, <2>1
<1> QED BY <1>2 DEF Front

(***************************************************************************)
(* Replacing the last element changes nothing else; WithTop stands for the *)
(* updates of fields of the preprocessor's state.                          *)
(***************************************************************************)
LEMMA WithTopFacts ==
  ASSUME NEW S, NEW s \in Seq(S), NEW e \in S, s # << >>
  PROVE  /\ WithTop(s, e) \in Seq(S) /\ WithTop(s, e) # << >>
         /\ Len(WithTop(s, e)) = Len(s)
         /\ \A i \in 1 .. Len(s) : WithTop(s, e)[i] = IF i = Len(s) THEN e ELSE s[i]
<1> DEFINE front == Front(s)
<1>1. /\ front \in Seq(S) /\ Len(front) = Len(s) - 1 /\ Len(s) \in Nat
      /\ \A i \in 1 .. Len(s) - 1 : front[i] = s[i]
  BY FrontFacts
<1> HIDE DEF front
<1>2. /\ Append(front, e) \in Seq(S) /\ Len(Append(front, e)) = Len(s)
      /\ \A i \in 1 .. Len(s) : Append(front, e)[i] = IF i = Len(s) THEN e ELSE s[i]
  BY <1>1
<1>3. Append(front, e) # << >>
  BY <1>2
<1> QED BY <1>2, <1>3 DEF WithTop, front

-----------------------------------------------------------------------------
(* The stacks.                                                             *)

(***************************************************************************)
(* The groups of a buffer are nested whatever is opened after them.        *)
(***************************************************************************)
LEMMA NestedAgrees ==
  ASSUME NEW buffer, NEW end \in Nat, NEW groups, NEW after,
         buffer.base \in Nat,
         Nested(buffer, end, groups),
         \A k \in 1 .. end : after[k] = groups[k]
  PROVE  Nested(buffer, end, after)
<1> DEFINE base == buffer.base
<1>1. base <= end /\ (base = end => buffer.active)
  BY DEF Nested
<1>2. ASSUME base < end
      PROVE  /\ after[base + 1].parentActive
             /\ buffer.active => after[end].parentActive /\ after[end].branchTaken
  <2>1. base + 1 \in 1 .. end /\ end \in 1 .. end
    BY <1>2
  <2>2. after[base + 1] = groups[base + 1] /\ after[end] = groups[end]
    BY <2>1
  <2> QED BY <2>2, <1>2 DEF Nested
<1>3. ASSUME NEW k \in base + 1 .. end - 1
      PROVE  after[k + 1].parentActive => after[k].parentActive /\ after[k].branchTaken
  <2>1. k \in 1 .. end /\ k + 1 \in 1 .. end
    OBVIOUS
  <2>2. after[k] = groups[k] /\ after[k + 1] = groups[k + 1]
    BY <2>1
  <2> QED BY <2>2 DEF Nested
<1> QED BY <1>1, <1>2, <1>3 DEF Nested

(***************************************************************************)
(* A line that changes the innermost buffer and its own groups only, keeps *)
(* the stacks sound if those groups are nested.                            *)
(***************************************************************************)
LEMMA TopSound ==
  ASSUME NEW buffers \in Seq(Buffers), NEW groups \in Seq(Groups), NEW after \in Seq(Groups),
         NEW buffer \in Buffers, buffers # << >>,
         Sound(buffers, groups),
         buffer.base = Last(buffers).base,
         \A k \in 1 .. buffer.base : k <= Len(after) /\ after[k] = groups[k],
         Nested(buffer, Len(after), after)
  PROVE  Sound(WithTop(buffers, buffer), after)
<1> DEFINE new == WithTop(buffers, buffer)
           n == Len(buffers)
<1>1. /\ n \in Nat \ {0} /\ Last(buffers) = buffers[n] /\ new \in Seq(Buffers) /\ Len(new) = n
      /\ \A i \in 1 .. n : new[i] = IF i = n THEN buffer ELSE buffers[i]
      /\ \A i \in 1 .. n : buffers[i] \in Buffers
  <2>1. n \in Nat \ {0} /\ Last(buffers) = buffers[n] /\ \A i \in 1 .. n : buffers[i] \in Buffers
    BY LastFacts
  <2>2. /\ WithTop(buffers, buffer) \in Seq(Buffers)
        /\ Len(WithTop(buffers, buffer)) = Len(buffers)
        /\ \A i \in 1 .. Len(buffers) :
             WithTop(buffers, buffer)[i] = IF i = Len(buffers) THEN buffer ELSE buffers[i]
    BY WithTopFacts
  <2> QED BY <2>1, <2>2
<1>2. \A i \in 1 .. n : new[i].base = buffers[i].base /\ buffers[i].base \in Nat
  BY <1>1 DEF Buffers
<1>3. Len(after) \in Nat /\ Len(groups) \in Nat /\ buffer.base \in Nat /\ buffer.base <= Len(after)
  BY DEF Buffers, Nested
<1>4. \A i \in 1 .. n : buffers[i].base <= buffer.base
  BY <1>1, <1>2 DEF Sound
<1>5. \A i \in 1 .. n : new[i].base <= Len(after)
  BY <1>2, <1>3, <1>4
<1>6. \A i, j \in 1 .. n : i <= j => new[i].base <= new[j].base
  BY <1>2 DEF Sound
<1>7. ASSUME NEW i \in 1 .. n PROVE Nested(new[i], EndIn(new, after, i), after)
  <2>1. CASE i = n
    BY <2>1, <1>1 DEF EndIn
  <2>2. CASE i # n
    <3>1. i + 1 \in 1 .. n /\ new[i] = buffers[i]
      BY <2>2, <1>1
    <3>2. EndIn(new, after, i) = EndIn(buffers, groups, i) /\ EndIn(new, after, i) = buffers[i + 1].base
      BY <2>2, <3>1, <1>1, <1>2 DEF EndIn
    <3>3. Nested(buffers[i], buffers[i + 1].base, groups)
      BY <3>2 DEF Sound
    <3>4. buffers[i + 1].base \in Nat /\ buffers[i].base \in Nat /\ buffers[i + 1].base <= buffer.base
      BY <3>1, <1>2, <1>4
    <3>5. \A k \in 1 .. buffers[i + 1].base : after[k] = groups[k]
      BY <3>4, <1>3
    <3> QED
      BY <3>1, <3>2, <3>3, <3>4, <3>5, NestedAgrees
  <2> QED BY <2>1, <2>2
<1>8. \A i \in 1 .. n : i < n => new[i].active /\ new[i].left > 0
  BY <1>1 DEF Sound
<1> HIDE DEF new
<1>9. Sound(new, after)
  BY <1>1, <1>5, <1>6, <1>7, <1>8 DEF Sound
<1> QED BY <1>9 DEF new

(***************************************************************************)
(* A buffer that is included starts with no group, where all that are open *)
(* belong to others.                                                       *)
(***************************************************************************)
LEMMA PushSound ==
  ASSUME NEW buffers \in Seq(Buffers), NEW groups \in Seq(Groups), NEW buffer \in Buffers,
         Sound(buffers, groups),
         buffers # << >> => Last(buffers).active /\ Last(buffers).left > 0,
         buffer.base = Len(groups), buffer.active
  PROVE  Sound(Append(buffers, buffer), groups)
<1> DEFINE new == Append(buffers, buffer)
           n == Len(buffers)
<1>1. /\ n \in Nat /\ Len(groups) \in Nat /\ new \in Seq(Buffers) /\ Len(new) = n + 1
      /\ \A i \in 1 .. n + 1 : new[i] = IF i = n + 1 THEN buffer ELSE buffers[i]
  OBVIOUS
<1>2. \A i \in 1 .. n : buffers[i].base \in Nat
  <2>1. \A i \in 1 .. n : buffers[i] \in Buffers
    OBVIOUS
  <2> QED BY <2>1 DEF Buffers
<1> HIDE DEF new
<1>3. \A i \in 1 .. n + 1 : new[i].base <= Len(groups)
  BY <1>1 DEF Sound
<1>4. \A i, j \in 1 .. n + 1 : i <= j => new[i].base <= new[j].base
  <2> SUFFICES ASSUME NEW i \in 1 .. n + 1, NEW j \in 1 .. n + 1, i <= j
               PROVE  new[i].base <= new[j].base
    OBVIOUS
  <2>1. CASE j = n + 1
    BY <2>1, <1>1, <1>3
  <2>2. CASE j # n + 1
    BY <2>2, <1>1 DEF Sound
  <2> QED BY <2>1, <2>2
<1>5. \A i \in 1 .. n : buffers[i].active /\ buffers[i].left > 0
  <2> SUFFICES ASSUME NEW i \in 1 .. n PROVE buffers[i].active /\ buffers[i].left > 0
    OBVIOUS
  <2>1. CASE i = n
    BY <2>1, LastFacts DEF Last
  <2>2. CASE i # n
    BY <2>2 DEF Sound
  <2> QED BY <2>1, <2>2
<1>6. ASSUME NEW i \in 1 .. n + 1 PROVE Nested(new[i], EndIn(new, groups, i), groups)
  <2>1. CASE i = n + 1
    <3>1. new[i] = buffer /\ EndIn(new, groups, i) = Len(groups)
      BY <2>1, <1>1 DEF EndIn
    <3> QED BY <3>1, <1>1 DEF Nested
  <2>2. CASE i # n + 1
    <3>1. i \in 1 .. n /\ new[i] = buffers[i] /\ (i # n => new[i + 1] = buffers[i + 1])
          /\ (i = n => new[i + 1] = buffer)
      BY <2>2, <1>1
    <3>2. EndIn(new, groups, i) = EndIn(buffers, groups, i)
      BY <2>2, <3>1, <1>1 DEF EndIn
    <3> QED BY <3>1, <3>2 DEF Sound
  <2> QED BY <2>1, <2>2
<1>7. \A i \in 1 .. n + 1 : i < n + 1 => new[i].active /\ new[i].left > 0
  BY <1>1, <1>5
<1>8. Sound(new, groups)
  BY <1>1, <1>3, <1>4, <1>6, <1>7 DEF Sound
<1> QED BY <1>8 DEF new

(***************************************************************************)
(* When a buffer with no open group is left, its includer has all the      *)
(* groups from its own base again.                                         *)
(***************************************************************************)
LEMMA PopSound ==
  ASSUME NEW buffers \in Seq(Buffers), NEW groups \in Seq(Groups), buffers # << >>,
         Sound(buffers, groups), Last(buffers).base = Len(groups)
  PROVE  Sound(Front(buffers), groups)
<1> DEFINE new == Front(buffers)
           n == Len(buffers)
<1>1. /\ n \in Nat \ {0} /\ new \in Seq(Buffers) /\ Len(new) = n - 1
      /\ \A i \in 1 .. n - 1 : new[i] = buffers[i]
      /\ buffers[n].base = Len(groups)
  <2>1. n \in Nat \ {0} /\ Last(buffers) = buffers[n]
    BY LastFacts
  <2>2. /\ Front(buffers) \in Seq(Buffers) /\ Len(Front(buffers)) = Len(buffers) - 1
        /\ \A i \in 1 .. Len(buffers) - 1 : Front(buffers)[i] = buffers[i]
    BY FrontFacts
  <2> QED BY <2>1, <2>2
<1> HIDE DEF new
<1>2. ASSUME NEW i \in 1 .. n - 1 PROVE Nested(new[i], EndIn(new, groups, i), groups)
  <2>1. EndIn(new, groups, i) = EndIn(buffers, groups, i)
    BY <1>1, SMTT(60) DEF EndIn
  <2> QED BY <2>1, <1>1 DEF Sound
<1>3. Sound(new, groups)
  BY <1>1, <1>2 DEF Sound
<1> QED BY <1>3 DEF new

-----------------------------------------------------------------------------
(* Steps.                                                                  *)

(***************************************************************************)
(* A request that is refused is over; what it has of state is discarded.   *)
(***************************************************************************)
LEMMA RefuseStep ==
  ASSUME IInv, NEW why, why # "none", Refuse(why),
         conditionals' \in Seq(Groups), macros' \subseteq Macro, UNCHANGED counters
  PROVE  IInv'
BY DEF IInv, Types, Refuse, counters, NoSourceWithinItself

(***************************************************************************)
(* A line that is written and leaves its buffer as it should be.           *)
(***************************************************************************)
LEMMA EmitStep ==
  ASSUME IInv, Running, NEW bytes \in Nat, NEW buffer \in Buffers,
         Emit(bytes, WithTop(stack, buffer)),
         buffer.base = Top.base, buffer.file = Top.file,
         conditionals' \in Seq(Groups), macros' \subseteq Macro, UNCHANGED counters,
         \A k \in 1 .. buffer.base :
           k <= Len(conditionals') /\ conditionals'[k] = conditionals[k],
         Nested(buffer, Len(conditionals'), conditionals')
  PROVE  IInv'
<1>1. CASE preprocessedBytes + length + bytes > MaxBytes
  BY <1>1, RefuseStep DEF Emit
<1>2. CASE ~ (preprocessedBytes + length + bytes > MaxBytes)
  <2>1. /\ length' = length + bytes /\ stack' = WithTop(stack, buffer) /\ failure' = failure
        /\ failure = "none" /\ stack # << >> /\ stack \in Seq(Buffers)
        /\ conditionals \in Seq(Groups)
    BY <1>2 DEF Emit, Running, IInv, Types
  <2>2. /\ stack' \in Seq(Buffers) /\ Len(stack') = Len(stack) /\ Len(stack) \in Nat \ {0}
        /\ \A i \in 1 .. Len(stack) : stack'[i] = IF i = Len(stack) THEN buffer ELSE stack[i]
    <3>1. /\ WithTop(stack, buffer) \in Seq(Buffers)
          /\ Len(WithTop(stack, buffer)) = Len(stack)
          /\ \A i \in 1 .. Len(stack) :
               WithTop(stack, buffer)[i] = IF i = Len(stack) THEN buffer ELSE stack[i]
      BY <2>1, WithTopFacts, ZenonT(60)
    <3> QED BY <2>1, <3>1, LastFacts
  <2>3. Sound(stack', conditionals')
    BY <2>1, TopSound DEF IInv, Top
  <2>4. Types'
    BY <2>1, <2>2 DEF IInv, Types, counters
  <2>5. NoSourceWithinItself'
    <3>1. \A i \in 1 .. Len(stack) : stack'[i].file = stack[i].file
      BY <2>1, <2>2, LastFacts DEF Top
    <3> QED BY <2>2, <3>1 DEF IInv, NoSourceWithinItself
  <2> QED BY <2>3, <2>4, <2>5 DEF IInv
<1> QED BY <1>1, <1>2

(***************************************************************************)
(* What is known of the innermost buffer and its groups while a line of it *)
(* is read.                                                                *)
(***************************************************************************)
LEMMA TopFacts ==
  ASSUME IInv, Running
  PROVE  /\ stack \in Seq(Buffers) /\ stack # << >> /\ Len(stack) \in Nat \ {0}
         /\ Top \in Buffers /\ Top.base \in Nat /\ Top.active \in BOOLEAN
         /\ conditionals \in Seq(Groups) /\ Len(conditionals) \in Nat
         /\ Top.base <= Len(conditionals)
         /\ Nested(Top, Len(conditionals), conditionals)
         /\ Sound(stack, conditionals)
         /\ macros \subseteq Macro
<1>1. stack \in Seq(Buffers) /\ stack # << >> /\ Sound(stack, conditionals)
      /\ conditionals \in Seq(Groups) /\ macros \subseteq Macro
  BY DEF IInv, Types, Running
<1>2. Len(stack) \in Nat \ {0} /\ Top = stack[Len(stack)] /\ Top \in Buffers
  BY <1>1, LastFacts DEF Top
<1>3. Nested(Top, Len(conditionals), conditionals)
  BY <1>1, <1>2 DEF Sound, EndIn
<1> QED BY <1>1, <1>2, <1>3 DEF Buffers, Nested

(***************************************************************************)
(* A directive or text that changes no group.                              *)
(***************************************************************************)
LEMMA PlainStep ==
  ASSUME IInv, Running, NEW bytes \in Nat, NEW buffer \in Buffers,
         Emit(bytes, WithTop(stack, buffer)),
         buffer.base = Top.base, buffer.file = Top.file, buffer.active = Top.active,
         UNCHANGED conditionals, macros' \subseteq Macro, UNCHANGED counters
  PROVE  IInv'
<1>1. Nested(buffer, Len(conditionals), conditionals)
  BY TopFacts DEF Nested
<1>2. \A k \in 1 .. buffer.base : k <= Len(conditionals)
  BY TopFacts
<1> QED BY <1>1, <1>2, TopFacts, EmitStep

(***************************************************************************)
(* The line after this one.                                                *)
(***************************************************************************)
LEMMA AdvanceFacts ==
  ASSUME NEW buffer \in Buffers, buffer.left > 0
  PROVE  /\ Advance(buffer) \in Buffers
         /\ Advance(buffer).base = buffer.base /\ Advance(buffer).file = buffer.file
         /\ Advance(buffer).active = buffer.active
<1>1. buffer.line + 1 \in Nat /\ buffer.left - 1 \in Nat
  BY DEF Buffers
<1> DEFINE later == [buffer EXCEPT !.line = buffer.line + 1]
<1>2. later \in Buffers /\ later.left = buffer.left /\ later.base = buffer.base
      /\ later.file = buffer.file /\ later.active = buffer.active
  BY <1>1 DEF Buffers
<1>3. Advance(buffer) = [later EXCEPT !.left = later.left - 1]
  BY DEF Advance, Buffers
<1> HIDE DEF later
<1> QED BY <1>1, <1>2, <1>3 DEF Buffers

(***************************************************************************)
(* A line done that changes at most whether its buffer is active.          *)
(***************************************************************************)
LEMMA FinishStep ==
  ASSUME IInv, Reading, NEW active \in BOOLEAN, Finish([Top EXCEPT !.active = active]),
         conditionals' \in Seq(Groups), macros' \subseteq Macro, UNCHANGED counters,
         \A k \in 1 .. Top.base : k <= Len(conditionals') /\ conditionals'[k] = conditionals[k],
         Nested([Top EXCEPT !.active = active], Len(conditionals'), conditionals')
  PROVE  IInv'
<1> DEFINE now == [Top EXCEPT !.active = active]
<1>1. Running /\ Top \in Buffers /\ Top.left > 0
  BY TopFacts DEF Reading
<1>2. now \in Buffers /\ now.left > 0 /\ now.base = Top.base /\ now.file = Top.file
      /\ now.active = active
  BY <1>1 DEF Buffers
<1> HIDE DEF now
<1>3. /\ Advance(now) \in Buffers
      /\ Advance(now).base = Top.base /\ Advance(now).file = Top.file
      /\ Advance(now).active = now.active
  BY <1>2, AdvanceFacts
<1>4. Nested(now, Len(conditionals'), conditionals')
  BY DEF now
<1>5. Nested(Advance(now), Len(conditionals'), conditionals')
  BY <1>2, <1>3, <1>4 DEF Nested
<1>6. Emit(1, WithTop(stack, Advance(now)))
  BY DEF Finish, now
<1> QED BY <1>1, <1>3, <1>5, <1>6, EmitStep

(***************************************************************************)
(* A line done that changes nothing of its buffer.                         *)
(***************************************************************************)
LEMMA FinishPlain ==
  ASSUME IInv, Reading, NEW bytes \in Nat, Emit(bytes, WithTop(stack, Advance(Top))),
         UNCHANGED conditionals, macros' \subseteq Macro, UNCHANGED counters
  PROVE  IInv'
<1>1. Running /\ Top \in Buffers /\ Top.left > 0
  BY TopFacts DEF Reading
<1> QED BY <1>1, AdvanceFacts, PlainStep

-----------------------------------------------------------------------------
(* One lemma per action.                                                   *)

(***************************************************************************)
(* Text is written or skipped.                                             *)
(***************************************************************************)
LEMMA TextStep == IInv /\ Text => IInv'
<1> SUFFICES ASSUME IInv, Text PROVE IInv'
  OBVIOUS
<1>1. Reading /\ UNCHANGED conditionals /\ UNCHANGED macros /\ UNCHANGED counters
      /\ macros' \subseteq Macro
  BY TopFacts DEF Text, Take, Reading
<1>2. \E bytes \in {1, 2} : Emit(bytes, WithTop(stack, Advance(Top)))
  BY DEF Text, Finish
<1> QED BY <1>1, <1>2, FinishPlain

(***************************************************************************)
(* A group that opens is in a branch taken, or the buffer is not active.   *)
(***************************************************************************)
LEMMA IfStep ==
  ASSUME NEW macro \in Macro, NEW defined \in BOOLEAN, IInv, If(macro, defined)
  PROVE  IInv'
<1>1. Reading /\ Running /\ UNCHANGED counters /\ UNCHANGED macros
  BY DEF If, Take, Reading
<1>2. CASE Len(conditionals) >= MaxNesting
  BY <1>1, <1>2, TopFacts, RefuseStep DEF If
<1>3. CASE ~ (Len(conditionals) >= MaxNesting)
  <2>1. PICK condition \in BOOLEAN :
          /\ conditionals' = Append(conditionals, [parentActive |-> Top.active,
                                                   branchTaken |-> condition,
                                                   elseSeen |-> FALSE])
          /\ Finish([Top EXCEPT !.active = Entered(condition)])
    BY <1>1, <1>3, TopFacts DEF If
  <2> DEFINE group == [parentActive |-> Top.active, branchTaken |-> condition, elseSeen |-> FALSE]
             now == [Top EXCEPT !.active = Entered(condition)]
  <2>2. group \in Groups /\ group.parentActive = Top.active /\ group.branchTaken = condition
        /\ Entered(condition) \in BOOLEAN /\ (Entered(condition) <=> Top.active /\ condition)
    BY <1>1, TopFacts DEF Groups, Entered
  <2>3. now.base = Top.base /\ now.active = Entered(condition)
    BY <1>1, TopFacts DEF Buffers
  <2>4. conditionals' = Append(conditionals, group)
    BY <2>1
  <2> HIDE DEF group
  <2>5. /\ conditionals' \in Seq(Groups) /\ Len(conditionals') = Len(conditionals) + 1
        /\ \A k \in 1 .. Len(conditionals) : conditionals'[k] = conditionals[k]
        /\ conditionals'[Len(conditionals) + 1] = group
    BY <1>1, <2>2, <2>4, TopFacts
  <2>6. Nested(now, Len(conditionals'), conditionals')
    <3> DEFINE n == Len(conditionals)
    <3>1. Top.base \in Nat /\ n \in Nat /\ Top.base <= n /\ Nested(Top, n, conditionals)
      BY <1>1, TopFacts
    <3>2. conditionals'[Top.base + 1].parentActive
      <4>1. CASE Top.base = n
        BY <4>1, <3>1, <2>2, <2>5 DEF Nested
      <4>2. CASE Top.base < n
        BY <4>2, <3>1, <2>5 DEF Nested
      <4> QED BY <4>1, <4>2, <3>1
    <3>3. ASSUME NEW k \in Top.base + 1 .. n
          PROVE  conditionals'[k + 1].parentActive =>
                   conditionals'[k].parentActive /\ conditionals'[k].branchTaken
      <4>1. CASE k = n
        BY <4>1, <3>1, <2>2, <2>5 DEF Nested
      <4>2. CASE k # n
        <5>1. k \in 1 .. n /\ k + 1 \in 1 .. n /\ k \in Top.base + 1 .. n - 1
          BY <4>2, <3>1
        <5> QED BY <5>1, <3>1, <2>5 DEF Nested
      <4> QED BY <4>1, <4>2
    <3>4. now.active => group.parentActive /\ group.branchTaken
      BY <2>2, <2>3
    <3>5. Len(conditionals') = n + 1 /\ conditionals'[n + 1] = group
      BY <2>5
    <3> HIDE DEF now, n
    <3> QED BY <3>1, <3>2, <3>3, <3>4, <3>5, <2>3 DEF Nested
  <2>7. \A k \in 1 .. Top.base : k <= Len(conditionals') /\ conditionals'[k] = conditionals[k]
    BY <1>1, <2>5, TopFacts
  <2> QED BY <1>1, <2>1, <2>2, <2>5, <2>6, <2>7, TopFacts, FinishStep
<1> QED BY <1>2, <1>3

(***************************************************************************)
(* The branches of a group are in the same place; one that is active is    *)
(* taken.                                                                  *)
(***************************************************************************)
LEMMA BranchStep ==
  ASSUME NEW line, NEW holds \in BOOLEAN, NEW isElse \in BOOLEAN, IInv,
         Branch(line, holds, isElse)
  PROVE  IInv'
<1>1. Reading /\ Running /\ UNCHANGED counters /\ UNCHANGED macros
  BY DEF Branch, Take, Reading
<1>2. CASE Unmatched \/ Group.elseSeen
  BY <1>1, <1>2, TopFacts, RefuseStep DEF Branch
<1>3. CASE ~ (Unmatched \/ Group.elseSeen)
  <2> DEFINE n == Len(conditionals)
             condition == Group.parentActive /\ ~ Group.branchTaken /\ holds
             group == [Group EXCEPT !.branchTaken = Taken(condition, isElse), !.elseSeen = isElse]
             now == [Top EXCEPT !.active = condition]
  <2>1. conditionals' = WithTop(conditionals, group) /\ Finish(now)
    BY <1>3 DEF Branch
  <2>2. Top.base \in Nat /\ n \in Nat /\ Top.base < n /\ conditionals # << >>
        /\ Nested(Top, n, conditionals) /\ conditionals \in Seq(Groups)
    <3>1. Top.base \in Nat /\ n \in Nat /\ Top.base <= n /\ Top.base # n
      BY <1>1, <1>3, TopFacts DEF Unmatched
    <3> QED BY <1>1, <3>1, TopFacts
  <2>3. Group \in Groups /\ Group = conditionals[n]
    BY <2>2, LastFacts DEF Group
  <2>4. Group.parentActive \in BOOLEAN /\ Group.branchTaken \in BOOLEAN /\ condition \in BOOLEAN
        /\ Taken(condition, isElse) \in BOOLEAN /\ (condition => Taken(condition, isElse))
    BY <2>3 DEF Groups, Taken
  <2>5. group \in Groups /\ group.parentActive = Group.parentActive
        /\ group.branchTaken = Taken(condition, isElse)
    <3> HIDE DEF condition
    <3> QED BY <2>3, <2>4 DEF Groups
  <2>6. now.base = Top.base /\ now.active = condition
    BY <1>1, TopFacts DEF Buffers
  <2> HIDE DEF group
  <2>7. /\ conditionals' \in Seq(Groups) /\ Len(conditionals') = n
        /\ \A k \in 1 .. n : conditionals'[k] = IF k = n THEN group ELSE conditionals[k]
    <3>1. /\ WithTop(conditionals, group) \in Seq(Groups)
          /\ Len(WithTop(conditionals, group)) = Len(conditionals)
          /\ \A i \in 1 .. Len(conditionals) : WithTop(conditionals, group)[i] =
               IF i = Len(conditionals) THEN group ELSE conditionals[i]
      BY <2>2, <2>5, WithTopFacts
    <3> QED BY <3>1, <2>1
  <2>8. \A k \in 1 .. n : conditionals'[k].parentActive = conditionals[k].parentActive
    BY <2>3, <2>5, <2>7
  <2>9. Nested(now, n, conditionals')
    <3>1. conditionals'[Top.base + 1].parentActive
      BY <2>2, <2>8 DEF Nested
    <3>2. ASSUME NEW k \in Top.base + 1 .. n - 1
          PROVE  conditionals'[k + 1].parentActive =>
                   conditionals'[k].parentActive /\ conditionals'[k].branchTaken
      <4>1. k \in 1 .. n /\ k + 1 \in 1 .. n /\ k # n
        BY <2>2
      <4>2. conditionals'[k] = conditionals[k]
        BY <4>1, <2>7
      <4> QED BY <4>1, <4>2, <2>2, <2>8 DEF Nested
    <3>3. now.active => conditionals'[n].parentActive /\ conditionals'[n].branchTaken
      BY <2>2, <2>4, <2>5, <2>6, <2>7
    <3> HIDE DEF now, n
    <3> QED BY <3>1, <3>2, <3>3, <2>2, <2>6 DEF Nested
  <2>10. \A k \in 1 .. Top.base : k <= Len(conditionals') /\ conditionals'[k] = conditionals[k]
    BY <2>2, <2>7
  <2>11. macros' \subseteq Macro
    BY <1>1, TopFacts
  <2> HIDE DEF condition
  <2> QED BY <1>1, <2>1, <2>4, <2>7, <2>9, <2>10, <2>11, FinishStep
<1> QED BY <1>2, <1>3

(***************************************************************************)
(* Behind #endif the buffer is as active as before its group.              *)
(***************************************************************************)
LEMMA EndifStep == IInv /\ Endif => IInv'
<1> SUFFICES ASSUME IInv, Endif PROVE IInv'
  OBVIOUS
<1>1. Reading /\ Running /\ UNCHANGED counters /\ UNCHANGED macros
  BY DEF Endif, Take, Reading
<1>2. CASE Unmatched
  BY <1>1, <1>2, TopFacts, RefuseStep DEF Endif
<1>3. CASE ~ Unmatched
  <2> DEFINE n == Len(conditionals)
             now == [Top EXCEPT !.active = Group.parentActive]
  <2>1. conditionals' = Front(conditionals) /\ Finish(now)
    BY <1>3 DEF Endif
  <2>2. Top.base \in Nat /\ n \in Nat /\ Top.base < n /\ conditionals # << >>
        /\ Nested(Top, n, conditionals) /\ conditionals \in Seq(Groups)
    <3>1. Top.base \in Nat /\ n \in Nat /\ Top.base <= n /\ Top.base # n
      BY <1>1, <1>3, TopFacts DEF Unmatched
    <3> QED BY <1>1, <3>1, TopFacts
  <2>3. Group = conditionals[n] /\ Group.parentActive \in BOOLEAN
    <3>1. Group = conditionals[n] /\ Group \in Groups
      BY <2>2, LastFacts DEF Group
    <3> QED BY <3>1 DEF Groups
  <2>4. /\ conditionals' \in Seq(Groups) /\ Len(conditionals') = n - 1
        /\ \A k \in 1 .. n - 1 : conditionals'[k] = conditionals[k]
    BY <2>1, <2>2, FrontFacts
  <2>5. now.base = Top.base /\ now.active = Group.parentActive
    BY <1>1, TopFacts DEF Buffers
  <2>6. Nested(now, n - 1, conditionals')
    <3>1. Top.base = n - 1 => now.active
      BY <2>2, <2>3, <2>5 DEF Nested
    <3>2. Top.base < n - 1 => conditionals'[Top.base + 1].parentActive
      BY <2>2, <2>4 DEF Nested
    <3>3. ASSUME NEW k \in Top.base + 1 .. n - 1 - 1
          PROVE  conditionals'[k + 1].parentActive =>
                   conditionals'[k].parentActive /\ conditionals'[k].branchTaken
      <4>1. k \in 1 .. n - 1 /\ k + 1 \in 1 .. n - 1 /\ k \in Top.base + 1 .. n - 1
        BY <2>2
      <4> QED BY <4>1, <2>2, <2>4 DEF Nested
    <3>4. now.active /\ Top.base < n - 1 =>
            conditionals'[n - 1].parentActive /\ conditionals'[n - 1].branchTaken
      <4> SUFFICES ASSUME now.active, Top.base < n - 1
                   PROVE  conditionals'[n - 1].parentActive /\ conditionals'[n - 1].branchTaken
        OBVIOUS
      <4>1. n - 1 \in Top.base + 1 .. n - 1 /\ n - 1 \in 1 .. n - 1 /\ (n - 1) + 1 = n
        BY <2>2
      <4>2. conditionals[(n - 1) + 1].parentActive
        BY <4>1, <2>3, <2>5
      <4> QED BY <4>1, <4>2, <2>2, <2>4 DEF Nested
    <3> HIDE DEF now, n
    <3> QED BY <3>1, <3>2, <3>3, <3>4, <2>2, <2>5 DEF Nested
  <2>7. \A k \in 1 .. Top.base : k <= Len(conditionals') /\ conditionals'[k] = conditionals[k]
    BY <2>2, <2>4
  <2>8. macros' \subseteq Macro
    BY <1>1, TopFacts
  <2> QED BY <1>1, <2>1, <2>3, <2>4, <2>6, <2>7, <2>8, FinishStep
<1> QED BY <1>2, <1>3

(***************************************************************************)
(* Macros come and go in the one table of the input.                       *)
(***************************************************************************)
LEMMA MacroStep ==
  ASSUME NEW macro \in Macro, IInv, Define(macro) \/ Undef(macro)
  PROVE  IInv'
<1>1. Reading /\ UNCHANGED conditionals /\ UNCHANGED counters /\ Finish(Top)
  BY DEF Define, Undef, Take
<1>2. macros' \subseteq Macro
  BY <1>1, TopFacts DEF Define, Undef, Reading
<1>3. Emit(1, WithTop(stack, Advance(Top)))
  BY <1>1 DEF Finish
<1> QED BY <1>1, <1>2, <1>3, FinishPlain

(***************************************************************************)
(* A #line changes the name a source is known by, not the source.          *)
(***************************************************************************)
LEMMA LineStep ==
  ASSUME NEW marker \in Marker, IInv, Line(marker)
  PROVE  IInv'
<1>1. Reading /\ Running /\ UNCHANGED conditionals /\ UNCHANGED counters /\ UNCHANGED macros
  BY DEF Line, Take, Reading
<1>2. macros' \subseteq Macro /\ Top \in Buffers /\ Top.left > 0
  BY <1>1, TopFacts DEF Reading
<1>3. CASE Top.active
  <2> DEFINE later == Advance(Top)
             now == [later EXCEPT !.name = marker.name, !.line = marker.number]
  <2>1. later \in Buffers /\ later.base = Top.base /\ later.file = Top.file
        /\ later.active = Top.active
    BY <1>2, AdvanceFacts
  <2>2. marker.name \in Name /\ marker.number \in Nat
    BY PreprocessorAssumption
  <2>3. Emit(1, WithTop(stack, now))
    BY <1>3 DEF Line
  <2> HIDE DEF later
  <2>4. now \in Buffers /\ now.base = Top.base /\ now.file = Top.file /\ now.active = Top.active
    BY <2>1, <2>2 DEF Buffers
  <2> QED BY <1>1, <1>2, <2>3, <2>4, PlainStep
<1>4. CASE ~ Top.active
  <2>1. Emit(1, WithTop(stack, Advance(Top)))
    BY <1>4 DEF Line, Finish
  <2> QED BY <1>1, <1>2, <2>1, FinishPlain
<1> QED BY <1>3, <1>4

(***************************************************************************)
(* A new buffer fits.                                                      *)
(***************************************************************************)
LEMMA BufferFacts ==
  ASSUME NEW id \in Nat, NEW file \in Name, NEW size \in Nat, Len(conditionals) \in Nat
  PROVE  /\ Buffer(id, file, size) \in Buffers
         /\ Buffer(id, file, size).base = Len(conditionals)
         /\ Buffer(id, file, size).active /\ Buffer(id, file, size).file = file
BY DEF Buffer, Buffers

(***************************************************************************)
(* The files, depth, bytes and the sources that are open bound what may be *)
(* included.                                                               *)
(***************************************************************************)
LEMMA IncludeStep ==
  ASSUME NEW request \in Request, NEW size \in Size, IInv, Include(request, size)
  PROVE  IInv'
<1> DEFINE file == Resolve[<< Top.name, request >>]
<1>1. Reading /\ Running /\ UNCHANGED conditionals /\ UNCHANGED macros
  BY DEF Include, Take, Reading
<1>2. macros' \subseteq Macro /\ Top \in Buffers /\ stack # << >> /\ stack \in Seq(Buffers)
      /\ conditionals \in Seq(Groups) /\ Len(conditionals) \in Nat
      /\ Sound(stack, conditionals)
  BY <1>1, TopFacts
<1>3. MaxInput \in Nat /\ MaxFiles \in Nat /\ MaxDepth \in Nat /\ size \in Nat
  BY PreprocessorAssumption DEF Size
<1>4. CASE ~ Top.active
  <2>1. Emit(1, WithTop(stack, Advance(Top))) /\ UNCHANGED counters
    BY <1>4 DEF Include, Finish
  <2> QED BY <1>1, <1>2, <2>1, FinishPlain
<1>5. CASE Top.active /\ Objection(file, size) # "none"
  <2>1. Refuse(Objection(file, size)) /\ UNCHANGED counters
    BY <1>5 DEF Include
  <2> QED BY <1>1, <1>2, <1>5, <2>1, RefuseStep
<1>6. CASE Top.active /\ Objection(file, size) = "none"
  <2>1. /\ Len(stack) - 1 < MaxDepth /\ includeFileCount < MaxFiles
        /\ file # NotFound /\ size <= MaxInput - inputBytes /\ file \notin Open
    <3>1. ~ (Len(stack) - 1 >= MaxDepth)
      BY <1>6 DEF Objection
    <3>2. ~ (includeFileCount >= MaxFiles)
      BY <1>6 DEF Objection
    <3>3. file # NotFound
      BY <1>6 DEF Objection
    <3>4. ~ (size > MaxInput - inputBytes)
      BY <1>6 DEF Objection
    <3>5. file \notin Open
      BY <1>6 DEF Objection
    <3> QED BY <3>1, <3>2, <3>3, <3>4, <3>5, <1>2, <1>3 DEF IInv, Types
  <2>2. file \in Name
    <3>1. Top.name \in Name
      BY <1>2 DEF Buffers
    <3> QED BY <2>1, <3>1, PreprocessorAssumption
  <2> DEFINE new == Buffer(input + includeFileCount', file, size)
  <2>3. /\ includeFileCount' = includeFileCount + 1 /\ inputBytes' = inputBytes + size
        /\ stack' = Append(stack, new)
        /\ UNCHANGED << length, failure, input, preprocessedBytes >>
    BY <1>6 DEF Include
  <2>4. new \in Buffers /\ new.base = Len(conditionals) /\ new.active /\ new.file = file
    <3>1. input + includeFileCount' \in Nat
      BY <2>3 DEF IInv, Types
    <3> QED BY <3>1, <2>2, <1>2, <1>3, BufferFacts
  <2> HIDE DEF new
  <2>5. Sound(stack', conditionals')
    <3>1. Last(stack).active /\ Last(stack).left > 0
      BY <1>1, <1>6 DEF Top, Reading
    <3>2. Sound(Append(stack, new), conditionals)
      BY <1>2, <2>4, <3>1, PushSound
    <3> QED BY <3>2, <2>3, <1>1
  <2>6. Types'
    <3>1. stack' \in Seq(Buffers) /\ Len(stack') = Len(stack) + 1
      BY <1>2, <2>3, <2>4
    <3> QED BY <3>1, <1>1, <1>3, <2>1, <2>3, SMTT(60) DEF IInv, Types
  <2>7. NoSourceWithinItself'
    <3>1. /\ DOMAIN stack' = 1 .. Len(stack) + 1
          /\ \A i \in 1 .. Len(stack) : stack'[i] = stack[i]
          /\ stack'[Len(stack) + 1] = new /\ Len(stack) \in Nat
      BY <1>2, <2>3, <2>4
    <3>2. \A i \in 1 .. Len(stack) : stack[i].file # file
      BY <1>2, <2>1, SMTT(60) DEF Open
    <3>3. \A i, j \in 1 .. Len(stack) : i # j => stack[i].file # stack[j].file
      BY <1>2 DEF IInv, NoSourceWithinItself
    <3> QED BY <3>1, <3>2, <3>3, <2>4 DEF NoSourceWithinItself
  <2> QED BY <2>5, <2>6, <2>7 DEF IInv
<1> QED BY <1>4, <1>5, <1>6

(***************************************************************************)
(* Behind an include line its buffer is as before it.                      *)
(***************************************************************************)
LEMMA LeaveStep == IInv /\ Leave => IInv'
<1> SUFFICES ASSUME IInv, Leave PROVE IInv'
  OBVIOUS
<1> DEFINE outer == Front(stack)
           n == Len(stack)
<1>1. Running /\ n > 1 /\ UNCHANGED conditionals /\ UNCHANGED macros /\ UNCHANGED counters
      /\ failure = "none"
  BY DEF Leave, AtEnd, Running
<1>2. macros' \subseteq Macro /\ stack # << >> /\ stack \in Seq(Buffers) /\ n \in Nat \ {0}
      /\ conditionals \in Seq(Groups) /\ Sound(stack, conditionals)
  BY <1>1, TopFacts
<1>3. CASE Unterminated
  BY <1>1, <1>2, <1>3, RefuseStep DEF Leave
<1>4. CASE ~ Unterminated
  <2>1. /\ Front(stack) \in Seq(Buffers) /\ Len(Front(stack)) = Len(stack) - 1
        /\ \A i \in 1 .. Len(stack) - 1 : Front(stack)[i] = stack[i]
    BY <1>2, FrontFacts
  <2>2. outer \in Seq(Buffers) /\ outer # << >> /\ Len(outer) = n - 1
        /\ \A i \in 1 .. n - 1 : outer[i] = stack[i]
    BY <1>1, <1>2, <2>1
  <2>3. Sound(outer, conditionals)
    BY <1>2, <1>4, PopSound DEF Unterminated, Top
  <2> HIDE DEF outer
  <2> DEFINE inner == Last(outer)
             now == Advance(inner)
  <2>4. inner \in Buffers /\ inner = outer[n - 1]
    BY <2>2, LastFacts
  <2>5. CASE preprocessedBytes + length + 1 > MaxBytes
    <3>1. Refuse("bytes")
      BY <1>4, <2>5 DEF Leave, Emit
    <3> QED BY <3>1, <1>1, <1>2, RefuseStep
  <2>6. CASE ~ (preprocessedBytes + length + 1 > MaxBytes)
    <3>1. length' = length + 1 /\ stack' = WithTop(outer, now) /\ failure' = failure
      BY <1>4, <2>6 DEF Leave, Emit, Resumed, outer
    <3>2. inner.left > 0 /\ Nested(inner, Len(conditionals), conditionals)
      <4>1. inner.left > 0
        BY <1>1, <1>2, <2>2, <2>4 DEF Sound
      <4>2. Nested(outer[n - 1], EndIn(outer, conditionals, n - 1), conditionals)
        BY <1>1, <1>2, <2>2, <2>3 DEF Sound
      <4> QED BY <4>1, <4>2, <2>2, <2>4 DEF EndIn
    <3>3. now \in Buffers /\ now.base = inner.base /\ now.file = inner.file
          /\ now.active = inner.active
      BY <2>4, <3>2, AdvanceFacts
    <3> HIDE DEF now
    <3>4. Nested(now, Len(conditionals), conditionals)
      BY <3>2, <3>3 DEF Nested
    <3>5. \A k \in 1 .. now.base : k <= Len(conditionals)
      BY <3>3, <3>4, <1>2 DEF Nested, Buffers
    <3>6. Sound(WithTop(outer, now), conditionals)
      BY <1>2, <2>2, <2>3, <3>3, <3>4, <3>5, TopSound
    <3>7. /\ stack' \in Seq(Buffers) /\ Len(stack') = n - 1
          /\ \A i \in 1 .. n - 1 : stack'[i].file = stack[i].file
      <4>1. /\ WithTop(outer, now) \in Seq(Buffers) /\ Len(WithTop(outer, now)) = Len(outer)
            /\ \A i \in 1 .. Len(outer) :
                 WithTop(outer, now)[i] = IF i = Len(outer) THEN now ELSE outer[i]
        BY <2>2, <3>3, WithTopFacts, ZenonT(60)
      <4> QED BY <4>1, <3>1, <2>2, <2>4, <3>3
    <3>8. Types'
      <4>1. n - 1 <= MaxDepth + 1
        BY <1>2, PreprocessorAssumption DEF IInv, Types
      <4>2. length' \in Nat
        BY <3>1 DEF IInv, Types
      <4> HIDE DEF n
      <4> QED BY <1>1, <1>2, <3>7, <4>1, <4>2 DEF IInv, Types, counters
    <3>9. NoSourceWithinItself'
      <4>1. DOMAIN stack' = 1 .. n - 1 /\ DOMAIN stack = 1 .. n
        BY <1>2, <3>7
      <4>2. \A i, j \in 1 .. n : i # j => stack[i].file # stack[j].file
        BY <4>1 DEF IInv, NoSourceWithinItself
      <4>3. 1 .. n - 1 \subseteq 1 .. n
        BY <1>2
      <4> HIDE DEF n
      <4> QED BY <3>7, <4>1, <4>2, <4>3 DEF NoSourceWithinItself
    <3> QED BY <3>1, <3>6, <3>8, <3>9, <1>1 DEF IInv
  <2> QED BY <2>5, <2>6
<1> QED BY <1>3, <1>4

(***************************************************************************)
(* Each input starts with the groups of none.                              *)
(***************************************************************************)
LEMMA StartStep ==
  ASSUME NEW size \in Size, IInv, StartInput(size)
  PROVE  IInv'
<1>1. failure = "none" /\ stack = << >> /\ UNCHANGED << conditionals, includeFileCount, preprocessedBytes >>
  BY DEF StartInput
<1>2. conditionals \in Seq(Groups) /\ Len(conditionals) \in Nat /\ Sound(stack, conditionals)
      /\ stack \in Seq(Buffers) /\ macros \subseteq Macro
  BY <1>1 DEF IInv, Types
<1>3. MaxInput \in Nat /\ MaxFiles \in Nat /\ MaxDepth \in Nat /\ size \in Nat
      /\ Predefined \subseteq Macro /\ MainName \in Name
  BY PreprocessorAssumption DEF Size
<1>4. CASE size > MaxInput - inputBytes
  BY <1>1, <1>2, <1>4, RefuseStep DEF StartInput, counters
<1>5. CASE ~ (size > MaxInput - inputBytes)
  <2> DEFINE new == Buffer(input' + includeFileCount, MainName, size)
  <2>1. /\ input' = input + 1 /\ inputBytes' = inputBytes + size /\ macros' = Predefined
        /\ stack' = << new >> /\ UNCHANGED << length, failure >>
    BY <1>5 DEF StartInput
  <2>2. new \in Buffers /\ new.base = Len(conditionals) /\ new.active
    <3>1. input' + includeFileCount \in Nat
      BY <2>1 DEF IInv, Types
    <3> QED BY <3>1, <1>2, <1>3, BufferFacts
  <2> HIDE DEF new
  <2>3. stack' = Append(stack, new)
    BY <1>1, <2>1
  <2>4. Sound(stack', conditionals')
    BY <1>1, <1>2, <2>2, <2>3, PushSound
  <2>5. stack' \in Seq(Buffers) /\ Len(stack') = 1 /\ DOMAIN stack' = 1 .. 1
    BY <2>1, <2>2
  <2>6. Types'
    BY <2>1, <2>5, <1>1, <1>3, <1>5 DEF IInv, Types
  <2> QED BY <2>4, <2>5, <2>6 DEF IInv, NoSourceWithinItself
<1> QED BY <1>4, <1>5

(***************************************************************************)
(* The end of an input leaves no buffer.                                   *)
(***************************************************************************)
LEMMA EndStep == IInv /\ EndInput => IInv'
<1> SUFFICES ASSUME IInv, EndInput PROVE IInv'
  OBVIOUS
<1>1. /\ Running /\ UNCHANGED << conditionals, macros, input, inputBytes, includeFileCount >>
      /\ MaxDepth \in Nat
  BY PreprocessorAssumption DEF EndInput, AtEnd
<1>2. CASE Unterminated
  BY <1>1, <1>2, TopFacts, RefuseStep DEF EndInput, counters
<1>3. CASE ~ Unterminated
  <2>1. stack' = << >> /\ length' = 0 /\ preprocessedBytes' = preprocessedBytes + length
    BY <1>3 DEF EndInput, Spent
  <2>2. Len(stack') = 0 /\ stack' \in Seq(Buffers) /\ DOMAIN stack' = {}
    BY <2>1
  <2>3. Types'
    BY <1>1, <2>1, <2>2 DEF IInv, Types
  <2>4. Sound(stack', conditionals')
    BY <2>2 DEF Sound
  <2> QED BY <2>2, <2>3, <2>4 DEF IInv, NoSourceWithinItself
<1> QED BY <1>2, <1>3

-----------------------------------------------------------------------------
(* Theorems.                                                               *)

(***************************************************************************)
(* The request starts with nothing open and nothing spent.                 *)
(***************************************************************************)
LEMMA InitHolds == Init => IInv
<1> SUFFICES ASSUME Init PROVE IInv
  OBVIOUS
<1>1. stack = << >> /\ conditionals = << >> /\ MaxInput \in Nat /\ MaxFiles \in Nat /\ MaxDepth \in Nat
  BY PreprocessorAssumption DEF Init
<1>2. Len(stack) = 0 /\ stack \in Seq(Buffers) /\ conditionals \in Seq(Groups) /\ DOMAIN stack = {}
  BY <1>1
<1>3. Types
  BY <1>1, <1>2 DEF Init, Types
<1> QED BY <1>2, <1>3 DEF IInv, Sound, NoSourceWithinItself

(***************************************************************************)
(* Every line and every end of a buffer preserves the invariant.           *)
(***************************************************************************)
LEMMA StepHolds == IInv /\ [Next]_vars => IInv'
<1> SUFFICES ASSUME IInv, [Next]_vars PROVE IInv'
  OBVIOUS
<1>1. ASSUME NEW size \in Size, StartInput(size) PROVE IInv'
  BY <1>1, StartStep
<1>2. CASE Text
  BY <1>2, TextStep
<1>3. ASSUME NEW macro \in Macro, NEW defined \in BOOLEAN, If(macro, defined) PROVE IInv'
  BY <1>3, IfStep
<1>4. ASSUME NEW macro \in Macro, NEW defined \in BOOLEAN, Elif(macro, defined) PROVE IInv'
  <2>1. \E line : \E holds \in BOOLEAN : Branch(line, holds, FALSE)
    BY <1>4 DEF Elif
  <2> QED BY <2>1, BranchStep
<1>5. CASE Else
  <2>1. \E line : Branch(line, TRUE, TRUE)
    BY <1>5 DEF Else
  <2> QED BY <2>1, BranchStep
<1>6. CASE Endif
  BY <1>6, EndifStep
<1>7. ASSUME NEW macro \in Macro, Define(macro) \/ Undef(macro) PROVE IInv'
  BY <1>7, MacroStep
<1>8. ASSUME NEW marker \in Marker, Line(marker) PROVE IInv'
  BY <1>8, LineStep
<1>9. ASSUME NEW request \in Request, NEW size \in Size, Include(request, size) PROVE IInv'
  BY <1>9, IncludeStep
<1>10. CASE Leave
  BY <1>10, LeaveStep
<1>11. CASE EndInput
  BY <1>11, EndStep
<1>12. CASE UNCHANGED vars
  BY <1>12 DEF vars, counters, IInv, Types, NoSourceWithinItself
<1> QED
  BY <1>1, <1>2, <1>3, <1>4, <1>5, <1>6, <1>7, <1>8, <1>9, <1>10, <1>11, <1>12 DEF Next

(***************************************************************************)
(* A sound preprocessor is correctly typed: the buffers' groups follow one *)
(* another on the one stack, as conditional_base says.                     *)
(***************************************************************************)
LEMMA SoundIsTypeOK == IInv => TypeOK
<1> SUFFICES ASSUME IInv PROVE TypeOK
  OBVIOUS
<1>1. /\ stack \in Seq(Buffers) /\ DOMAIN stack = 1 .. Len(stack)
      /\ \A i \in 1 .. Len(stack) : stack[i] \in Buffers
  BY DEF IInv, Types
<1>2. \A i \in DOMAIN stack : /\ stack[i].file \in Name /\ stack[i].name \in Name
                              /\ stack[i].line \in Nat /\ stack[i].left \in Nat
  BY <1>1 DEF Buffers
<1>3. ASSUME failure = "none", NEW i \in 1 .. Len(stack),
             NEW end, end = IF i = Len(stack) THEN Len(conditionals) ELSE stack[i + 1].base
      PROVE  /\ stack[i].base <= end
             /\ stack[i].base = end => stack[i].active
             /\ stack[i].active /\ stack[i].base < end =>
                  conditionals[end].parentActive /\ conditionals[end].branchTaken
             /\ i < Len(stack) => stack[i].active
  BY <1>3 DEF IInv, Sound, Nested, EndIn
<1> QED BY <1>1, <1>2, <1>3 DEF TypeOK, IInv, Types

(***************************************************************************)
(* The include stack, the stack of conditional groups and the limits of    *)
(* the request fit together in every state.                                *)
(***************************************************************************)
THEOREM TypeCorrect == Spec => []TypeOK
<1>1. Spec => []IInv
  BY InitHolds, StepHolds, PTL DEF Spec
<1> QED BY <1>1, SoundIsTypeOK, PTL

(***************************************************************************)
(* No source is ever read within itself, however #line directives rename   *)
(* sources and whatever the resolver answers.                              *)
(***************************************************************************)
THEOREM InclusionIsNotRecursive == Spec => []NoSourceWithinItself
<1>1. Spec => []IInv
  BY InitHolds, StepHolds, PTL DEF Spec
<1>2. IInv => NoSourceWithinItself
  BY DEF IInv
<1> QED BY <1>1, <1>2, PTL

-----------------------------------------------------------------------------
(* The log.                                                                *)

Directive ==
  [kind : {"text", "else", "endif", "include"}]
  \union [kind : {"if", "elif"}, macro : Macro, defined : BOOLEAN]
  \union [kind : {"define", "undef"}, macro : Macro]
  \union [kind : {"line"}, name : Name, number : Nat]
Entry == [input : Nat, buffer : Nat, file : Name, line : Directive]

\* The lines of a buffer, and how many of its groups are open now.
Lines(b) == {j \in DOMAIN log : log[j].buffer = b}
Depth(b) ==
  Cardinality({j \in Lines(b) : Kind(j) = "if"})
    - Cardinality({j \in Lines(b) : Kind(j) = "endif"})

\* Does the group that opens at j enclose the next line of b, and where do
\* its branches begin so far?
Around(j, b) ==
  /\ j \in Lines(b) /\ Kind(j) = "if" /\ Depth(b) > Level(j)
  /\ \A k \in Lines(b) : k > j => Level(k) > Level(j)
Arms(j, b) ==
  {j} \union {k \in Lines(b) : /\ k > j /\ Kind(k) \in {"elif", "else"}
                               /\ Level(k) = Level(j) + 1}

\* Is a macro defined for the next line, and does the condition at k hold?
Changes(macro, last, of, S) ==
  {j \in 1 .. last : /\ log[j].input = of /\ S[j]
                     /\ Kind(j) \in {"define", "undef"} /\ log[j].line.macro = macro}
Defined(macro, changes) ==
  IF changes = {} THEN macro \in Predefined ELSE Kind(Max(changes)) = "define"
Holds(k, S) ==
  Kind(k) = "else" \/
  Defined(log[k].line.macro, Changes(log[k].line.macro, k - 1, log[k].input, S)) = log[k].line.defined

\* The last of the branches is the first whose condition holds.
Chosen(arms, S) ==
  Holds(Max(arms), S) /\ \A k \in arms \ {Max(arms)} : ~ Holds(k, S)

\* Is the next line of b selected?
Sel(b, S) == \A j \in Lines(b) : Around(j, b) => Chosen(Arms(j, b), S)

\* What the stack knows of a group.
GroupIs(group, j, b, S) ==
  /\ group.elseSeen <=> \E m \in Arms(j, b) : Kind(m) = "else"
  /\ group.parentActive <=> S[j]
  /\ S[j] => (group.branchTaken <=> \E m \in Arms(j, b) : Holds(m, S))

\* What the stack knows of a buffer whose groups end at end.
Describes(buffer, end, groups, S) ==
  /\ Depth(buffer.id) = end - buffer.base
  /\ \A c \in buffer.base + 1 .. end :
       \E j \in Lines(buffer.id) : /\ Around(j, buffer.id) /\ Level(j) = c - buffer.base - 1
                                   /\ GroupIs(groups[c], j, buffer.id, S)
  /\ buffer.active <=> Sel(buffer.id, S)

Logged ==
  /\ log \in Seq(Entry)
  /\ \A i \in DOMAIN log : log[i].input <= input /\ log[i].buffer <= input + includeFileCount

Known ==
  \A k \in DOMAIN stack :
    \A buffer \in {stack[k]}, end \in {EndIn(stack, conditionals, k)},
       groups \in {conditionals}, S \in {Selection} :
      Describes(buffer, end, groups, S)

Follows ==
  /\ \A k \in DOMAIN stack : stack[k].id <= input + includeFileCount
  /\ \A i, k \in DOMAIN stack : i < k => stack[i].id < stack[k].id
  /\ Known
  /\ stack # << >> =>
       \A of \in {input}, last \in {Len(log)}, S \in {Selection}, macro \in Macro :
         macro \in macros <=> Defined(macro, Changes(macro, last, of, S))

LInv ==
  /\ Logged
  /\ failure = "none" => Follows

-----------------------------------------------------------------------------
(* A line is read.                                                         *)

(***************************************************************************)
(* The log grows by one entry, as every line that is taken makes it.       *)
(***************************************************************************)
LEMMA LogGrows ==
  ASSUME log \in Seq(Entry), NEW e \in Entry, log' = Append(log, e), NEW l \in Nat, l = Len(log)
  PROVE  /\ log' \in Seq(Entry) /\ Len(log') = l + 1
         /\ DOMAIN log = 1 .. l /\ DOMAIN log' = 1 .. l + 1
         /\ \A i \in 1 .. l : log[i] \in Entry /\ log'[i] = log[i]
         /\ log'[l + 1] = e
OBVIOUS

(***************************************************************************)
(* The lines of a buffer before a line are finitely many, and so levels    *)
(* and depths are numbers.                                                 *)
(***************************************************************************)
LEMMA LevelType ==
  ASSUME log \in Seq(Entry)
  PROVE  /\ \A i \in Nat : Level(i) \in Int
         /\ \A b : Depth(b) \in Int
<1>1. PICK l \in Nat : l = Len(log)
  OBVIOUS
<1>2. ASSUME NEW n \in Nat, NEW set \in SUBSET (1 .. n) PROVE IsFiniteSet(set) /\ Cardinality(set) \in Nat
  <2>1. IsFiniteSet(1 .. n)
    BY FS_Interval
  <2>2. IsFiniteSet(set)
    BY <2>1, FS_Subset
  <2> QED BY <2>2, FS_CardinalityType
<1>3. ASSUME NEW i \in Nat PROVE Level(i) \in Int
  <2> DEFINE ifs == {j \in Before(i) : Kind(j) = "if"}
             endifs == {j \in Before(i) : Kind(j) = "endif"}
  <2>0. PICK n \in Nat : n = IF i = 0 THEN 0 ELSE i - 1
    OBVIOUS
  <2>1. ifs \in SUBSET (1 .. n) /\ endifs \in SUBSET (1 .. n)
    BY <2>0 DEF Before
  <2> HIDE DEF ifs, endifs
  <2>2. Cardinality(ifs) \in Nat /\ Cardinality(endifs) \in Nat
    BY <1>2, <2>1
  <2> QED BY <2>2 DEF Level, ifs, endifs
<1>4. ASSUME NEW b PROVE Depth(b) \in Int
  <2> DEFINE ifs == {j \in Lines(b) : Kind(j) = "if"}
             endifs == {j \in Lines(b) : Kind(j) = "endif"}
  <2>1. ifs \in SUBSET (1 .. l) /\ endifs \in SUBSET (1 .. l)
    BY <1>1 DEF Lines
  <2> HIDE DEF ifs, endifs
  <2>2. Cardinality(ifs) \in Nat /\ Cardinality(endifs) \in Nat
    BY <1>1, <1>2, <2>1
  <2> QED BY <2>2 DEF Depth, ifs, endifs
<1> QED BY <1>3, <1>4

(***************************************************************************)
(* What is said of a line that was read does not change any more.          *)
(***************************************************************************)
LEMMA OldLines ==
  ASSUME log \in Seq(Entry), NEW e \in Entry, log' = Append(log, e), NEW l \in Nat, l = Len(log),
         NEW i \in 1 .. l
  PROVE  /\ Kind(i)' = Kind(i) /\ log'[i] = log[i]
         /\ Before(i)' = Before(i) /\ Before(i) \subseteq 1 .. i - 1
         /\ Level(i)' = Level(i)
         /\ \A j \in Before(i) : /\ Encloses(j, i)' <=> Encloses(j, i)
                                 /\ Branches(j, i)' = Branches(j, i)
<1>1. \A j \in 1 .. l : log'[j] = log[j]
  BY LogGrows
<1>2. \A j \in 1 .. l : Kind(j)' = Kind(j)
  BY <1>1 DEF Kind
<1>3. \A j \in 1 .. l : /\ Before(j)' = Before(j) /\ Before(j) \subseteq 1 .. j - 1
                        /\ Before(j) \subseteq 1 .. l
  <2> SUFFICES ASSUME NEW j \in 1 .. l
               PROVE  /\ Before(j)' = Before(j) /\ Before(j) \subseteq 1 .. j - 1
                      /\ Before(j) \subseteq 1 .. l
    OBVIOUS
  <2>1. \A k \in 1 .. j - 1 : k \in 1 .. l /\ log'[k] = log[k] /\ log'[j] = log[j]
    BY <1>1
  <2> QED BY <2>1 DEF Before, SameBuffer
<1>4. \A j \in 1 .. l : Level(j)' = Level(j)
  <2> SUFFICES ASSUME NEW j \in 1 .. l PROVE Level(j)' = Level(j)
    OBVIOUS
  <2>1. Before(j)' = Before(j) /\ \A k \in Before(j) : Kind(k)' = Kind(k)
    BY <1>2, <1>3
  <2>2. /\ {k \in Before(j) : Kind(k) = "if"}' = {k \in Before(j) : Kind(k) = "if"}
        /\ {k \in Before(j) : Kind(k) = "endif"}' = {k \in Before(j) : Kind(k) = "endif"}
    BY <2>1
  <2> QED BY <2>2 DEF Level
<1>5. ASSUME NEW j \in Before(i)
      PROVE  /\ Encloses(j, i)' <=> Encloses(j, i)
             /\ Branches(j, i)' = Branches(j, i)
  <2>1. j \in 1 .. l /\ \A k \in Before(i) \union {i} : k \in 1 .. l
    BY <1>3
  <2>2. Before(i)' = Before(i)
    BY <1>3
  <2>3. \A k \in Before(i) \union {i} : Kind(k)' = Kind(k) /\ Level(k)' = Level(k)
    BY <1>2, <1>4, <2>1
  <2>4. Kind(j)' = Kind(j) /\ Level(j)' = Level(j)
    BY <1>2, <1>4, <2>1
  <2>5. Encloses(j, i)' <=> Encloses(j, i)
    BY <2>2, <2>3, <2>4 DEF Encloses
  <2>6. Branches(j, i)' = Branches(j, i)
    BY <2>2, <2>3, <2>4 DEF Branches
  <2> QED BY <2>5, <2>6
<1> QED BY <1>1, <1>2, <1>3, <1>4, <1>5

(***************************************************************************)
(* What is said of the line that is read is what was said of the next line *)
(* of its buffer.                                                          *)
(***************************************************************************)
LEMMA NewLine ==
  ASSUME log \in Seq(Entry), NEW e \in Entry, log' = Append(log, e), NEW l \in Nat, l = Len(log),
         NEW b, b = e.buffer
  PROVE  /\ Kind(l + 1)' = e.line.kind /\ log'[l + 1] = e
         /\ Before(l + 1)' = Lines(b)
         /\ Level(l + 1)' = Depth(b)
         /\ \A j \in Lines(b) : /\ Encloses(j, l + 1)' <=> Around(j, b)
                                /\ Branches(j, l + 1)' = Arms(j, b)
<1> DEFINE N == l + 1
<1>1. /\ \A j \in 1 .. l : log'[j] = log[j] /\ Kind(j)' = Kind(j) /\ Level(j)' = Level(j)
      /\ log'[N] = e /\ Kind(N)' = e.line.kind /\ DOMAIN log = 1 .. l
  BY LogGrows, OldLines DEF Kind
<1>2. Before(N)' = Lines(b)
  <2>1. 1 .. N - 1 = 1 .. l
    OBVIOUS
  <2>2. Before(N)' = {j \in 1 .. N - 1 : log'[N].buffer = log'[j].buffer}
    BY DEF Before, SameBuffer
  <2> HIDE DEF N
  <2> QED BY <1>1, <2>1, <2>2 DEF Lines
<1>3. Lines(b) \subseteq 1 .. l /\ l \in Int
  BY <1>1 DEF Lines
<1> HIDE DEF N
<1>4. Level(N)' = Depth(b)
  <2>1. \A j \in Lines(b) : Kind(j)' = Kind(j)
    BY <1>1, <1>3
  <2>2. /\ {k \in Before(N) : Kind(k) = "if"}' = {k \in Lines(b) : Kind(k) = "if"}
        /\ {k \in Before(N) : Kind(k) = "endif"}' = {k \in Lines(b) : Kind(k) = "endif"}
    BY <1>2, <2>1
  <2> QED BY <2>2 DEF Level, Depth
<1>5. ASSUME NEW j \in Lines(b)
      PROVE  /\ Encloses(j, N)' <=> Around(j, b)
             /\ Branches(j, N)' = Arms(j, b)
  <2>1. j \in 1 .. l /\ N > j
    BY <1>3 DEF N
  <2>2. \A k \in Lines(b) : Kind(k)' = Kind(k) /\ Level(k)' = Level(k)
    BY <1>1, <1>3
  <2>3. Kind(j)' = Kind(j) /\ Level(j)' = Level(j)
    BY <2>2
  <2>4. Encloses(j, N)' <=> /\ j \in Lines(b) /\ Kind(j) = "if"
                            /\ \A k \in Lines(b) \union {N} : k > j => Level(k)' > Level(j)
    BY <1>2, <2>3 DEF Encloses
  <2>5. Encloses(j, N)' <=> Around(j, b)
    BY <1>4, <2>1, <2>2, <2>4 DEF Around
  <2>6. Branches(j, N)' = Arms(j, b)
    BY <1>2, <2>2, <2>3 DEF Branches, Arms
  <2> QED BY <2>5, <2>6
<1> QED BY <1>1, <1>2, <1>4, <1>5 DEF N

(***************************************************************************)
(* Groups around a line are nested: their levels tell them apart, and what *)
(* encloses the opening of a group encloses the group.                     *)
(***************************************************************************)
LEMMA AroundNests ==
  ASSUME log \in Seq(Entry), NEW b, NEW j \in Lines(b), Around(j, b)
  PROVE  /\ Level(j) \in Int /\ Depth(b) \in Int /\ Level(j) < Depth(b)
         /\ \A i \in Lines(b) : Around(i, b) /\ Level(i) = Level(j) => i = j
         /\ Before(j) \subseteq Lines(b)
         /\ \A i \in Lines(b) :
              /\ i \in Before(j) /\ Encloses(i, j) <=> Around(i, b) /\ Level(i) < Level(j)
              /\ Around(i, b) /\ Level(i) < Level(j) => Branches(i, j) = Arms(i, b)
<1>0. PICK l \in Nat : l = Len(log)
  OBVIOUS
<1>1. /\ \A i \in Lines(b) : i \in 1 .. l /\ i \in Nat /\ log[i].buffer = b /\ Level(i) \in Int
      /\ Depth(b) \in Int
  <2>1. \A i \in Lines(b) : i \in 1 .. l /\ log[i].buffer = b
    BY <1>0 DEF Lines
  <2> QED BY <2>1, LevelType
<1>2. Level(j) < Depth(b) /\ Kind(j) = "if"
  BY <1>1 DEF Around
<1>3. ASSUME NEW i \in Lines(b), Around(i, b), Level(i) = Level(j) PROVE i = j
  BY <1>1, <1>3 DEF Around
<1>4. Before(j) = {i \in Lines(b) : i < j}
  <2>1. \A i \in 1 .. j - 1 : i \in 1 .. l
    BY <1>0, <1>1
  <2>2. \A i \in 1 .. l : i \in 1 .. j - 1 <=> i < j
    BY <1>1
  <2>3. log[j].buffer = b
    BY <1>1
  <2> QED BY <1>0, <2>1, <2>2, <2>3 DEF Before, SameBuffer, Lines
<1>5. ASSUME NEW i \in Lines(b), i \in Before(j), Encloses(i, j)
      PROVE  Around(i, b) /\ Level(i) < Level(j)
  <2>1. /\ i < j /\ Kind(i) = "if" /\ Level(j) > Level(i)
        /\ \A k \in Lines(b) : k < j /\ k > i => Level(k) > Level(i)
    BY <1>4, <1>5 DEF Encloses
  <2>2. ASSUME NEW k \in Lines(b), k > i PROVE Level(k) > Level(i)
    <3>1. CASE k < j
      BY <2>1, <2>2, <3>1
    <3>2. CASE k = j
      BY <2>1, <3>2
    <3>3. CASE k > j
      <4>1. Level(k) > Level(j)
        BY <3>3 DEF Around
      <4> QED BY <1>1, <2>1, <4>1
    <3> QED BY <1>1, <3>1, <3>2, <3>3
  <2>3. Depth(b) > Level(i)
    BY <1>1, <1>2, <2>1
  <2>4. Around(i, b)
    BY <2>1, <2>2, <2>3 DEF Around
  <2> QED BY <1>1, <2>1, <2>4
<1>6. ASSUME NEW i \in Lines(b), Around(i, b), Level(i) < Level(j)
      PROVE  i \in Before(j) /\ Encloses(i, j) /\ Branches(i, j) = Arms(i, b)
  <2>1. i < j
    <3>1. ~ (i > j)
      <4>1. i > j => Level(i) > Level(j)
        BY DEF Around
      <4> QED BY <1>1, <1>6, <4>1
    <3> QED BY <1>1, <1>6, <3>1
  <2>2. i \in Before(j)
    BY <1>4, <2>1
  <2>3. Encloses(i, j)
    <3>1. \A k \in Before(j) : k > i => Level(k) > Level(i)
      BY <1>4, <1>6 DEF Around
    <3>2. Level(j) > Level(i)
      BY <1>1, <1>6
    <3>3. Kind(i) = "if"
      BY <1>6 DEF Around
    <3> QED BY <2>2, <3>1, <3>2, <3>3 DEF Encloses
  <2>4. ASSUME NEW k \in Lines(b), k > i, Kind(k) \in {"elif", "else"}, Level(k) = Level(i) + 1
        PROVE  k < j
    <3>1. k # j
      BY <1>2, <2>4
    <3>2. k > j => Level(k) > Level(j)
      BY DEF Around
    <3>3. ~ (k > j)
      BY <1>1, <1>6, <2>4, <3>2
    <3> QED BY <1>1, <3>1, <3>3
  <2>5. Branches(i, j) = Arms(i, b)
    BY <1>4, <2>4 DEF Branches, Arms
  <2> QED BY <2>2, <2>3, <2>5
<1> QED BY <1>1, <1>2, <1>3, <1>4, <1>5, <1>6

\* A line opens a group, or closes one.
Step(kind) == IF kind = "if" THEN 1 ELSE IF kind = "endif" THEN -1 ELSE 0

(***************************************************************************)
(* The depth of a buffer follows its lines.                                *)
(***************************************************************************)
LEMMA DepthStep ==
  ASSUME log \in Seq(Entry), NEW e \in Entry, log' = Append(log, e), NEW l \in Nat, l = Len(log),
         NEW b, b = e.buffer
  PROVE  /\ Lines(b)' = Lines(b) \union {l + 1} /\ l + 1 \notin Lines(b)
         /\ Lines(b) \subseteq 1 .. l
         /\ Depth(b)' = Depth(b) + Step(e.line.kind)
<1>1. /\ \A j \in 1 .. l : log'[j] = log[j] /\ Kind(j)' = Kind(j)
      /\ log'[l + 1] = e /\ Kind(l + 1)' = e.line.kind
      /\ DOMAIN log = 1 .. l /\ DOMAIN log' = 1 .. l + 1
  BY LogGrows, OldLines DEF Kind
<1> DEFINE N == l + 1
<1>2. 1 .. l + 1 = 1 .. l \union {N} /\ N \notin 1 .. l
  OBVIOUS
<1>3. Lines(b)' = Lines(b) \union {N} /\ Lines(b) \subseteq 1 .. l /\ N \notin Lines(b)
  BY <1>1, <1>2 DEF Lines
<1> DEFINE Of(kind) == {j \in Lines(b) : Kind(j) = kind}
           OfNext(kind) == {j \in Lines(b)' : Kind(j)' = kind}
<1> HIDE DEF N
<1>4. ASSUME NEW kind
      PROVE  /\ OfNext(kind) = IF e.line.kind = kind THEN Of(kind) \union {N} ELSE Of(kind)
             /\ N \notin Of(kind) /\ IsFiniteSet(Of(kind)) /\ Cardinality(Of(kind)) \in Nat
  <2>1. \A j \in Lines(b) : Kind(j)' = Kind(j)
    BY <1>1, <1>3
  <2>2. Kind(N)' = e.line.kind
    BY <1>1 DEF N
  <2>3. OfNext(kind) = IF e.line.kind = kind THEN Of(kind) \union {N} ELSE Of(kind)
    BY <1>3, <2>1, <2>2
  <2>4. Of(kind) \in SUBSET (1 .. l) /\ N \notin Of(kind)
    BY <1>3
  <2>5. IsFiniteSet(1 .. l)
    BY FS_Interval
  <2>6. IsFiniteSet(Of(kind))
    BY <2>4, <2>5, FS_Subset
  <2> QED BY <2>3, <2>4, <2>6, FS_CardinalityType
<1>5. ASSUME NEW kind
      PROVE  Cardinality(OfNext(kind)) = Cardinality(Of(kind)) + IF e.line.kind = kind THEN 1 ELSE 0
  <2> HIDE DEF Of, OfNext
  <2>1. Cardinality(Of(kind) \union {N}) = Cardinality(Of(kind)) + 1
    BY <1>4, FS_AddElement
  <2>2. CASE e.line.kind = kind
    BY <1>4, <2>1, <2>2
  <2>3. CASE e.line.kind # kind
    BY <1>4, <2>3
  <2> QED BY <2>2, <2>3
<1>6. Depth(b) = Cardinality(Of("if")) - Cardinality(Of("endif"))
  BY DEF Depth
<1>7. Depth(b)' = Cardinality(OfNext("if")) - Cardinality(OfNext("endif"))
  BY DEF Depth
<1> HIDE DEF Of, OfNext
<1>8. Depth(b)' = Depth(b) + Step(e.line.kind)
  <2>1. Cardinality(Of("if")) \in Nat /\ Cardinality(Of("endif")) \in Nat
    BY <1>4
  <2>2. /\ Cardinality(OfNext("if")) = Cardinality(Of("if")) + IF e.line.kind = "if" THEN 1 ELSE 0
        /\ Cardinality(OfNext("endif")) = Cardinality(Of("endif")) + IF e.line.kind = "endif" THEN 1 ELSE 0
    BY <1>5
  <2> QED BY <1>6, <1>7, <2>1, <2>2 DEF Step
<1> QED BY <1>3, <1>8 DEF N

\* What the line at N does to the groups of its buffer b.
GroupsMove(b, kind, N) ==
  /\ \A j \in Lines(b) :
       /\ Around(j, b)' <=> Around(j, b) /\ (kind = "endif" => Level(j) < Depth(b) - 1)
       /\ Level(j)' = Level(j)
       /\ Around(j, b) =>
            Arms(j, b)' = Arms(j, b) \union
              IF kind \in {"elif", "else"} /\ Level(j) = Depth(b) - 1 THEN {N} ELSE {}
  /\ Level(N)' = Depth(b)
  /\ Around(N, b)' <=> kind = "if"
  /\ Arms(N, b)' = {N}

(***************************************************************************)
(* What a line does to the groups of its buffer: it opens one, closes the  *)
(* innermost, or begins another of its branches.                           *)
(***************************************************************************)
LEMMA GroupsStep ==
  ASSUME log \in Seq(Entry), NEW e \in Entry, log' = Append(log, e), NEW l \in Nat, l = Len(log),
         NEW b, b = e.buffer, NEW kind, kind = e.line.kind
  PROVE  GroupsMove(b, kind, l + 1)
<1>1. /\ Lines(b)' = Lines(b) \union {l + 1} /\ l + 1 \notin Lines(b)
      /\ Lines(b) \subseteq 1 .. l
      /\ Depth(b)' = Depth(b) + Step(kind)
  BY DepthStep
<1>2. /\ \A j \in Lines(b) : Kind(j)' = Kind(j) /\ Level(j)' = Level(j)
      /\ Kind(l + 1)' = kind /\ Level(l + 1)' = Depth(b)
  <2>1. \A j \in 1 .. l : Kind(j)' = Kind(j) /\ Level(j)' = Level(j)
    BY OldLines
  <2> QED BY <1>1, <2>1, NewLine
<1>3. /\ \A j \in Lines(b) : j \in Nat /\ j < l + 1 /\ Level(j) \in Int
      /\ Depth(b) \in Int /\ Step(kind) \in {-1, 0, 1}
  <2>1. \A j \in Lines(b) : j \in 1 .. l
    BY <1>1
  <2> QED BY <2>1, LevelType DEF Step
<1> DEFINE N == l + 1
<1>4. N > l /\ \A j \in Lines(b) : ~ (j > N) /\ N > j
  BY <1>3
<1>5. Lines(b)' = Lines(b) \union {N} /\ N \notin Lines(b) /\ Kind(N)' = kind /\ Level(N)' = Depth(b)
  BY <1>1, <1>2
<1> HIDE DEF N
<1>6. ASSUME NEW j \in Lines(b)
      PROVE  Around(j, b)' <=> Around(j, b) /\ (kind = "endif" => Level(j) < Depth(b) - 1)
  <2>1. Around(j, b)' <=> /\ Kind(j) = "if" /\ Depth(b) + Step(kind) > Level(j)
                          /\ \A k \in Lines(b) \union {N} : k > j => Level(k)' > Level(j)
    BY <1>1, <1>2, <1>5 DEF Around
  <2>2. (\A k \in Lines(b) \union {N} : k > j => Level(k)' > Level(j)) <=>
          Depth(b) > Level(j) /\ \A k \in Lines(b) : k > j => Level(k) > Level(j)
    BY <1>2, <1>4, <1>5
  <2>3. Around(j, b)' <=> Around(j, b) /\ Depth(b) + Step(kind) > Level(j)
    BY <2>1, <2>2 DEF Around
  <2>4. Around(j, b) => (Depth(b) + Step(kind) > Level(j) <=> (kind = "endif" => Level(j) < Depth(b) - 1))
    <3>1. Around(j, b) => Depth(b) > Level(j)
      BY DEF Around
    <3>2. Level(j) \in Int /\ Depth(b) \in Int
      BY <1>3
    <3> QED BY <3>1, <3>2 DEF Step
  <2> QED BY <2>3, <2>4
<1>7. ASSUME NEW j \in Lines(b), Around(j, b)
      PROVE  Arms(j, b)' = Arms(j, b) \union
               IF kind \in {"elif", "else"} /\ Level(j) = Depth(b) - 1 THEN {N} ELSE {}
  <2>1. Arms(j, b)' = {j} \union {k \in Lines(b) \union {N} :
                          k > j /\ Kind(k)' \in {"elif", "else"} /\ Level(k)' = Level(j) + 1}
    BY <1>2, <1>5 DEF Arms
  <2>2. Level(j) = Depth(b) - 1 <=> Depth(b) = Level(j) + 1
    BY <1>3
  <2> QED BY <1>2, <1>4, <1>5, <2>1, <2>2 DEF Arms
<1>8. Around(N, b)' <=> kind = "if"
  <2>1. \A k \in Lines(b)' : ~ (k > N)
    <3>1. ~ (N > N)
      BY <1>4 DEF N
    <3> QED BY <1>4, <1>5, <3>1
  <2>2. kind = "if" => Depth(b)' > Level(N)'
    <3>1. Depth(b) \in Int
      BY <1>3
    <3> QED BY <1>1, <1>5, <3>1 DEF Step
  <2> QED BY <1>5, <2>1, <2>2 DEF Around
<1>9. Arms(N, b)' = {N}
  <2>1. \A k \in Lines(b)' : ~ (k > N)
    <3>1. ~ (N > N)
      BY <1>4 DEF N
    <3> QED BY <1>4, <1>5, <3>1
  <2> QED BY <2>1 DEF Arms
<1>10. \A j \in Lines(b) : Level(j)' = Level(j)
  BY <1>2
<1>11. GroupsMove(b, kind, N)
  BY <1>5, <1>6, <1>7, <1>8, <1>9, <1>10 DEF GroupsMove
<1> QED BY <1>11 DEF N

(***************************************************************************)
(* The groups of a buffer are not touched by lines of other buffers.       *)
(***************************************************************************)
LEMMA OtherBuffers ==
  ASSUME log \in Seq(Entry), NEW e \in Entry, log' = Append(log, e), NEW l \in Nat, l = Len(log),
         NEW b, b # e.buffer
  PROVE  /\ Lines(b)' = Lines(b) /\ Depth(b)' = Depth(b)
         /\ \A j \in Lines(b) : /\ Around(j, b)' <=> Around(j, b)
                                /\ Arms(j, b)' = Arms(j, b) /\ Level(j)' = Level(j)
<1>1. /\ \A j \in 1 .. l : log'[j] = log[j] /\ Kind(j)' = Kind(j) /\ Level(j)' = Level(j)
      /\ log'[l + 1] = e /\ DOMAIN log = 1 .. l /\ DOMAIN log' = 1 .. l + 1
  BY LogGrows, OldLines
<1>2. 1 .. l + 1 = 1 .. l \union {l + 1}
  OBVIOUS
<1>3. Lines(b)' = Lines(b) /\ \A j \in Lines(b) : j \in 1 .. l
  BY <1>1, <1>2 DEF Lines
<1>4. \A j \in Lines(b) : Kind(j)' = Kind(j) /\ Level(j)' = Level(j)
  BY <1>1, <1>3
<1>5. Depth(b)' = Depth(b)
  <2>1. /\ {k \in Lines(b) : Kind(k) = "if"}' = {k \in Lines(b) : Kind(k) = "if"}
        /\ {k \in Lines(b) : Kind(k) = "endif"}' = {k \in Lines(b) : Kind(k) = "endif"}
    BY <1>3, <1>4
  <2> QED BY <2>1 DEF Depth
<1>6. ASSUME NEW j \in Lines(b)
      PROVE  (Around(j, b)' <=> Around(j, b)) /\ Arms(j, b)' = Arms(j, b)
  BY <1>3, <1>4, <1>5 DEF Around, Arms
<1> QED BY <1>3, <1>4, <1>5, <1>6

-----------------------------------------------------------------------------
(* The lines that are selected.                                            *)

(***************************************************************************)
(* Whether a line is selected, with the names of this module.              *)
(***************************************************************************)
LEMMA SelectedForm ==
  ASSUME NEW i, NEW S
  PROVE  IsSelected(i, S) <=> \A j \in Before(i) : Encloses(j, i) => Chosen(Branches(j, i), S)
BY DEF IsSelected, Chosen, Holds, Defined, Changes, SameInput

(***************************************************************************)
(* A condition depends on the lines before it only.                        *)
(***************************************************************************)
LEMMA HoldsAgrees ==
  ASSUME NEW k \in Nat, NEW S, NEW T, \A j \in 1 .. k - 1 : S[j] <=> T[j]
  PROVE  Holds(k, S) <=> Holds(k, T)
<1>1. \A macro, of : Changes(macro, k - 1, of, S) = Changes(macro, k - 1, of, T)
  BY DEF Changes
<1> QED BY <1>1 DEF Holds

(***************************************************************************)
(* So does whether a line is selected.                                     *)
(***************************************************************************)
LEMMA SelectedAgrees ==
  ASSUME log \in Seq(Entry), NEW i \in Nat, NEW S, NEW T, \A j \in 1 .. i - 1 : S[j] <=> T[j]
  PROVE  IsSelected(i, S) <=> IsSelected(i, T)
<1>1. ASSUME NEW j \in Before(i)
      PROVE  Chosen(Branches(j, i), S) <=> Chosen(Branches(j, i), T)
  <2> DEFINE arms == Branches(j, i)
  <2>1. arms \in SUBSET (1 .. i - 1) /\ arms # {}
    BY DEF Branches, Before
  <2> HIDE DEF arms
  <2>2. PICK n \in Nat : n = i - 1
    <3>1. \E k \in arms : k \in 1 .. i - 1
      BY <2>1
    <3>2. i - 1 \in Nat
      BY <3>1
    <3> QED BY <3>2
  <2>3. Max(arms) \in arms
    BY <2>1, <2>2, LargestExists
  <2>4. \A k \in arms : Holds(k, S) <=> Holds(k, T)
    <3> SUFFICES ASSUME NEW k \in arms PROVE Holds(k, S) <=> Holds(k, T)
      OBVIOUS
    <3>1. k \in Nat /\ \A m \in 1 .. k - 1 : m \in 1 .. i - 1
      BY <2>1
    <3> QED BY <3>1, HoldsAgrees
  <2> QED BY <2>3, <2>4 DEF Chosen, arms
<1> QED BY <1>1, SelectedForm

\* S says of every line whether it is selected.
Selects(S) ==
  /\ S \in Seq(BOOLEAN) /\ Len(S) = Len(log)
  /\ \A i \in 1 .. Len(log) : S[i] <=> IsSelected(i, S)

\* f goes through the lines of the log.
Scans(f, n) ==
  /\ f[1 .. 0] = << >>
  /\ \A m \in 0 .. n - 1 : f[1 .. m + 1] = Append(f[1 .. m], IsSelected(Len(f[1 .. m]) + 1, f[1 .. m]))

(***************************************************************************)
(* The fold takes line by line.                                            *)
(***************************************************************************)
LEMMA SelectionSteps ==
  ASSUME log \in Seq(Entry), NEW n \in Nat, n = Len(log)
  PROVE  \E f : Scans(f, n) /\ Selection = f[1 .. n]
<1> DEFINE V == Seq(BOOLEAN)
           none == << >>
           next(s) == Append(s, IsSelected(Len(s) + 1, s))
           step == [p \in V \X (1 .. n) |-> next(p[1])]
           Is(f) == f = [s \in SUBSET (1 .. n) |-> IF s = {} THEN none ELSE next(f[s \ {Max(s)}])]
           f == CHOOSE f : Is(f)
<1>1. DOMAIN log = 1 .. n
  OBVIOUS
<1>2. \A s \in V : next(s) \in V
  <2> SUFFICES ASSUME NEW s \in V PROVE next(s) \in V
    OBVIOUS
  <2>1. IsSelected(Len(s) + 1, s) \in BOOLEAN
    BY SelectedForm
  <2> DEFINE sel == IsSelected(Len(s) + 1, s)
  <2> HIDE DEF sel
  <2>2. sel \in BOOLEAN
    BY <2>1 DEF sel
  <2>3. Append(s, sel) \in Seq(BOOLEAN)
    BY <2>2
  <2> QED BY <2>3 DEF sel
<1>3. Is(f)
  <2>1. step \in [V \X (1 .. n) -> V] /\ none \in V
    <3> HIDE DEF next
    <3> QED BY <1>2
  <2>2. \A v \in V, i \in 1 .. n : step[<< v, i >>] = next(v)
    <3> HIDE DEF next
    <3> QED OBVIOUS
  <2> HIDE DEF step, V, none, next
  <2>3. PICK g \in [SUBSET (1 .. n) -> V] : FoldsBy(g, none, n, step)
    BY <2>1, FoldExists
  <2>4. \A s \in SUBSET (1 .. n) : s # {} => Max(s) \in 1 .. n /\ g[s \ {Max(s)}] \in V
    <3> SUFFICES ASSUME NEW s \in SUBSET (1 .. n), s # {}
                 PROVE  Max(s) \in 1 .. n /\ g[s \ {Max(s)}] \in V
      OBVIOUS
    <3>1. Max(s) \in s
      BY LargestExists
    <3> QED BY <3>1
  <2>5. \A s \in SUBSET (1 .. n) : g[s] = IF s = {} THEN none ELSE next(g[s \ {Max(s)}])
    BY <2>2, <2>3, <2>4 DEF FoldsBy
  <2>6. Is(g)
    BY <2>5
  <2> HIDE DEF Is
  <2> QED BY <2>6
<1>4. Selection = f[1 .. n]
  BY <1>1 DEF Selection, FoldLeft, MapThenFoldSet
<1> HIDE DEF f
<1>5. \A s \in SUBSET (1 .. n) : f[s] = IF s = {} THEN none ELSE next(f[s \ {Max(s)}])
  <2> HIDE DEF next, none
  <2> QED BY <1>3
<1>6. f[1 .. 0] = none
  <2>1. 1 .. 0 = {} /\ {} \in SUBSET (1 .. n)
    OBVIOUS
  <2> HIDE DEF next, none
  <2> QED BY <1>5, <2>1
<1>7. ASSUME NEW m \in 0 .. n - 1
      PROVE  f[1 .. m + 1] = next(f[1 .. m])
  <2>1. m \in Nat /\ 1 .. m + 1 \in SUBSET (1 .. n) /\ 1 .. m + 1 # {}
    <3>1. m \in Nat /\ m + 1 <= n /\ m + 1 \in 1 .. m + 1
      OBVIOUS
    <3>2. 1 .. m + 1 \subseteq 1 .. n
      BY <3>1
    <3> QED BY <3>1, <3>2
  <2>2. Max(1 .. m + 1) = m + 1 /\ (1 .. m + 1) \ {m + 1} = 1 .. m
    BY <2>1, LargestFirst
  <2> DEFINE s == 1 .. m + 1
  <2> HIDE DEF s, next, none
  <2>3. f[s] = next(f[s \ {Max(s)}])
    BY <1>5, <2>1 DEF s
  <2> QED BY <2>2, <2>3 DEF s
<1>8. Scans(f, n)
  BY <1>6, <1>7 DEF Scans
<1> QED BY <1>4, <1>8

(***************************************************************************)
(* The selection says of every line whether it is selected.                *)
(***************************************************************************)
LEMMA SelectionFacts == log \in Seq(Entry) => Selects(Selection)
<1> SUFFICES ASSUME log \in Seq(Entry) PROVE Selects(Selection)
  OBVIOUS
<1>1. PICK n \in Nat : n = Len(log)
  OBVIOUS
<1>2. PICK f : Scans(f, n) /\ Selection = f[1 .. n]
  BY <1>1, SelectionSteps
<1> DEFINE Good(m) == /\ f[1 .. m] \in Seq(BOOLEAN) /\ Len(f[1 .. m]) = m
                      /\ \A i \in 1 .. m : f[1 .. m][i] <=> IsSelected(i, f[1 .. m])
           T == {m \in 0 .. n : Good(m)}
<1>3. 0 \in T
  <2>1. f[1 .. 0] = << >>
    BY <1>2 DEF Scans
  <2> DEFINE none == << >>
  <2>2. none \in Seq(BOOLEAN) /\ Len(none) = 0
    OBVIOUS
  <2>3. f[1 .. 0] = none /\ 0 \in 0 .. n /\ 1 .. 0 = {}
    BY <2>1
  <2> HIDE DEF none
  <2>4. f[1 .. 0] \in Seq(BOOLEAN) /\ Len(f[1 .. 0]) = 0
    BY <2>2, <2>3
  <2>5. \A i \in 1 .. 0 : f[1 .. 0][i] <=> IsSelected(i, f[1 .. 0])
    BY <2>3
  <2> QED BY <2>3, <2>4, <2>5
<1>4. ASSUME NEW m \in 0 .. n - 1, m \in T PROVE m + 1 \in T
  <2>1. Good(m) /\ m \in Nat /\ m + 1 \in 0 .. n
    BY <1>4
  <2> DEFINE s == f[1 .. m]
             sel == IsSelected(m + 1, s)
             t == Append(s, sel)
  <2>2. f[1 .. m + 1] = Append(f[1 .. m], IsSelected(m + 1, f[1 .. m]))
    BY <1>2, <2>1 DEF Scans
  <2>3. sel \in BOOLEAN
    BY SelectedForm
  <2>4. s \in Seq(BOOLEAN) /\ Len(s) = m
    BY <2>1
  <2> HIDE DEF sel, s
  <2>5. t \in Seq(BOOLEAN) /\ Len(t) = m + 1 /\ t[m + 1] = sel /\ \A i \in 1 .. m : t[i] = s[i]
    BY <2>1, <2>3, <2>4
  <2> HIDE DEF t
  <2>6. ASSUME NEW i \in 1 .. m + 1 PROVE t[i] <=> IsSelected(i, t)
    <3>1. i \in Nat /\ \A j \in 1 .. i - 1 : j \in 1 .. m
      BY <2>1
    <3>2. \A j \in 1 .. i - 1 : s[j] <=> t[j]
      BY <2>5, <3>1
    <3>3. IsSelected(i, s) <=> IsSelected(i, t)
      BY <3>1, <3>2, SelectedAgrees
    <3>4. CASE i = m + 1
      BY <2>5, <3>3, <3>4 DEF sel
    <3>5. CASE i # m + 1
      <4>1. i \in 1 .. m
        BY <2>1, <3>5
      <4> QED BY <2>1, <2>5, <3>3, <4>1 DEF s
    <3> QED BY <3>4, <3>5
  <2>7. f[1 .. m + 1] = t
    BY <2>2 DEF t, sel, s
  <2>8. Good(m + 1)
    BY <2>5, <2>6, <2>7
  <2> QED BY <2>1, <2>8
<1>5. n \in T
  <2> HIDE DEF T
  <2>1. 0 .. n \subseteq T
    BY <1>3, <1>4, BoundedInduction
  <2> QED BY <2>1
<1> QED BY <1>1, <1>2, <1>5 DEF Selects

(***************************************************************************)
(* A line that is read does not change what is selected before it.         *)
(***************************************************************************)
LEMMA SelectionGrows ==
  ASSUME log \in Seq(Entry), NEW e \in Entry, log' = Append(log, e), NEW l \in Nat, l = Len(log),
         NEW S, Selects(S), NEW T, Selects(T)'
  PROVE  \A i \in 1 .. l : T[i] <=> S[i]
<1>1. /\ S \in Seq(BOOLEAN) /\ Len(S) = l /\ T \in Seq(BOOLEAN) /\ Len(T) = l + 1
      /\ \A i \in 1 .. l : S[i] <=> IsSelected(i, S)
      /\ \A i \in 1 .. l : T[i] <=> IsSelected(i, T)'
  <2>1. Len(log') = l + 1 /\ \A i \in 1 .. l : i \in 1 .. l + 1
    BY LogGrows
  <2> QED BY <2>1 DEF Selects
<1>2. ASSUME NEW i \in 1 .. l PROVE IsSelected(i, T)' <=> IsSelected(i, T)
  <2>1. Before(i)' = Before(i) /\ Before(i) \subseteq 1 .. i - 1
    BY OldLines
  <2>2. \A j \in Before(i) : /\ Encloses(j, i)' <=> Encloses(j, i)
                             /\ Branches(j, i)' = Branches(j, i)
    BY OldLines
  <2>3. \A k \in 1 .. l : Holds(k, T)' <=> Holds(k, T)
    <3>1. \A j \in 1 .. l : log'[j] = log[j] /\ Kind(j)' = Kind(j)
      BY OldLines
    <3> SUFFICES ASSUME NEW k \in 1 .. l PROVE Holds(k, T)' <=> Holds(k, T)
      OBVIOUS
    <3>2. \A j \in 1 .. k - 1 : j \in 1 .. l
      OBVIOUS
    <3> DEFINE changes == Changes(log[k].line.macro, k - 1, log[k].input, T)
    <3>3. Changes(log[k].line.macro, k - 1, log[k].input, T)' = changes /\ changes \in SUBSET (1 .. k - 1)
      BY <3>1, <3>2 DEF Changes
    <3>4. changes # {} => Max(changes) \in 1 .. l
      <4> SUFFICES ASSUME changes # {} PROVE Max(changes) \in 1 .. l
        OBVIOUS
      <4>1. PICK m \in Nat : m = k - 1
        OBVIOUS
      <4> HIDE DEF changes
      <4>2. Max(changes) \in changes
        BY <3>3, <4>1, LargestExists
      <4> QED BY <3>2, <3>3, <4>2
    <3> HIDE DEF changes
    <3>5. Defined(log[k].line.macro, Changes(log[k].line.macro, k - 1, log[k].input, T))' =
            Defined(log[k].line.macro, changes)
      BY <3>1, <3>3, <3>4 DEF Defined
    <3> QED BY <3>1, <3>5 DEF Holds, changes
  <2>4. ASSUME NEW j \in Before(i) PROVE Chosen(Branches(j, i), T)' <=> Chosen(Branches(j, i), T)
    <3> DEFINE arms == Branches(j, i)
    <3>1. arms \in SUBSET (1 .. i - 1) /\ arms # {}
      BY <2>1 DEF Branches
    <3>2. arms' = arms
      BY <2>2
    <3> HIDE DEF arms
    <3>3. PICK m \in Nat : m = i - 1
      OBVIOUS
    <3>4. Max(arms) \in arms
      BY <3>1, <3>3, LargestExists
    <3>5. \A k \in arms : k \in 1 .. l
      BY <3>1
    <3> QED BY <2>3, <3>2, <3>4, <3>5 DEF Chosen, arms
  <2>5. IsSelected(i, T) <=> \A j \in Before(i) : Encloses(j, i) => Chosen(Branches(j, i), T)
    BY SelectedForm
  <2>6. IsSelected(i, T)' <=> (\A j \in Before(i) : Encloses(j, i) => Chosen(Branches(j, i), T))'
    BY DEF IsSelected, Chosen, Holds, Defined, Changes, SameInput
  <2> QED BY <2>1, <2>2, <2>4, <2>5, <2>6
<1> DEFINE G == {m \in 0 .. l : \A i \in 1 .. m : T[i] <=> S[i]}
<1>3. 0 \in G
  OBVIOUS
<1>4. ASSUME NEW m \in 0 .. l - 1, m \in G PROVE m + 1 \in G
  <2>1. m + 1 \in 1 .. l /\ m + 1 \in 0 .. l /\ m + 1 \in Nat /\ (m + 1) - 1 = m
    OBVIOUS
  <2>2. \A i \in 1 .. m : T[i] <=> S[i]
    BY <1>4
  <2>3. IsSelected(m + 1, T) <=> IsSelected(m + 1, S)
    BY <2>1, <2>2, SelectedAgrees
  <2>4. T[m + 1] <=> S[m + 1]
    BY <1>1, <1>2, <2>1, <2>3
  <2>5. \A i \in 1 .. m + 1 : i \in 1 .. m \/ i = m + 1
    OBVIOUS
  <2> QED BY <2>1, <2>2, <2>4, <2>5
<1>5. l \in G
  <2> HIDE DEF G
  <2>1. 0 .. l \subseteq G
    BY <1>3, <1>4, BoundedInduction
  <2> QED BY <2>1
<1> QED BY <1>5

-----------------------------------------------------------------------------
(* What the stack knows of a buffer, when a line is read.                  *)

(***************************************************************************)
(* A condition that was read holds as it did.                              *)
(***************************************************************************)
LEMMA HoldsStable ==
  ASSUME log \in Seq(Entry), NEW e \in Entry, log' = Append(log, e), NEW l \in Nat, l = Len(log),
         NEW S, NEW T, \A i \in 1 .. l : T[i] <=> S[i],
         NEW k \in 1 .. l
  PROVE  Holds(k, T)' <=> Holds(k, S)
<1>1. \A j \in 1 .. l : log'[j] = log[j] /\ Kind(j)' = Kind(j)
  BY OldLines
<1>2. \A j \in 1 .. k - 1 : j \in 1 .. l
  OBVIOUS
<1> DEFINE changes == Changes(log[k].line.macro, k - 1, log[k].input, S)
<1>3. Changes(log[k].line.macro, k - 1, log[k].input, T)' = changes /\ changes \in SUBSET (1 .. k - 1)
  BY <1>1, <1>2 DEF Changes
<1>4. changes # {} => Max(changes) \in 1 .. l
  <2> SUFFICES ASSUME changes # {} PROVE Max(changes) \in 1 .. l
    OBVIOUS
  <2>1. PICK m \in Nat : m = k - 1
    OBVIOUS
  <2> HIDE DEF changes
  <2>2. Max(changes) \in changes
    BY <1>3, <2>1, LargestExists
  <2> QED BY <1>2, <1>3, <2>2
<1> HIDE DEF changes
<1>5. Defined(log[k].line.macro, Changes(log[k].line.macro, k - 1, log[k].input, T))' =
        Defined(log[k].line.macro, changes)
  BY <1>1, <1>3, <1>4 DEF Defined
<1> QED BY <1>1, <1>5 DEF Holds, changes

(***************************************************************************)
(* So the branch chosen remains chosen.                                    *)
(***************************************************************************)
LEMMA ChosenStable ==
  ASSUME log \in Seq(Entry), NEW e \in Entry, log' = Append(log, e), NEW l \in Nat, l = Len(log),
         NEW S, NEW T, \A i \in 1 .. l : T[i] <=> S[i],
         NEW arms \in SUBSET (1 .. l), arms # {}
  PROVE  Chosen(arms, T)' <=> Chosen(arms, S)
<1>1. Max(arms) \in arms
  BY LargestExists
<1>2. \A k \in arms : Holds(k, T)' <=> Holds(k, S)
  BY HoldsStable
<1> QED BY <1>1, <1>2 DEF Chosen

(***************************************************************************)
(* The line that is read is selected if the next line of its buffer was.   *)
(***************************************************************************)
LEMMA NewSelected ==
  ASSUME log \in Seq(Entry), NEW e \in Entry, log' = Append(log, e), NEW l \in Nat, l = Len(log),
         NEW S, NEW T, \A i \in 1 .. l : T[i] <=> S[i], Selects(T)'
  PROVE  T[l + 1] <=> Sel(e.buffer, S)
<1> DEFINE b == e.buffer
           N == l + 1
<1>1. /\ Before(N)' = Lines(b)
      /\ \A j \in Lines(b) : /\ Encloses(j, N)' <=> Around(j, b)
                             /\ Branches(j, N)' = Arms(j, b)
  BY NewLine
<1>2. Lines(b) \subseteq 1 .. l
  BY DepthStep
<1>3. T[N] <=> IsSelected(N, T)'
  <2>1. Len(log') = l + 1 /\ N \in 1 .. l + 1
    BY LogGrows
  <2> QED BY <2>1 DEF Selects
<1>4. IsSelected(N, T)' <=> (\A j \in Before(N) : Encloses(j, N) => Chosen(Branches(j, N), T))'
  BY DEF IsSelected, Chosen, Holds, Defined, Changes, SameInput
<1> HIDE DEF N, b
<1>5. ASSUME NEW j \in Lines(b) PROVE Chosen(Branches(j, N), T)' <=> Chosen(Arms(j, b), S)
  <2>1. PICK arms : arms = Arms(j, b)
    OBVIOUS
  <2>2. arms \in SUBSET (1 .. l) /\ arms # {}
    BY <1>2, <2>1 DEF Arms
  <2>3. Chosen(arms, T)' <=> Chosen(arms, S)
    BY <2>2, ChosenStable
  <2>4. Branches(j, N)' = arms
    BY <1>1, <2>1
  <2> QED BY <2>1, <2>3, <2>4
<1>6. T[N] <=> \A j \in Lines(b) : Around(j, b) => Chosen(Arms(j, b), S)
  BY <1>1, <1>3, <1>4, <1>5
<1> QED BY <1>6 DEF Sel, N, b

(***************************************************************************)
(* A group whose branches are the same is as it was.                       *)
(***************************************************************************)
LEMMA GroupKept ==
  ASSUME log \in Seq(Entry), NEW e \in Entry, log' = Append(log, e), NEW l \in Nat, l = Len(log),
         NEW S, NEW T, \A i \in 1 .. l : T[i] <=> S[i],
         NEW b, NEW j \in Lines(b), Arms(j, b)' = Arms(j, b)
  PROVE  /\ \A group \in Groups : GroupIs(group, j, b, S) => GroupIs(group, j, b, T)'
         /\ Chosen(Arms(j, b), T)' <=> Chosen(Arms(j, b), S)
<1>1. PICK arms : arms = Arms(j, b)
  OBVIOUS
<1>2. /\ j \in 1 .. l /\ Lines(b) \subseteq 1 .. l
      /\ \A k \in 1 .. l : Kind(k)' = Kind(k)
  <2>1. DOMAIN log = 1 .. l
    BY LogGrows
  <2>2. \A k \in 1 .. l : Kind(k)' = Kind(k)
    BY OldLines
  <2> QED BY <2>1, <2>2 DEF Lines
<1>3. arms \in SUBSET (1 .. l) /\ arms # {}
  BY <1>1, <1>2 DEF Arms
<1>4. Chosen(arms, T)' <=> Chosen(arms, S)
  BY <1>3, ChosenStable
<1>5. Chosen(Arms(j, b), T)' <=> Chosen(Arms(j, b), S)
  BY <1>1, <1>4
<1>6. \A m \in arms : (Holds(m, T)' <=> Holds(m, S)) /\ Kind(m)' = Kind(m)
  <2>1. \A m \in 1 .. l : Holds(m, T)' <=> Holds(m, S)
    BY HoldsStable
  <2> QED BY <1>2, <1>3, <2>1
<1>7. T[j] <=> S[j]
  BY <1>2
<1>8. ASSUME NEW group \in Groups, GroupIs(group, j, b, S) PROVE GroupIs(group, j, b, T)'
  <2>1. /\ group.elseSeen <=> \E m \in arms : Kind(m) = "else"
        /\ group.parentActive <=> S[j]
        /\ S[j] => (group.branchTaken <=> \E m \in arms : Holds(m, S))
    BY <1>1, <1>8 DEF GroupIs
  <2>2. /\ group.elseSeen <=> \E m \in arms : Kind(m)' = "else"
        /\ group.parentActive <=> T[j]
        /\ T[j] => (group.branchTaken <=> \E m \in arms : Holds(m, T)')
    BY <1>6, <1>7, <2>1
  <2>3. Arms(j, b)' = arms
    BY <1>1
  <2> QED BY <2>2, <2>3 DEF GroupIs
<1> QED BY <1>5, <1>8

(***************************************************************************)
(* A line of another buffer changes nothing for a buffer.                  *)
(***************************************************************************)
LEMMA OtherDescribed ==
  ASSUME log \in Seq(Entry), NEW e \in Entry, log' = Append(log, e), NEW l \in Nat, l = Len(log),
         NEW S, NEW T, \A i \in 1 .. l : T[i] <=> S[i],
         NEW buffer \in Buffers, NEW end \in Nat, NEW groups \in Seq(Groups), NEW after,
         Describes(buffer, end, groups, S), buffer.id # e.buffer,
         end <= Len(groups), \A c \in 1 .. end : after[c] = groups[c]
  PROVE  Describes(buffer, end, after, T)'
<1> DEFINE b == buffer.id
<1>1. /\ Lines(b)' = Lines(b) /\ Depth(b)' = Depth(b)
      /\ \A j \in Lines(b) : /\ Around(j, b)' <=> Around(j, b)
                             /\ Arms(j, b)' = Arms(j, b) /\ Level(j)' = Level(j)
  BY OtherBuffers
<1>2. \A j \in Lines(b) :
        /\ \A group \in Groups : GroupIs(group, j, b, S) => GroupIs(group, j, b, T)'
        /\ Chosen(Arms(j, b), T)' <=> Chosen(Arms(j, b), S)
  BY <1>1, GroupKept
<1>3. buffer.base \in Nat
  BY DEF Buffers
<1>4. ASSUME NEW c \in buffer.base + 1 .. end
      PROVE  \E j \in Lines(b)' : /\ Around(j, b)' /\ Level(j)' = c - buffer.base - 1
                                  /\ GroupIs(after[c], j, b, T)'
  <2>1. PICK j \in Lines(b) : /\ Around(j, b) /\ Level(j) = c - buffer.base - 1
                              /\ GroupIs(groups[c], j, b, S)
    BY DEF Describes
  <2>2. c \in 1 .. end /\ groups[c] \in Groups
    BY <1>3
  <2>3. after[c] = groups[c]
    BY <2>2
  <2>4. GroupIs(groups[c], j, b, T)'
    BY <1>2, <2>1, <2>2
  <2>5. PICK group : group = groups[c]
    OBVIOUS
  <2>6. GroupIs(group, j, b, T)'
    BY <2>4, <2>5
  <2>7. GroupIs(after[c], j, b, T)'
    BY <2>3, <2>5, <2>6
  <2> QED BY <1>1, <2>1, <2>7
<1>5. Sel(b, T)' <=> Sel(b, S)
  BY <1>1, <1>2 DEF Sel
<1>6. /\ Depth(b) = end - buffer.base
      /\ buffer.active <=> Sel(b, S)
  BY DEF Describes
<1> QED BY <1>1, <1>4, <1>5, <1>6 DEF Describes

(***************************************************************************)
(* A line that is no conditional directive changes nothing for its own     *)
(* buffer either.                                                          *)
(***************************************************************************)
LEMMA PlainDescribed ==
  ASSUME log \in Seq(Entry), NEW e \in Entry, log' = Append(log, e), NEW l \in Nat, l = Len(log),
         NEW S, NEW T, \A i \in 1 .. l : T[i] <=> S[i],
         NEW buffer \in Buffers, NEW end \in Nat, NEW groups \in Seq(Groups), end = Len(groups),
         NEW now, now.id = buffer.id, now.base = buffer.base, now.active = buffer.active,
         Describes(buffer, end, groups, S), buffer.id = e.buffer,
         e.line.kind \notin {"if", "elif", "else", "endif"}
  PROVE  Describes(now, end, groups, T)'
<1> DEFINE b == buffer.id
           N == l + 1
<1>1. /\ Lines(b)' = Lines(b) \union {N} /\ N \notin Lines(b)
      /\ Depth(b)' = Depth(b) + Step(e.line.kind)
  BY DepthStep
<1>2. Step(e.line.kind) = 0 /\ Depth(b) \in Int
  BY LevelType DEF Step
<1>3. /\ \A j \in Lines(b) : /\ Around(j, b)' <=> Around(j, b)
                             /\ Level(j)' = Level(j)
                             /\ Around(j, b) => Arms(j, b)' = Arms(j, b)
      /\ ~ Around(N, b)'
  <2>1. GroupsMove(b, e.line.kind, N)
    BY GroupsStep
  <2> QED BY <2>1 DEF GroupsMove
<1> HIDE DEF N
<1>4. \A j \in Lines(b) : Around(j, b) =>
        /\ \A group \in Groups : GroupIs(group, j, b, S) => GroupIs(group, j, b, T)'
        /\ Chosen(Arms(j, b), T)' <=> Chosen(Arms(j, b), S)
  BY <1>3, GroupKept
<1>5. buffer.base \in Nat
  BY DEF Buffers
<1>6. ASSUME NEW c \in buffer.base + 1 .. end
      PROVE  \E j \in Lines(b)' : /\ Around(j, b)' /\ Level(j)' = c - buffer.base - 1
                                  /\ GroupIs(groups[c], j, b, T)'
  <2>1. PICK j \in Lines(b) : /\ Around(j, b) /\ Level(j) = c - buffer.base - 1
                              /\ GroupIs(groups[c], j, b, S)
    BY DEF Describes
  <2>2. c \in 1 .. end /\ groups[c] \in Groups
    BY <1>5
  <2>3. GroupIs(groups[c], j, b, T)'
    BY <1>4, <2>1, <2>2
  <2> QED BY <1>1, <1>3, <2>1, <2>3
<1>7. Sel(b, T)' <=> Sel(b, S)
  BY <1>1, <1>3, <1>4 DEF Sel
<1>8. /\ Depth(b) = end - buffer.base
      /\ buffer.active <=> Sel(b, S)
  BY DEF Describes
<1>9. Depth(b)' = end - buffer.base
  BY <1>1, <1>2, <1>8
<1> QED BY <1>6, <1>7, <1>8, <1>9 DEF Describes

(***************************************************************************)
(* #if opens a group within those that are open.                           *)
(***************************************************************************)
LEMMA OpenedDescribed ==
  ASSUME log \in Seq(Entry), NEW e \in Entry, log' = Append(log, e), NEW l \in Nat, l = Len(log),
         NEW S, NEW T, \A i \in 1 .. l : T[i] <=> S[i], Selects(T)',
         NEW buffer \in Buffers, NEW end \in Nat, NEW groups \in Seq(Groups), end = Len(groups),
         NEW now, now.id = buffer.id, now.base = buffer.base, buffer.base <= end,
         Describes(buffer, end, groups, S), buffer.id = e.buffer, e.line.kind = "if",
         NEW condition \in BOOLEAN, NEW holds \in BOOLEAN, Holds(l + 1, T)' <=> holds,
         condition = holds \/ condition = (buffer.active /\ holds),
         NEW after, after = Append(groups, [parentActive |-> buffer.active,
                                            branchTaken |-> condition, elseSeen |-> FALSE]),
         now.active = (buffer.active /\ condition)
  PROVE  Describes(now, end + 1, after, T)'
<1> DEFINE b == buffer.id
           N == l + 1
           group == [parentActive |-> buffer.active, branchTaken |-> condition, elseSeen |-> FALSE]
<1>1. /\ Lines(b)' = Lines(b) \union {N} /\ N \notin Lines(b)
      /\ Depth(b)' = Depth(b) + 1
  BY DepthStep DEF Step
<1>3. /\ \A j \in Lines(b) : /\ Around(j, b)' <=> Around(j, b)
                             /\ Level(j)' = Level(j)
                             /\ Around(j, b) => Arms(j, b)' = Arms(j, b)
      /\ Around(N, b)' /\ Level(N)' = Depth(b) /\ Arms(N, b)' = {N}
  <2>1. GroupsMove(b, e.line.kind, N)
    BY GroupsStep
  <2> QED BY <2>1 DEF GroupsMove
<1>4. \A j \in Lines(b) : Around(j, b) =>
        /\ \A g \in Groups : GroupIs(g, j, b, S) => GroupIs(g, j, b, T)'
        /\ Chosen(Arms(j, b), T)' <=> Chosen(Arms(j, b), S)
  BY <1>3, GroupKept
<1>5. buffer.base \in Nat /\ buffer.active \in BOOLEAN /\ Depth(b) = end - buffer.base
      /\ (buffer.active <=> Sel(b, S))
  BY DEF Buffers, Describes
<1>6. T[N] <=> Sel(b, S)
  BY NewSelected
<1>7. Kind(N)' = "if"
  BY NewLine
<1>8. (Holds(N, T)' <=> holds) /\ Max({N}) = N
  <2>1. Max({N}) \in {N}
    <3>1. {N} \in SUBSET (1 .. N) /\ {N} # {} /\ N \in Nat
      OBVIOUS
    <3> QED BY <3>1, LargestExists
  <2> QED BY <2>1
<1> HIDE DEF N
<1>9. group \in Groups /\ after = Append(groups, group)
  BY <1>5 DEF Groups
<1>10. /\ group.parentActive = buffer.active /\ group.branchTaken = condition
       /\ group.elseSeen = FALSE
  OBVIOUS
<1> HIDE DEF group
<1>11. GroupIs(group, N, b, T)'
  <2>1. group.elseSeen <=> \E m \in {N} : Kind(m)' = "else"
    BY <1>7, <1>10
  <2>2. group.parentActive <=> T[N]
    BY <1>5, <1>6, <1>10
  <2>3. T[N] => (group.branchTaken <=> \E m \in {N} : Holds(m, T)')
    BY <1>5, <1>6, <1>8, <1>10
  <2> QED BY <1>3, <2>1, <2>2, <2>3 DEF GroupIs
<1>12. after[end + 1] = group /\ \A c \in 1 .. end : after[c] = groups[c] /\ groups[c] \in Groups
  BY <1>9
<1>13. ASSUME NEW c \in buffer.base + 1 .. end + 1
       PROVE  \E j \in Lines(b)' : /\ Around(j, b)' /\ Level(j)' = c - buffer.base - 1
                                   /\ GroupIs(after[c], j, b, T)'
  <2>1. CASE c = end + 1
    <3>1. Level(N)' = c - buffer.base - 1
      BY <1>3, <1>5, <2>1
    <3> QED BY <1>1, <1>3, <1>11, <1>12, <2>1, <3>1
  <2>2. CASE c # end + 1
    <3>0. buffer.base \in Nat
      BY <1>5
    <3>1. c \in buffer.base + 1 .. end /\ c \in 1 .. end
      BY <2>2, <3>0
    <3>2. PICK j \in Lines(b) : /\ Around(j, b) /\ Level(j) = c - buffer.base - 1
                                /\ GroupIs(groups[c], j, b, S)
      BY <3>1 DEF Describes
    <3>3. GroupIs(groups[c], j, b, T)'
      BY <1>4, <1>12, <3>1, <3>2
    <3>4. GroupIs(after[c], j, b, T)'
      BY <1>12, <3>1, <3>3
    <3> QED BY <1>1, <1>3, <3>2, <3>4
  <2> QED BY <2>1, <2>2
<1>14. Sel(b, T)' <=> Sel(b, S) /\ holds
  <2>1. Chosen(Arms(N, b), T)' <=> holds
    <3>1. Chosen(Arms(N, b), T)' <=> Holds(Max({N}), T)' /\ \A k \in {N} \ {Max({N})} : ~ Holds(k, T)'
      BY <1>3 DEF Chosen
    <3> QED BY <1>8, <3>1
  <2> QED BY <1>1, <1>3, <1>4, <2>1 DEF Sel
<1>15. now.active <=> Sel(b, T)'
  BY <1>5, <1>14
<1>16. Depth(b)' = end + 1 - buffer.base
  BY <1>1, <1>5
<1>17. PICK last : last = end + 1
  OBVIOUS
<1>18. Describes(now, last, after, T)'
  <2>1. now.id = b /\ now.base = buffer.base
    OBVIOUS
  <2> HIDE DEF b
  <2>2. \A c \in now.base + 1 .. last :
          \E j \in Lines(b)' : /\ Around(j, b)' /\ Level(j)' = c - now.base - 1
                               /\ GroupIs(after[c], j, b, T)'
    BY <1>13, <1>17, <2>1
  <2>3. Depth(b)' = last - now.base
    BY <1>5, <1>16, <1>17, <2>1
  <2> QED BY <1>15, <2>1, <2>2, <2>3 DEF Describes
<1> QED BY <1>17, <1>18

(***************************************************************************)
(* Where the innermost group opens is selected if all groups around it     *)
(* are.                                                                    *)
(***************************************************************************)
LEMMA InnermostSelected ==
  ASSUME log \in Seq(Entry), NEW l \in Nat, l = Len(log), NEW S, Selects(S),
         NEW b, NEW j \in Lines(b), Around(j, b), Level(j) = Depth(b) - 1
  PROVE  /\ \A i \in Lines(b) : Around(i, b) /\ i # j => Level(i) < Depth(b) - 1
         /\ S[j] <=> \A i \in Lines(b) : Around(i, b) /\ i # j => Chosen(Arms(i, b), S)
<1>1. j \in 1 .. l
  BY DEF Lines
<1>2. S[j] <=> IsSelected(j, S)
  BY <1>1 DEF Selects
<1>3. IsSelected(j, S) <=> \A i \in Before(j) : Encloses(i, j) => Chosen(Branches(i, j), S)
  BY SelectedForm
<1>4. /\ Before(j) \subseteq Lines(b)
      /\ \A i \in Lines(b) :
           /\ i \in Before(j) /\ Encloses(i, j) <=> Around(i, b) /\ Level(i) < Level(j)
           /\ Around(i, b) /\ Level(i) < Level(j) => Branches(i, j) = Arms(i, b)
  BY AroundNests
<1>5. ASSUME NEW i \in Lines(b), Around(i, b)
      PROVE  i # j <=> Level(i) < Level(j)
  <2>1. /\ Level(i) \in Int /\ Depth(b) \in Int /\ Level(i) < Depth(b)
        /\ Level(j) = Level(i) => j = i
    BY <1>5, AroundNests
  <2> QED BY <2>1
<1>6. S[j] <=> \A i \in Lines(b) : Around(i, b) /\ Level(i) < Level(j) => Chosen(Arms(i, b), S)
  BY <1>2, <1>3, <1>4
<1>7. S[j] <=> \A i \in Lines(b) : Around(i, b) /\ i # j => Chosen(Arms(i, b), S)
  BY <1>5, <1>6
<1>8. \A i \in Lines(b) : Around(i, b) /\ i # j => Level(i) < Depth(b) - 1
  BY <1>5
<1> QED BY <1>7, <1>8

(***************************************************************************)
(* #endif closes the innermost group, and the buffer is as it was where    *)
(* that was opened.                                                        *)
(***************************************************************************)
LEMMA ClosedDescribed ==
  ASSUME log \in Seq(Entry), NEW e \in Entry, log' = Append(log, e), NEW l \in Nat, l = Len(log),
         NEW S, NEW T, \A i \in 1 .. l : T[i] <=> S[i], Selects(S),
         NEW buffer \in Buffers, NEW end \in Nat, NEW groups \in Seq(Groups), end = Len(groups),
         NEW now, now.id = buffer.id, now.base = buffer.base, buffer.base < end,
         Describes(buffer, end, groups, S), buffer.id = e.buffer, e.line.kind = "endif",
         NEW after, \A c \in 1 .. end - 1 : after[c] = groups[c],
         now.active = groups[end].parentActive
  PROVE  Describes(now, end - 1, after, T)'
<1> DEFINE b == buffer.id
           N == l + 1
<1>1. /\ Lines(b)' = Lines(b) \union {N} /\ N \notin Lines(b)
      /\ Depth(b)' = Depth(b) - 1
  <2>1. /\ Lines(b)' = Lines(b) \union {N} /\ N \notin Lines(b)
        /\ Depth(b)' = Depth(b) + Step(e.line.kind)
    BY DepthStep
  <2>2. Depth(b) \in Int /\ Step(e.line.kind) = -1
    BY LevelType DEF Step
  <2> HIDE DEF N
  <2> QED BY <2>1, <2>2
<1>2. /\ \A j \in Lines(b) : /\ Around(j, b)' <=> Around(j, b) /\ Level(j) < Depth(b) - 1
                             /\ Level(j)' = Level(j)
                             /\ Around(j, b) => Arms(j, b)' = Arms(j, b)
      /\ ~ Around(N, b)'
  <2>1. GroupsMove(b, e.line.kind, N)
    BY GroupsStep
  <2> QED BY <2>1 DEF GroupsMove
<1> HIDE DEF N
<1>3. \A j \in Lines(b) : Around(j, b) =>
        /\ \A g \in Groups : GroupIs(g, j, b, S) => GroupIs(g, j, b, T)'
        /\ Chosen(Arms(j, b), T)' <=> Chosen(Arms(j, b), S)
  BY <1>2, GroupKept
<1>4. buffer.base \in Nat /\ Depth(b) = end - buffer.base /\ Depth(b) \in Int
  BY LevelType DEF Buffers, Describes
<1>5. PICK j \in Lines(b) : /\ Around(j, b) /\ Level(j) = end - buffer.base - 1
                            /\ GroupIs(groups[end], j, b, S)
  <2>1. end \in buffer.base + 1 .. end
    BY <1>4
  <2> QED BY <2>1 DEF Describes
<1>6. Level(j) = Depth(b) - 1
  BY <1>4, <1>5
<1>7. /\ \A i \in Lines(b) : Around(i, b) /\ i # j => Level(i) < Depth(b) - 1
      /\ S[j] <=> \A i \in Lines(b) : Around(i, b) /\ i # j => Chosen(Arms(i, b), S)
  <2>1. b = buffer.id
    OBVIOUS
  <2> HIDE DEF b
  <2> QED BY <1>5, <1>6, InnermostSelected
<1>8. \A i \in Lines(b) : Around(i, b)' <=> Around(i, b) /\ i # j
  <2>1. ~ (Level(j) < Depth(b) - 1)
    BY <1>4, <1>6
  <2> QED BY <1>2, <1>7, <2>1
<1>9. Sel(b, T)' <=> S[j]
  BY <1>1, <1>2, <1>3, <1>7, <1>8 DEF Sel
<1>10. groups[end] \in Groups /\ \A c \in 1 .. end : groups[c] \in Groups
  BY <1>4
<1>11. now.active <=> Sel(b, T)'
  BY <1>5, <1>9, <1>10 DEF GroupIs, Groups
<1>12. ASSUME NEW c \in buffer.base + 1 .. end - 1
       PROVE  \E k \in Lines(b)' : /\ Around(k, b)' /\ Level(k)' = c - buffer.base - 1
                                   /\ GroupIs(after[c], k, b, T)'
  <2>1. c \in 1 .. end - 1 /\ c \in buffer.base + 1 .. end /\ c \in 1 .. end
    BY <1>4
  <2>2. PICK k \in Lines(b) : /\ Around(k, b) /\ Level(k) = c - buffer.base - 1
                              /\ GroupIs(groups[c], k, b, S)
    BY <2>1 DEF Describes
  <2>3. Level(k) < Depth(b) - 1
    BY <1>4, <2>2
  <2>4. GroupIs(groups[c], k, b, T)'
    BY <1>3, <1>10, <2>1, <2>2
  <2>5. after[c] = groups[c]
    BY <2>1
  <2>6. PICK g : g = groups[c]
    OBVIOUS
  <2>7. GroupIs(g, k, b, T)'
    BY <2>4, <2>6
  <2>8. GroupIs(after[c], k, b, T)'
    BY <2>5, <2>6, <2>7
  <2> QED BY <1>1, <1>2, <2>2, <2>3, <2>8
<1>13. PICK last : last = end - 1
  OBVIOUS
<1>14. Describes(now, last, after, T)'
  <2>1. now.id = b /\ now.base = buffer.base
    OBVIOUS
  <2> HIDE DEF b
  <2>2. \A c \in now.base + 1 .. last :
          \E k \in Lines(b)' : /\ Around(k, b)' /\ Level(k)' = c - now.base - 1
                               /\ GroupIs(after[c], k, b, T)'
    BY <1>12, <1>13, <2>1
  <2>3. Depth(b)' = last - now.base
    BY <1>1, <1>4, <1>13, <2>1
  <2> QED BY <1>11, <2>1, <2>2, <2>3 DEF Describes
<1> QED BY <1>13, <1>14

\* The line of e goes on with old, the innermost of the groups of buffer;
\* it is new with another branch, that is active on condition.
GoesOn(e, l, S, T, buffer, groups, now, after, old, new, condition, holds) ==
  /\ log \in Seq(Entry) /\ e \in Entry /\ log' = Append(log, e) /\ l \in Nat /\ l = Len(log)
  /\ \A i \in 1 .. l : T[i] <=> S[i]
  /\ Selects(S)
  /\ buffer \in Buffers /\ groups \in Seq(Groups) /\ Len(groups) \in Nat
  /\ now.id = buffer.id /\ now.base = buffer.base /\ buffer.base < Len(groups)
  /\ Describes(buffer, Len(groups), groups, S) /\ buffer.id = e.buffer
  /\ holds \in BOOLEAN /\ (Holds(l + 1, T)' <=> holds)
  /\ e.line.kind \in {"elif", "else"}
  /\ old \in Groups /\ old = groups[Len(groups)] /\ ~ old.elseSeen
  /\ condition \in BOOLEAN
  /\ condition <=> old.parentActive /\ ~ old.branchTaken /\ holds
  /\ new \in Groups /\ new.parentActive = old.parentActive
  /\ old.parentActive => (new.branchTaken <=> old.branchTaken \/ holds)
  /\ new.elseSeen <=> e.line.kind = "else"
  /\ \A c \in 1 .. Len(groups) : after[c] = IF c = Len(groups) THEN new ELSE groups[c]
  /\ now.active = condition

(***************************************************************************)
(* #elif and #else go on with the innermost group, which is in a branch    *)
(* taken if it is in the first whose condition holds.                      *)
(***************************************************************************)
LEMMA BranchedDescribed ==
  ASSUME NEW e, NEW l, NEW S, NEW T, NEW buffer, NEW groups, NEW now, NEW after,
         NEW old, NEW new, NEW condition, NEW holds,
         GoesOn(e, l, S, T, buffer, groups, now, after, old, new, condition, holds)
  PROVE  Describes(now, Len(groups), after, T)'
<1>000. PICK kind, end : kind = e.line.kind /\ end = Len(groups)
  OBVIOUS
<1>0001. groups \in Seq(Groups) /\ Len(groups) \in Nat
  BY DEF GoesOn
<1>002. \A c \in 1 .. end : groups[c] \in Groups
  BY <1>000, <1>0001
<1>001. SUFFICES ASSUME log \in Seq(Entry), e \in Entry, log' = Append(log, e), l \in Nat, l = Len(log),
                 \A i \in 1 .. l : T[i] <=> S[i], Selects(S),
                 buffer \in Buffers, end \in Nat, groups \in Seq(Groups),
                 now.id = buffer.id, now.base = buffer.base, buffer.base < end,
                 Describes(buffer, end, groups, S), buffer.id = e.buffer,
                 kind \in {"elif", "else"}, e.line.kind = kind,
                 holds \in BOOLEAN, Holds(l + 1, T)' <=> holds,
                 old \in Groups, old = groups[end], ~ old.elseSeen,
                 condition \in BOOLEAN, condition <=> old.parentActive /\ ~ old.branchTaken /\ holds,
                 new \in Groups, new.parentActive = old.parentActive,
                 old.parentActive => (new.branchTaken <=> old.branchTaken \/ holds),
                 new.elseSeen <=> kind = "else",
                 \A c \in 1 .. end : after[c] = IF c = end THEN new ELSE groups[c],
                 now.active = condition
          PROVE  Describes(now, end, after, T)'
  BY <1>000 DEF GoesOn
<1> USE <1>001
<1> DEFINE b == buffer.id
           N == l + 1
<1>1. /\ Lines(b)' = Lines(b) \union {N} /\ N \notin Lines(b) /\ Lines(b) \subseteq 1 .. l
      /\ Depth(b)' = Depth(b)
  <2>1. /\ Lines(b)' = Lines(b) \union {N} /\ N \notin Lines(b) /\ Lines(b) \subseteq 1 .. l
        /\ Depth(b)' = Depth(b) + Step(e.line.kind)
    BY DepthStep
  <2>2. Depth(b) \in Int /\ Step(e.line.kind) = 0
    BY LevelType DEF Step
  <2> HIDE DEF N
  <2> QED BY <2>1, <2>2
<1>2. /\ \A j \in Lines(b) : /\ Around(j, b)' <=> Around(j, b)
                             /\ Level(j)' = Level(j)
                             /\ Around(j, b) /\ Level(j) # Depth(b) - 1 => Arms(j, b)' = Arms(j, b)
                             /\ Around(j, b) /\ Level(j) = Depth(b) - 1 =>
                                  Arms(j, b)' = Arms(j, b) \union {N}
      /\ ~ Around(N, b)'
  <2>1. GroupsMove(b, e.line.kind, N)
    BY GroupsStep
  <2>2. e.line.kind \in {"elif", "else"} /\ e.line.kind # "if" /\ e.line.kind # "endif"
    OBVIOUS
  <2> HIDE DEF N, b
  <2> QED BY <2>1, <2>2 DEF GroupsMove
<1>3. Kind(N)' = kind /\ \A k \in 1 .. l : Kind(k)' = Kind(k)
  BY <1>000, NewLine, OldLines, SMTT(60)
<1>0. N \in Nat /\ \A k \in 1 .. l : k < N /\ k \in 1 .. N
  OBVIOUS
<1>00. b = e.buffer
  OBVIOUS
<1> HIDE DEF N, b
<1>4. \A j \in Lines(b) : Around(j, b) /\ Level(j) # Depth(b) - 1 =>
        /\ \A g \in Groups : GroupIs(g, j, b, S) => GroupIs(g, j, b, T)'
        /\ Chosen(Arms(j, b), T)' <=> Chosen(Arms(j, b), S)
  BY <1>2, GroupKept
<1>5. buffer.base \in Nat /\ Depth(b) = end - buffer.base /\ Depth(b) \in Int
  BY LevelType DEF Buffers, Describes, b
<1>6. PICK j \in Lines(b) : /\ Around(j, b) /\ Level(j) = end - buffer.base - 1
                            /\ GroupIs(old, j, b, S)
  <2>1. end \in buffer.base + 1 .. end
    BY <1>5
  <2> QED BY <2>1 DEF Describes, b
<1>7. Level(j) = Depth(b) - 1
  BY <1>5, <1>6
<1>8. /\ \A i \in Lines(b) : Around(i, b) /\ i # j => Level(i) < Depth(b) - 1
      /\ S[j] <=> \A i \in Lines(b) : Around(i, b) /\ i # j => Chosen(Arms(i, b), S)
  <2>1. PICK from \in Lines(b) : from = j
    OBVIOUS
  <2>2. Around(from, b) /\ Level(from) = Depth(b) - 1
    BY <1>6, <1>7, <2>1
  <2>3. /\ \A i \in Lines(b) : Around(i, b) /\ i # from => Level(i) < Depth(b) - 1
        /\ S[from] <=> \A i \in Lines(b) : Around(i, b) /\ i # from => Chosen(Arms(i, b), S)
    BY <2>2, InnermostSelected, SMTT(120)
  <2> QED BY <2>1, <2>3
<1>9. \A i \in Lines(b) : Around(i, b) => (i # j <=> Level(i) # Depth(b) - 1)
  <2>1. \A i \in Lines(b) : Around(i, b) /\ i # j => Level(i) \in Int
    <3>1. \A i \in Lines(b) : i \in Nat
      BY <1>1
    <3> QED BY <3>1, LevelType
  <2> QED BY <1>5, <1>7, <1>8, <2>1
<1>10. PICK arms : arms = Arms(j, b)
  OBVIOUS
<1>11. arms \in SUBSET (1 .. l) /\ Arms(j, b)' = arms \union {N} /\ N \notin arms
  <2>1. arms \in SUBSET (1 .. l)
    BY <1>1, <1>10 DEF Arms
  <2> QED BY <1>0, <1>2, <1>6, <1>7, <1>10, <2>1
<1>12. \A k \in arms : (Holds(k, T)' <=> Holds(k, S)) /\ Kind(k)' = Kind(k)
  <2>1. \A k \in 1 .. l : Holds(k, T)' <=> Holds(k, S)
    BY HoldsStable
  <2> QED BY <1>3, <1>11, <2>1
<1>13. (Holds(N, T)' <=> holds) /\ Max(arms \union {N}) = N
  <2>1. Holds(N, T)' <=> holds
    BY DEF N
  <2>2. PICK more : more = arms \union {N}
    OBVIOUS
  <2>3. N \in 1 .. N
    BY DEF N
  <2>4. more \in SUBSET (1 .. N) /\ more # {} /\ N \in more
    BY <1>0, <1>11, <2>2, <2>3
  <2>5. Max(more) = N
    BY <2>4, LargestOf DEF N
  <2> QED BY <2>1, <2>2, <2>5
<1>14. Chosen(Arms(j, b), T)' <=> holds /\ \A k \in arms : ~ Holds(k, S)
  <2>1. (arms \union {N}) \ {N} = arms
    BY <1>11
  <2>2. Chosen(Arms(j, b), T)' <=>
          /\ Holds(Max(arms \union {N}), T)'
          /\ \A k \in (arms \union {N}) \ {Max(arms \union {N})} : ~ Holds(k, T)'
    BY <1>11 DEF Chosen
  <2> QED BY <1>12, <1>13, <2>1, <2>2
<1>15. /\ old.elseSeen <=> \E m \in arms : Kind(m) = "else"
       /\ old.parentActive <=> S[j]
       /\ S[j] => (old.branchTaken <=> \E m \in arms : Holds(m, S))
  BY <1>6, <1>10 DEF GroupIs
<1>16. Sel(b, T)' <=> S[j] /\ Chosen(Arms(j, b), T)'
  <2>1. Sel(b, T)' <=> \A i \in Lines(b) : Around(i, b) => Chosen(Arms(i, b), T)'
    BY <1>1, <1>2 DEF Sel
  <2>2. \A i \in Lines(b) : Around(i, b) /\ i # j => (Chosen(Arms(i, b), T)' <=> Chosen(Arms(i, b), S))
    BY <1>4, <1>9
  <2> QED BY <1>6, <1>8, <2>1, <2>2
<1>17. now.active <=> Sel(b, T)'
  BY <1>14, <1>15, <1>16
<1>18. GroupIs(new, j, b, T)'
  <2>1. new.elseSeen <=> \E m \in arms \union {N} : Kind(m)' = "else"
    BY <1>000, <1>3, <1>12, <1>15
  <2>2. new.parentActive <=> T[j]
    <3>1. T[j] <=> S[j]
      BY <1>1
    <3> QED BY <1>15, <3>1
  <2>3. T[j] => (new.branchTaken <=> \E m \in arms \union {N} : Holds(m, T)')
    <3>1. T[j] <=> S[j]
      BY <1>1
    <3> QED BY <1>12, <1>13, <1>15, <3>1 DEF Groups
  <2> QED BY <1>11, <2>1, <2>2, <2>3 DEF GroupIs
<1>19. \A c \in 1 .. end : groups[c] \in Groups
  BY <1>002
<1>20. ASSUME NEW c \in buffer.base + 1 .. end
       PROVE  \E k \in Lines(b)' : /\ Around(k, b)' /\ Level(k)' = c - buffer.base - 1
                                   /\ GroupIs(after[c], k, b, T)'
  <2>0. c \in 1 .. end
    BY <1>5
  <2>1. CASE c = end
    <3>1. after[c] = new
      BY <2>0, <2>1
    <3>2. PICK g : g = new
      OBVIOUS
    <3>3. GroupIs(after[c], j, b, T)'
      BY <1>18, <3>1
    <3> QED BY <1>1, <1>2, <1>6, <2>1, <3>3
  <2>2. CASE c # end
    <3>1. PICK k \in Lines(b) : /\ Around(k, b) /\ Level(k) = c - buffer.base - 1
                                /\ GroupIs(groups[c], k, b, S)
      BY DEF Describes, b
    <3>2. Level(k) # Depth(b) - 1
      BY <1>5, <2>2, <3>1
    <3>3. PICK g : g = groups[c]
      OBVIOUS
    <3>4. GroupIs(g, k, b, T)'
      BY <1>4, <1>19, <2>0, <3>1, <3>2, <3>3
    <3>5. after[c] = g
      BY <2>0, <2>2, <3>3
    <3>6. GroupIs(after[c], k, b, T)'
      BY <3>4, <3>5
    <3> QED BY <1>1, <1>2, <3>1, <3>6
  <2> QED BY <2>1, <2>2
<1> QED
  <2>1. now.id = b /\ now.base = buffer.base
    BY DEF b
  <2>2. \A c \in now.base + 1 .. end :
          \E k \in Lines(b)' : /\ Around(k, b)' /\ Level(k)' = c - now.base - 1
                               /\ GroupIs(after[c], k, b, T)'
    BY <1>20, <2>1
  <2>3. Depth(b)' = end - now.base
    BY <1>1, <1>5, <2>1
  <2> QED BY <1>17, <2>1, <2>2, <2>3 DEF Describes

-----------------------------------------------------------------------------
(* Macros.                                                                 *)

(***************************************************************************)
(* The set of macros follows the directives that are selected.             *)
(***************************************************************************)
LEMMA MacrosFollow ==
  ASSUME log \in Seq(Entry), NEW e \in Entry, log' = Append(log, e), NEW l \in Nat, l = Len(log),
         NEW S, NEW T, \A i \in 1 .. l : T[i] <=> S[i],
         NEW macro
  PROVE  /\ e.line.kind \in {"define", "undef"} /\ T[l + 1] /\ e.line.macro = macro =>
              (Defined(macro, Changes(macro, l + 1, e.input, T))' <=> e.line.kind = "define")
         /\ ~ (e.line.kind \in {"define", "undef"} /\ T[l + 1] /\ e.line.macro = macro) =>
              (Defined(macro, Changes(macro, l + 1, e.input, T))' <=>
                 Defined(macro, Changes(macro, l, e.input, S)))
<1> DEFINE old == Changes(macro, l, e.input, S)
           N == l + 1
           counts == e.line.kind \in {"define", "undef"} /\ T[l + 1] /\ e.line.macro = macro
<1>1. /\ \A j \in 1 .. l : log'[j] = log[j] /\ Kind(j)' = Kind(j)
      /\ log'[N] = e /\ Kind(N)' = e.line.kind /\ Len(log') = N
  BY LogGrows, OldLines DEF Kind
<1>2. 1 .. N = 1 .. l \union {N} /\ N \notin 1 .. l /\ N \in Nat /\ 1 .. l \subseteq 1 .. N
  OBVIOUS
<1>3. N = l + 1
  OBVIOUS
<1> HIDE DEF N
<1>4. old \in SUBSET (1 .. l)
  BY DEF Changes
<1>5. Changes(macro, l + 1, e.input, T)' = IF counts THEN old \union {N} ELSE old
  <2>1. \A j \in 1 .. l : j \in old <=> /\ log'[j].input = e.input /\ T[j]
                                        /\ Kind(j)' \in {"define", "undef"} /\ log'[j].line.macro = macro
    BY <1>1 DEF Changes
  <2>2. counts <=> /\ log'[N].input = e.input /\ T[N]
                   /\ Kind(N)' \in {"define", "undef"} /\ log'[N].line.macro = macro
    BY <1>1, <1>3
  <2>3. Changes(macro, l + 1, e.input, T)' =
          {j \in 1 .. N : /\ log'[j].input = e.input /\ T[j]
                          /\ Kind(j)' \in {"define", "undef"} /\ log'[j].line.macro = macro}
    BY <1>1, <1>3 DEF Changes
  <2>4. PICK now : now = Changes(macro, l + 1, e.input, T)'
    OBVIOUS
  <2> HIDE DEF old
  <2>5. CASE counts
    <3>1. \A j \in 1 .. N : j \in now <=> j \in old \/ j = N
      BY <1>2, <2>1, <2>2, <2>3, <2>4, <2>5
    <3>2. now \subseteq 1 .. N
      BY <2>3, <2>4
    <3>3. now = old \union {N}
      BY <1>2, <1>4, <3>1, <3>2
    <3> QED BY <2>4, <2>5, <3>3
  <2>6. CASE ~ counts
    <3>1. \A j \in 1 .. N : j \in now <=> j \in old
      BY <1>2, <1>4, <2>1, <2>2, <2>3, <2>4, <2>6
    <3>2. now \subseteq 1 .. N
      BY <2>3, <2>4
    <3>3. now = old
      BY <1>2, <1>4, <3>1, <3>2
    <3> QED BY <2>4, <2>6, <3>3
  <2> QED BY <2>5, <2>6
<1>6. PICK before : before = old
  OBVIOUS
<1>7. ASSUME counts
      PROVE  Defined(macro, Changes(macro, l + 1, e.input, T))' <=> e.line.kind = "define"
  <2>1. PICK now : now = before \union {N}
    OBVIOUS
  <2>2. now \in SUBSET (1 .. l + 1) /\ l + 1 \in now
    BY <1>2, <1>3, <1>4, <1>6, <2>1
  <2>3. Max(now) = N /\ now # {}
    BY <1>3, <2>2, LargestOf
  <2>4. Changes(macro, l + 1, e.input, T)' = now
    BY <1>5, <1>6, <1>7, <2>1
  <2> QED BY <1>1, <2>3, <2>4 DEF Defined
<1>8. ASSUME ~ counts
      PROVE  Defined(macro, Changes(macro, l + 1, e.input, T))' <=> Defined(macro, old)
  <2>1. Changes(macro, l + 1, e.input, T)' = before
    BY <1>5, <1>6, <1>8
  <2>2. before # {} => Max(before) \in 1 .. l
    BY <1>4, <1>6, LargestExists
  <2>3. before # {} => Kind(Max(before))' = Kind(Max(before))
    BY <1>1, <2>2
  <2> HIDE DEF old
  <2> QED BY <1>6, <2>1, <2>3 DEF Defined
<1>9. counts => (Defined(macro, Changes(macro, l + 1, e.input, T))' <=> e.line.kind = "define")
  BY <1>7
<1>10. ~ counts => (Defined(macro, Changes(macro, l + 1, e.input, T))' <=> Defined(macro, old))
  BY <1>8
<1> QED BY <1>9, <1>10

(***************************************************************************)
(* Whether the condition that is read holds, is what the macros say.       *)
(***************************************************************************)
LEMMA NewHolds ==
  ASSUME log \in Seq(Entry), NEW e \in Entry, log' = Append(log, e), NEW l \in Nat, l = Len(log),
         NEW S, NEW T, \A i \in 1 .. l : T[i] <=> S[i]
  PROVE  Holds(l + 1, T)' <=>
           \/ e.line.kind = "else"
           \/ Defined(e.line.macro, Changes(e.line.macro, l, e.input, S)) = e.line.defined
<1> DEFINE macro == e.line.macro
           old == Changes(macro, l, e.input, S)
           N == l + 1
<1>1. /\ \A j \in 1 .. l : log'[j] = log[j] /\ Kind(j)' = Kind(j)
      /\ log'[N] = e /\ Kind(N)' = e.line.kind
  BY LogGrows, OldLines DEF Kind
<1>2. N - 1 = l
  OBVIOUS
<1>3. old \in SUBSET (1 .. l)
  BY DEF Changes
<1> HIDE DEF N
<1>4. Changes(macro, N - 1, e.input, T)' = old
  BY <1>1, <1>2 DEF Changes
<1>5. PICK changes : changes = old
  OBVIOUS
<1> HIDE DEF old, macro
<1>6. Defined(macro, Changes(macro, N - 1, e.input, T))' = Defined(macro, old)
  <2>1. changes # {} => Max(changes) \in 1 .. l
    BY <1>3, <1>5, LargestExists
  <2>2. changes # {} => Kind(Max(changes))' = Kind(Max(changes))
    BY <1>1, <2>1
  <2>3. Changes(macro, N - 1, e.input, T)' = changes
    BY <1>4, <1>5
  <2> QED BY <1>5, <2>2, <2>3 DEF Defined
<1> QED BY <1>1, <1>6 DEF Holds, macro, old, N

(***************************************************************************)
(* A macro of an input that starts is defined as the configuration says.   *)
(***************************************************************************)
LEMMA FreshMacros ==
  ASSUME NEW of, NEW S, \A i \in DOMAIN log : log[i].input # of, log \in Seq(Entry),
         NEW macro
  PROVE  Defined(macro, Changes(macro, Len(log), of, S)) <=> macro \in Predefined
<1>1. Changes(macro, Len(log), of, S) = {}
  BY DEF Changes
<1> QED BY <1>1 DEF Defined

(***************************************************************************)
(* A buffer that starts has no groups and is active.                       *)
(***************************************************************************)
LEMMA FreshDescribed ==
  ASSUME log \in Seq(Entry), NEW S, NEW buffer, NEW groups, NEW end, buffer.base = end, end \in Nat,
         buffer.active = TRUE, \A i \in DOMAIN log : log[i].buffer # buffer.id
  PROVE  Describes(buffer, end, groups, S)
<1>1. Lines(buffer.id) = {}
  BY DEF Lines
<1>2. Depth(buffer.id) = 0
  <2> DEFINE ifs == {j \in Lines(buffer.id) : Kind(j) = "if"}
             endifs == {j \in Lines(buffer.id) : Kind(j) = "endif"}
  <2>1. ifs = {} /\ endifs = {}
    BY <1>1
  <2>2. Depth(buffer.id) = Cardinality(ifs) - Cardinality(endifs)
    BY DEF Depth
  <2> HIDE DEF ifs, endifs
  <2>3. Cardinality(ifs) = 0 /\ Cardinality(endifs) = 0
    BY <2>1, FS_EmptySet
  <2> QED BY <2>2, <2>3
<1>3. buffer.base + 1 .. end = {} /\ end - buffer.base = 0
  OBVIOUS
<1> QED BY <1>1, <1>2, <1>3 DEF Describes, Sel

-----------------------------------------------------------------------------
(* Nothing is read.                                                        *)

(***************************************************************************)
(* What is said of the log stays while nothing is read.                    *)
(***************************************************************************)
LEMMA SameLog ==
  ASSUME log' = log
  PROVE  /\ \A i : Kind(i)' = Kind(i) /\ Before(i)' = Before(i) /\ Level(i)' = Level(i)
         /\ \A b : Lines(b)' = Lines(b) /\ Depth(b)' = Depth(b)
         /\ \A j, i : (Encloses(j, i)' <=> Encloses(j, i)) /\ Branches(j, i)' = Branches(j, i)
         /\ \A j, b : (Around(j, b)' <=> Around(j, b)) /\ Arms(j, b)' = Arms(j, b)
<1>1. \A i : Kind(i)' = Kind(i) /\ Before(i)' = Before(i)
  BY DEF Kind, Before, SameBuffer
<1>2. \A i : Level(i)' = Level(i)
  BY <1>1 DEF Level
<1>3. \A b : Lines(b)' = Lines(b)
  BY DEF Lines
<1>4. \A b : Depth(b)' = Depth(b)
  BY <1>1, <1>3 DEF Depth
<1>5. \A j, i : (Encloses(j, i)' <=> Encloses(j, i)) /\ Branches(j, i)' = Branches(j, i)
  BY <1>1, <1>2 DEF Encloses, Branches
<1>6. \A j, b : (Around(j, b)' <=> Around(j, b)) /\ Arms(j, b)' = Arms(j, b)
  BY <1>1, <1>2, <1>3, <1>4 DEF Around, Arms
<1> QED BY <1>1, <1>2, <1>3, <1>4, <1>5, <1>6

(***************************************************************************)
(* Nor do the conditions change.                                           *)
(***************************************************************************)
LEMMA SameHolds ==
  ASSUME log' = log
  PROVE  /\ \A macro, last, of, S : Changes(macro, last, of, S)' = Changes(macro, last, of, S)
         /\ \A macro, changes : Defined(macro, changes)' <=> Defined(macro, changes)
         /\ \A k, S : Holds(k, S)' <=> Holds(k, S)
         /\ \A arms, S : Chosen(arms, S)' <=> Chosen(arms, S)
<1>1. \A i : Kind(i)' = Kind(i)
  BY DEF Kind
<1>2. \A macro, last, of, S : Changes(macro, last, of, S)' = Changes(macro, last, of, S)
  BY <1>1 DEF Changes
<1>3. \A macro, changes : Defined(macro, changes)' <=> Defined(macro, changes)
  BY <1>1 DEF Defined
<1>4. ASSUME NEW k, NEW S PROVE Holds(k, S)' <=> Holds(k, S)
  <2>1. PICK entry : entry = log[k]
    OBVIOUS
  <2>2. PICK changes : changes = Changes(entry.line.macro, k - 1, entry.input, S)
    OBVIOUS
  <2>3. Changes(entry.line.macro, k - 1, entry.input, S)' = changes
    BY <1>2, <2>2
  <2>4. Holds(k, S) <=> Kind(k) = "else" \/ Defined(entry.line.macro, changes) = entry.line.defined
    BY <2>1, <2>2 DEF Holds
  <2>5. Defined(entry.line.macro, Changes(entry.line.macro, k - 1, entry.input, S))' =
          Defined(entry.line.macro, changes)
    BY <1>1, <2>3 DEF Defined
  <2> QED BY <1>1, <2>1, <2>4, <2>5 DEF Holds
<1>5. \A arms, S : Chosen(arms, S)' <=> Chosen(arms, S)
  BY <1>4 DEF Chosen
<1> QED BY <1>2, <1>3, <1>4, <1>5

(***************************************************************************)
(* And so the selection stays the same.                                    *)
(***************************************************************************)
LEMMA SameSelection ==
  ASSUME log \in Seq(Entry), log' = log, NEW S, NEW T, Selects(S), Selects(T)'
  PROVE  T = S
<1>1. PICK l \in Nat : l = Len(log)
  OBVIOUS
<1>2. /\ S \in Seq(BOOLEAN) /\ Len(S) = l /\ T \in Seq(BOOLEAN) /\ Len(T) = l
      /\ \A i \in 1 .. l : S[i] <=> IsSelected(i, S)
      /\ \A i \in 1 .. l : T[i] <=> IsSelected(i, T)'
  BY <1>1 DEF Selects
<1>3. ASSUME NEW i \in 1 .. l PROVE IsSelected(i, T)' <=> IsSelected(i, T)
  <2>1. IsSelected(i, T) <=> \A j \in Before(i) : Encloses(j, i) => Chosen(Branches(j, i), T)
    BY SelectedForm
  <2>2. IsSelected(i, T)' <=> (\A j \in Before(i) : Encloses(j, i) => Chosen(Branches(j, i), T))'
    BY DEF IsSelected, Chosen, Holds, Defined, Changes, SameInput
  <2>3. ASSUME NEW j PROVE Chosen(Branches(j, i), T)' <=> Chosen(Branches(j, i), T)
    <3>1. PICK arms : arms = Branches(j, i)
      OBVIOUS
    <3>2. Branches(j, i)' = arms
      BY <3>1, SameLog
    <3>3. Chosen(arms, T)' <=> Chosen(arms, T)
      BY SameHolds
    <3> QED BY <3>1, <3>2, <3>3 DEF Chosen
  <2>4. Before(i)' = Before(i) /\ \A j : Encloses(j, i)' <=> Encloses(j, i)
    BY SameLog
  <2> QED BY <2>1, <2>2, <2>3, <2>4
<1> DEFINE G == {m \in 0 .. l : \A i \in 1 .. m : T[i] <=> S[i]}
<1>4. 0 \in G
  OBVIOUS
<1>5. ASSUME NEW m \in 0 .. l - 1, m \in G PROVE m + 1 \in G
  <2>1. m + 1 \in 1 .. l /\ m + 1 \in 0 .. l /\ m + 1 \in Nat /\ (m + 1) - 1 = m
    OBVIOUS
  <2>2. \A i \in 1 .. m : T[i] <=> S[i]
    BY <1>5
  <2>3. IsSelected(m + 1, T) <=> IsSelected(m + 1, S)
    BY <2>1, <2>2, SelectedAgrees
  <2>4. T[m + 1] <=> S[m + 1]
    BY <1>2, <1>3, <2>1, <2>3
  <2>5. \A i \in 1 .. m + 1 : i \in 1 .. m \/ i = m + 1
    OBVIOUS
  <2> QED BY <2>1, <2>2, <2>4, <2>5
<1>6. \A i \in 1 .. l : T[i] <=> S[i]
  <2> HIDE DEF G
  <2>1. 0 .. l \subseteq G
    BY <1>4, <1>5, BoundedInduction
  <2>2. l \in G
    BY <2>1
  <2> QED BY <2>2 DEF G
<1>7. \A i \in 1 .. l : T[i] = S[i]
  BY <1>2, <1>6
<1> QED BY <1>2, <1>7

(***************************************************************************)
(* What is known of a buffer stays.                                        *)
(***************************************************************************)
LEMMA SameDescribed ==
  ASSUME log' = log
  PROVE  \A buffer, end, groups, S : Describes(buffer, end, groups, S) => Describes(buffer, end, groups, S)'
<1> SUFFICES ASSUME NEW buffer, NEW end, NEW groups, NEW S, Describes(buffer, end, groups, S)
             PROVE  Describes(buffer, end, groups, S)'
  OBVIOUS
<1>1. PICK b : b = buffer.id
  OBVIOUS
<1>2. /\ Lines(b)' = Lines(b) /\ Depth(b)' = Depth(b)
      /\ \A j : /\ Around(j, b)' <=> Around(j, b)
                /\ Arms(j, b)' = Arms(j, b) /\ Level(j)' = Level(j)
  BY SameLog
<1>3. ASSUME NEW j
      PROVE  /\ Chosen(Arms(j, b), S)' <=> Chosen(Arms(j, b), S)
             /\ \A group : GroupIs(group, j, b, S)' <=> GroupIs(group, j, b, S)
  <2>1. PICK arms : arms = Arms(j, b)
    OBVIOUS
  <2>2. Arms(j, b)' = arms
    BY <1>2, <2>1
  <2>3. Chosen(arms, S)' <=> Chosen(arms, S)
    BY SameHolds
  <2>4. Chosen(Arms(j, b), S)' <=> Chosen(Arms(j, b), S)
    BY <2>1, <2>2, <2>3 DEF Chosen
  <2>5. \A m : (Holds(m, S)' <=> Holds(m, S)) /\ Kind(m)' = Kind(m)
    BY SameHolds, SameLog
  <2>6. \A group : GroupIs(group, j, b, S)' <=> GroupIs(group, j, b, S)
    BY <2>1, <2>2, <2>5 DEF GroupIs
  <2> QED BY <2>4, <2>6
<1>4. Sel(b, S)' <=> Sel(b, S)
  BY <1>2, <1>3 DEF Sel
<1> QED BY <1>1, <1>2, <1>3, <1>4 DEF Describes

-----------------------------------------------------------------------------
(* Steps.                                                                  *)

\* The line of e is read, the log had l lines; S and T are the selections.
Reads(e, l, S, T) ==
  /\ log \in Seq(Entry) /\ e \in Entry /\ log' = Append(log, e) /\ l \in Nat /\ l = Len(log)
  /\ e.input = input /\ e.buffer = Top.id
  /\ S = Selection /\ T = Selection' /\ Selects(S) /\ Selects(T)'
  /\ \A i \in 1 .. l : T[i] <=> S[i]
  /\ Top.active <=> T[l + 1]
  /\ Describes(Top, Len(conditionals), conditionals, S)
  /\ \A macro \in Macro : macro \in macros <=> Defined(macro, Changes(macro, l, e.input, S))

SelectionKnown == log \in Seq(Entry) => Selects(Selection)

(***************************************************************************)
(* The selection of the next state, too, says of every line what it is.    *)
(***************************************************************************)
LEMMA SelectionFactsNext == SelectionKnown'
<1>1. SelectionKnown
  BY SelectionFacts DEF SelectionKnown
<1> QED BY <1>1, PTL

(***************************************************************************)
(* A line is selected if its buffer is active: the stack knows what the    *)
(* log says.                                                               *)
(***************************************************************************)
LEMMA LineRead ==
  ASSUME IInv, LInv, NEW line \in Directive, Take(line)
  PROVE  \E e, l, S, T : Reads(e, l, S, T) /\ e.line = line /\ e.file = Top.file
<1>1. /\ Reading /\ Running /\ failure = "none" /\ stack # << >>
      /\ Follows /\ log \in Seq(Entry)
  BY DEF Take, Reading, Running, LInv, Logged
<1>2. /\ stack \in Seq(Buffers) /\ Len(stack) \in Nat \ {0} /\ Top \in Buffers
      /\ input \in Nat /\ conditionals \in Seq(Groups) /\ Top = stack[Len(stack)]
  BY <1>1, TopFacts DEF IInv, Types, Top, Last
<1>3. PICK e : e = [input |-> input, buffer |-> Top.id, file |-> Top.file, line |-> line]
  OBVIOUS
<1>4. e \in Entry /\ e.input = input /\ e.buffer = Top.id /\ e.line = line /\ e.file = Top.file
  BY <1>2, <1>3 DEF Entry, Buffers
<1>5. log' = Append(log, e)
  BY <1>3 DEF Take
<1>6. PICK l \in Nat : l = Len(log)
  BY <1>1
<1>7. PICK S : S = Selection
  OBVIOUS
<1>8. PICK T : T = Selection'
  OBVIOUS
<1>9. Selects(S)
  BY <1>1, <1>7, SelectionFacts DEF Selects
<1>10. Selects(T)'
  <2>1. log' \in Seq(Entry)
    BY <1>1, <1>4, <1>5
  <2>2. Selects(Selection)'
    BY <2>1, SelectionFactsNext DEF SelectionKnown
  <2> QED BY <1>8, <2>2 DEF Selects
<1>11. \A i \in 1 .. l : T[i] <=> S[i]
  BY <1>1, <1>4, <1>5, <1>6, <1>9, <1>10, SelectionGrows
<1>12. Describes(Top, Len(conditionals), conditionals, S)
  <2>1. Len(stack) \in DOMAIN stack /\ EndIn(stack, conditionals, Len(stack)) = Len(conditionals)
    BY <1>2 DEF EndIn
  <2> QED BY <1>1, <1>2, <1>7, <2>1 DEF Follows, Known
<1>13. Top.active <=> T[l + 1]
  <2>1. T[l + 1] <=> Sel(e.buffer, S)
    BY <1>1, <1>4, <1>5, <1>6, <1>10, <1>11, NewSelected
  <2> QED BY <1>4, <1>12, <2>1 DEF Describes
<1>14. \A macro \in Macro : macro \in macros <=> Defined(macro, Changes(macro, l, e.input, S))
  BY <1>1, <1>4, <1>6, <1>7 DEF Follows
<1> HIDE DEF Reads
<1>15. Reads(e, l, S, T)
  BY <1>1, <1>4, <1>5, <1>6, <1>7, <1>8, <1>9, <1>10, <1>11, <1>12, <1>13, <1>14 DEF Reads
<1> QED BY <1>4, <1>15

(***************************************************************************)
(* The log of a line that is read is a log of the buffers so far.          *)
(***************************************************************************)
LEMMA LogBounded ==
  ASSUME IInv, LInv, NEW e, NEW l, NEW S, NEW T, Reads(e, l, S, T), Running
  PROVE  /\ log' \in Seq(Entry) /\ DOMAIN log' = 1 .. l + 1
         /\ \A i \in 1 .. l + 1 : log'[i].input <= input /\ log'[i].buffer <= input + includeFileCount
<1>1. /\ log \in Seq(Entry) /\ e \in Entry /\ log' = Append(log, e) /\ l \in Nat /\ l = Len(log)
      /\ e.input = input /\ e.buffer = Top.id
  BY DEF Reads
<1>2. /\ log' \in Seq(Entry) /\ DOMAIN log' = 1 .. l + 1 /\ DOMAIN log = 1 .. l
      /\ \A i \in 1 .. l : log'[i] = log[i]
      /\ log'[l + 1] = e
  BY <1>1, LogGrows
<1>3. e.buffer <= input + includeFileCount /\ e.input <= input
  <2>1. stack \in Seq(Buffers) /\ Len(stack) \in Nat \ {0} /\ Top = stack[Len(stack)] /\ input \in Nat
    BY TopFacts DEF IInv, Types, Top, Last
  <2>2. Len(stack) \in DOMAIN stack /\ failure = "none"
    BY <2>1 DEF Running
  <2> QED BY <1>1, <2>1, <2>2 DEF LInv, Follows
<1>4. \A i \in 1 .. l : log[i].input <= input /\ log[i].buffer <= input + includeFileCount
  BY <1>2 DEF LInv, Logged
<1>5. \A i \in 1 .. l + 1 : i \in 1 .. l \/ i = l + 1
  BY <1>1
<1> QED BY <1>2, <1>3, <1>4, <1>5

(***************************************************************************)
(* The log of a line that is refused is still a log.                       *)
(***************************************************************************)
LEMMA LogRead ==
  ASSUME IInv, LInv, NEW e, NEW l, NEW S, NEW T, Reads(e, l, S, T), Running,
         UNCHANGED << input, includeFileCount >>
  PROVE  Logged'
BY LogBounded DEF Logged

(***************************************************************************)
(* The macros that are defined remain, if the line is no directive about   *)
(* them that is obeyed.                                                    *)
(***************************************************************************)
LEMMA MacrosStay ==
  ASSUME NEW e, NEW l, NEW S, NEW T, Reads(e, l, S, T),
         e.line.kind \in {"define", "undef"} => ~ Top.active,
         macros' = macros
  PROVE  \A macro \in Macro : macro \in macros' <=> Defined(macro, Changes(macro, l + 1, e.input, T))'
<1> SUFFICES ASSUME NEW macro \in Macro
             PROVE  macro \in macros' <=> Defined(macro, Changes(macro, l + 1, e.input, T))'
  OBVIOUS
<1>1. /\ log \in Seq(Entry) /\ e \in Entry /\ log' = Append(log, e) /\ l \in Nat /\ l = Len(log)
      /\ \A i \in 1 .. l : T[i] <=> S[i]
      /\ Top.active <=> T[l + 1]
      /\ macro \in macros <=> Defined(macro, Changes(macro, l, e.input, S))
  BY DEF Reads
<1>2. ~ (e.line.kind \in {"define", "undef"} /\ T[l + 1] /\ e.line.macro = macro)
  BY <1>1
<1>3. Defined(macro, Changes(macro, l + 1, e.input, T))' <=> Defined(macro, Changes(macro, l, e.input, S))
  BY <1>1, <1>2, MacrosFollow
<1> QED BY <1>1, <1>3

(***************************************************************************)
(* For the buffers that wait at their include lines a line changes         *)
(* nothing.                                                                *)
(***************************************************************************)
LEMMA OuterDescribed ==
  ASSUME IInv, LInv, Running, NEW e, NEW l, NEW S, NEW T, Reads(e, l, S, T),
         NEW after \in Seq(Groups),
         \A k \in 1 .. Top.base : k <= Len(after) /\ after[k] = conditionals[k],
         NEW k \in 1 .. Len(stack) - 1, NEW buffer, buffer = stack[k], NEW end, end = stack[k + 1].base
  PROVE  Describes(buffer, end, after, T)'
<1>1. PICK n \in Nat \ {0} : n = Len(stack)
  BY TopFacts
<1>2. /\ stack \in Seq(Buffers) /\ Top = stack[n] /\ DOMAIN stack = 1 .. n
      /\ conditionals \in Seq(Groups) /\ Sound(stack, conditionals) /\ Follows
      /\ \A i \in 1 .. n : stack[i] \in Buffers
  BY <1>1, TopFacts DEF Top, Last, LInv, Running
<1>3. /\ log \in Seq(Entry) /\ e \in Entry /\ log' = Append(log, e) /\ l \in Nat /\ l = Len(log)
      /\ \A i \in 1 .. l : T[i] <=> S[i]
      /\ S = Selection /\ e.buffer = Top.id
  BY DEF Reads
<1>4. buffer \in Buffers /\ k \in 1 .. n /\ k + 1 \in 1 .. n /\ k < n
  BY <1>1, <1>2
<1>5. end = EndIn(stack, conditionals, k)
  BY <1>1, <1>4 DEF EndIn
<1>6. PICK groups : groups = conditionals
  OBVIOUS
<1>7. Describes(buffer, end, groups, S)
  BY <1>2, <1>3, <1>4, <1>5, <1>6 DEF Follows, Known
<1>8. buffer.id # e.buffer
  <2>1. n \in 1 .. n /\ stack[k].id < stack[n].id
    BY <1>1, <1>2, <1>4 DEF Follows
  <2>2. stack[k].id \in Nat /\ stack[n].id \in Nat
    BY <1>2, <1>4, <2>1 DEF Buffers
  <2> QED BY <1>2, <1>3, <2>1, <2>2
<1>9. end \in Nat /\ end <= Top.base /\ Top.base \in Nat /\ Top.base <= Len(groups)
  <2>1. \A i \in 1 .. n : stack[i].base \in Nat
    BY <1>2 DEF Buffers
  <2>2. n \in 1 .. n /\ k + 1 <= n
    BY <1>1, <1>4
  <2>3. stack[k + 1].base <= stack[n].base /\ stack[n].base <= Len(conditionals)
    BY <1>1, <1>2, <1>4, <2>2 DEF Sound
  <2> QED BY <1>2, <1>4, <1>6, <2>1, <2>2, <2>3
<1>10. groups \in Seq(Groups) /\ end <= Len(groups) /\ \A c \in 1 .. end : after[c] = groups[c]
  BY <1>2, <1>6, <1>9
<1> QED BY <1>3, <1>4, <1>7, <1>8, <1>9, <1>10, OtherDescribed

(***************************************************************************)
(* A line that is done: the buffer and its groups are as the log says.     *)
(***************************************************************************)
LEMMA LineDone ==
  ASSUME IInv, LInv, Running, NEW e, NEW l, NEW S, NEW T, Reads(e, l, S, T),
         UNCHANGED << input, includeFileCount >>,
         NEW bytes, NEW now \in Buffers, Emit(bytes, WithTop(stack, now)),
         now.id = Top.id, now.base = Top.base,
         NEW after \in Seq(Groups), conditionals' = after,
         \A k \in 1 .. Top.base : k <= Len(after) /\ after[k] = conditionals[k],
         Describes(now, Len(after), after, T)',
         \A macro \in Macro : macro \in macros' <=> Defined(macro, Changes(macro, l + 1, e.input, T))'
  PROVE  LInv'
<1>1. Logged'
  BY LogRead
<1>2. CASE preprocessedBytes + length + bytes > MaxBytes
  <2>1. failure' = "bytes"
    BY <1>2 DEF Emit, Refuse
  <2> QED BY <1>1, <2>1 DEF LInv
<1>3. CASE ~ (preprocessedBytes + length + bytes > MaxBytes)
  <2>1. stack' = WithTop(stack, now) /\ failure' = failure
    BY <1>3 DEF Emit
  <2>2. PICK n \in Nat \ {0} : n = Len(stack)
    BY TopFacts
  <2>3. /\ stack \in Seq(Buffers) /\ stack # << >> /\ Top = stack[n] /\ DOMAIN stack = 1 .. n
        /\ conditionals \in Seq(Groups) /\ Sound(stack, conditionals) /\ Follows
        /\ \A i \in 1 .. n : stack[i] \in Buffers
    BY <2>2, TopFacts DEF Top, Last, LInv, Running
  <2>4. /\ DOMAIN stack' = 1 .. n /\ Len(stack') = n /\ stack' # << >>
        /\ \A i \in 1 .. n : stack'[i] = IF i = n THEN now ELSE stack[i]
    <3>1. /\ WithTop(stack, now) \in Seq(Buffers)
          /\ Len(WithTop(stack, now)) = Len(stack)
          /\ \A i \in 1 .. Len(stack) :
               WithTop(stack, now)[i] = IF i = Len(stack) THEN now ELSE stack[i]
      <4>1. stack \in Seq(Buffers) /\ stack # << >>
        BY <2>3
      <4> QED BY <4>1, WithTopFacts, SMTT(60)
    <3> QED BY <2>1, <2>2, <3>1
  <2>5. \A i \in 1 .. n : stack'[i].id = stack[i].id
    BY <2>3, <2>4
  <2>6. \A k \in DOMAIN stack' : stack'[k].id <= input' + includeFileCount'
    BY <2>3, <2>4, <2>5 DEF Follows
  <2>7. \A i, k \in DOMAIN stack' : i < k => stack'[i].id < stack'[k].id
    BY <2>3, <2>4, <2>5 DEF Follows
  <2>8. /\ log \in Seq(Entry) /\ e \in Entry /\ log' = Append(log, e) /\ l \in Nat /\ l = Len(log)
        /\ \A i \in 1 .. l : T[i] <=> S[i]
        /\ S = Selection /\ T = Selection' /\ e.buffer = Top.id /\ e.input = input
    BY DEF Reads
  <2>9. ASSUME NEW k \in 1 .. n, NEW buffer, buffer = stack'[k],
               NEW end, end = EndIn(stack', conditionals', k)
        PROVE  Describes(buffer, end, after, T)'
    <3>1. CASE k = n
      <4>1. buffer = now /\ end = Len(after)
        BY <2>4, <2>9, <3>1 DEF EndIn
      <4> QED BY <4>1
    <3>2. CASE k # n
      <4>1. buffer = stack[k] /\ k \in 1 .. Len(stack) - 1 /\ k + 1 \in 1 .. n
        BY <2>2, <2>4, <2>9, <3>2
      <4>2. end = stack'[k + 1].base
        BY <2>4, <2>9, <3>2 DEF EndIn
      <4>3. end = stack[k + 1].base
        BY <2>3, <2>4, <4>1, <4>2
      <4> QED BY <4>1, <4>3, OuterDescribed
    <3> QED BY <3>1, <3>2
  <2>10. Known'
    BY <2>4, <2>8, <2>9 DEF Known
  <2>11. \A of \in {input'}, last \in {Len(log')}, sel \in {Selection'}, macro \in Macro :
           macro \in macros' <=> Defined(macro, Changes(macro, last, of, sel))'
    <3>1. Len(log') = l + 1 /\ input' = e.input
      BY <2>8, LogGrows
    <3> QED BY <2>8, <3>1
  <2>12. Follows'
    BY <2>6, <2>7, <2>10, <2>11 DEF Follows
  <2> QED BY <1>1, <2>12 DEF LInv
<1> QED BY <1>2, <1>3

(***************************************************************************)
(* A refused line is in the log, too.                                      *)
(***************************************************************************)
LEMMA LineRefused ==
  ASSUME IInv, LInv, NEW line \in Directive, Take(line), NEW why, why # "none", Refuse(why),
         UNCHANGED << input, includeFileCount >>
  PROVE  LInv'
<1>1. Running /\ failure' # "none"
  BY DEF Take, Reading, Refuse
<1>2. PICK e, l, S, T : Reads(e, l, S, T)
  BY LineRead
<1>3. Logged'
  BY <1>1, <1>2, LogRead
<1> QED BY <1>1, <1>3 DEF LInv

(***************************************************************************)
(* The line after this one, of a buffer that may be active now.            *)
(***************************************************************************)
LEMMA NextLine ==
  ASSUME NEW buffer \in Buffers, buffer.left > 0, NEW active \in BOOLEAN
  PROVE  LET now == Advance([buffer EXCEPT !.active = active]) IN
         /\ now \in Buffers /\ now.id = buffer.id /\ now.base = buffer.base
         /\ now.file = buffer.file /\ now.name = buffer.name
         /\ now.line = buffer.line + 1 /\ now.active = active
<1>1. buffer.line + 1 \in Nat /\ buffer.left - 1 \in Nat
  BY DEF Buffers
<1> DEFINE first == [buffer EXCEPT !.active = active]
           second == [first EXCEPT !.line = first.line + 1]
<1>2. /\ first \in Buffers /\ first.id = buffer.id /\ first.base = buffer.base
      /\ first.file = buffer.file /\ first.name = buffer.name
      /\ first.line = buffer.line /\ first.active = active /\ first.left = buffer.left
  BY DEF Buffers
<1> HIDE DEF first
<1>3. /\ second \in Buffers /\ second.id = buffer.id /\ second.base = buffer.base
      /\ second.file = buffer.file /\ second.name = buffer.name
      /\ second.line = buffer.line + 1 /\ second.active = active /\ second.left = buffer.left
  BY <1>1, <1>2 DEF Buffers
<1>4. Advance(first) = [second EXCEPT !.left = second.left - 1]
  BY <1>2 DEF Advance, Buffers
<1> HIDE DEF second
<1>5. /\ Advance(first) \in Buffers /\ Advance(first).id = buffer.id
      /\ Advance(first).base = buffer.base
      /\ Advance(first).file = buffer.file /\ Advance(first).name = buffer.name
      /\ Advance(first).line = buffer.line + 1 /\ Advance(first).active = active
  BY <1>1, <1>3, <1>4 DEF Buffers
<1> QED BY <1>5 DEF first

\* Do the macros follow the line that is read?
MacrosAsRead(line) ==
  \A e, l, S, T :
    Reads(e, l, S, T) /\ e.line = line =>
      \A macro \in Macro : macro \in macros' <=> Defined(macro, Changes(macro, l + 1, e.input, T))'

(***************************************************************************)
(* They do where they stay the same and the line is not about them.        *)
(***************************************************************************)
LEMMA MacrosAsBefore ==
  ASSUME NEW line, line.kind \in {"define", "undef"} => ~ Top.active, macros' = macros
  PROVE  MacrosAsRead(line)
<1> SUFFICES ASSUME NEW e, NEW l, NEW S, NEW T, Reads(e, l, S, T), e.line = line
             PROVE  \A macro \in Macro :
                      macro \in macros' <=> Defined(macro, Changes(macro, l + 1, e.input, T))'
  BY DEF MacrosAsRead
<1>1. e.line.kind \in {"define", "undef"} => ~ Top.active
  OBVIOUS
<1> QED BY <1>1, MacrosStay

(***************************************************************************)
(* Lines that are no conditional directives.                               *)
(***************************************************************************)
LEMMA PlainLine ==
  ASSUME IInv, LInv, NEW line \in Directive, Take(line),
         line.kind \notin {"if", "elif", "else", "endif"},
         NEW bytes, NEW now \in Buffers, Emit(bytes, WithTop(stack, now)),
         now.id = Top.id, now.base = Top.base, now.active = Top.active,
         UNCHANGED << conditionals, input, includeFileCount >>, MacrosAsRead(line)
  PROVE  LInv'
<1>1. Running
  BY DEF Take, Reading
<1>2. PICK e, l, S, T : Reads(e, l, S, T) /\ e.line = line
  BY LineRead
<1>3. /\ Top \in Buffers /\ conditionals \in Seq(Groups) /\ Len(conditionals) \in Nat
      /\ Top.base \in Nat /\ Top.base <= Len(conditionals)
  BY <1>1, TopFacts
<1>4. /\ log \in Seq(Entry) /\ e \in Entry /\ log' = Append(log, e) /\ l \in Nat /\ l = Len(log)
      /\ \A i \in 1 .. l : T[i] <=> S[i]
      /\ Describes(Top, Len(conditionals), conditionals, S)
      /\ e.buffer = Top.id
  BY <1>2 DEF Reads
<1>5. PICK groups \in Seq(Groups) : groups = conditionals
  BY <1>3
<1>6. PICK end \in Nat : end = Len(groups)
  BY <1>3, <1>5
<1>7. PICK buffer \in Buffers : buffer = Top
  BY <1>3
<1>8. Describes(buffer, end, groups, S)
  BY <1>4, <1>5, <1>6, <1>7
<1>9. /\ now.id = buffer.id /\ now.base = buffer.base /\ now.active = buffer.active
      /\ buffer.id = e.buffer /\ e.line.kind \notin {"if", "elif", "else", "endif"}
  BY <1>2, <1>4, <1>7
<1>10. Describes(now, end, groups, T)'
  BY <1>4, <1>6, <1>8, <1>9, PlainDescribed
<1>11. Describes(now, Len(groups), groups, T)'
  BY <1>6, <1>10
<1>12. \A macro \in Macro : macro \in macros' <=> Defined(macro, Changes(macro, l + 1, e.input, T))'
  BY <1>2 DEF MacrosAsRead
<1>13. conditionals' = groups /\ \A k \in 1 .. Top.base : k <= Len(groups) /\ groups[k] = conditionals[k]
  BY <1>3, <1>5
<1>14. Reads(e, l, S, T)
  BY <1>2
<1> QED BY <1>1, <1>11, <1>12, <1>13, <1>14, LineDone

-----------------------------------------------------------------------------
(* One lemma per action, for the log.                                      *)

(***************************************************************************)
(* The line after this one, of the innermost buffer.                       *)
(***************************************************************************)
LEMMA AdvanceTop ==
  ASSUME IInv, Reading
  PROVE  /\ Advance(Top) \in Buffers /\ Advance(Top).id = Top.id /\ Advance(Top).base = Top.base
         /\ Advance(Top).file = Top.file /\ Advance(Top).name = Top.name
         /\ Advance(Top).line = Top.line + 1 /\ Advance(Top).active = Top.active
<1>1. Top \in Buffers /\ Top.left > 0 /\ Top.active \in BOOLEAN
  BY TopFacts DEF Reading
<1>2. PICK buffer \in Buffers : buffer = Top
  BY <1>1
<1>3. PICK active \in BOOLEAN : active = buffer.active
  BY <1>1, <1>2
<1>4. [buffer EXCEPT !.active = active] = buffer
  BY <1>3 DEF Buffers
<1>5. LET now == Advance([buffer EXCEPT !.active = active]) IN
        /\ now \in Buffers /\ now.id = buffer.id /\ now.base = buffer.base
        /\ now.file = buffer.file /\ now.name = buffer.name
        /\ now.line = buffer.line + 1 /\ now.active = active
  BY <1>1, <1>2, NextLine
<1> QED BY <1>2, <1>3, <1>4, <1>5

(***************************************************************************)
(* Text is selected or not, and changes nothing for what follows.          *)
(***************************************************************************)
LEMMA TextLogged ==
  ASSUME IInv, LInv, Text
  PROVE  LInv'
<1> DEFINE line == [kind |-> "text"]
<1>1. Take(line) /\ Reading /\ UNCHANGED << conditionals, input, includeFileCount >> /\ macros' = macros
  BY DEF Text, Take, counters
<1>2. line \in Directive /\ line.kind \notin {"if", "elif", "else", "endif", "define", "undef"}
  BY DEF Directive
<1>3. \E bytes : Emit(bytes, WithTop(stack, Advance(Top)))
  BY DEF Text, Finish
<1> HIDE DEF line
<1>4. MacrosAsRead(line)
  BY <1>1, <1>2, MacrosAsBefore
<1> QED BY <1>1, <1>2, <1>3, <1>4, AdvanceTop, PlainLine

(***************************************************************************)
(* #define and #undef, where they are obeyed, decide for what follows.     *)
(***************************************************************************)
LEMMA DefineLogged ==
  ASSUME IInv, LInv, NEW macro \in Macro, Define(macro) \/ Undef(macro)
  PROVE  LInv'
<1>1. PICK kind \in {"define", "undef"} :
        /\ Take([kind |-> kind, macro |-> macro]) /\ Finish(Top)
        /\ UNCHANGED << conditionals, input, includeFileCount >>
        /\ macros' = IF ~ Top.active THEN macros
                     ELSE IF kind = "define" THEN macros \union {macro} ELSE macros \ {macro}
  <2>1. CASE Define(macro)
    <3>1. /\ Take([kind |-> "define", macro |-> macro]) /\ Finish(Top)
          /\ UNCHANGED << conditionals, input, includeFileCount >>
          /\ macros' = IF ~ Top.active THEN macros ELSE macros \union {macro}
      BY <2>1 DEF Define, counters
    <3> QED BY <3>1
  <2>2. CASE Undef(macro)
    <3>1. /\ Take([kind |-> "undef", macro |-> macro]) /\ Finish(Top)
          /\ UNCHANGED << conditionals, input, includeFileCount >>
          /\ macros' = IF ~ Top.active THEN macros ELSE macros \ {macro}
      BY <2>2 DEF Undef, counters
    <3> QED BY <3>1
  <2> QED BY <2>1, <2>2
<1> DEFINE line == [kind |-> kind, macro |-> macro]
<1>2. /\ Take(line) /\ Reading /\ line \in Directive /\ line.kind = kind /\ line.macro = macro
      /\ line.kind \notin {"if", "elif", "else", "endif"}
  BY <1>1 DEF Directive, Take
<1>3. Emit(1, WithTop(stack, Advance(Top)))
  BY <1>1 DEF Finish
<1> HIDE DEF line
<1>4. CASE ~ Top.active
  <2>1. MacrosAsRead(line)
    BY <1>1, <1>4, MacrosAsBefore
  <2> QED BY <1>1, <1>2, <1>3, <2>1, AdvanceTop, PlainLine
<1>5. CASE Top.active
  <2>1. MacrosAsRead(line)
    <3> SUFFICES ASSUME NEW e, NEW l, NEW S, NEW T, Reads(e, l, S, T), e.line = line, NEW other \in Macro
                 PROVE  other \in macros' <=> Defined(other, Changes(other, l + 1, e.input, T))'
      BY DEF MacrosAsRead
    <3>1. /\ log \in Seq(Entry) /\ e \in Entry /\ log' = Append(log, e) /\ l \in Nat /\ l = Len(log)
          /\ \A i \in 1 .. l : T[i] <=> S[i]
          /\ T[l + 1]
          /\ other \in macros <=> Defined(other, Changes(other, l, e.input, S))
      BY <1>5 DEF Reads
    <3>2. CASE other = macro
      <4>1. e.line.kind \in {"define", "undef"} /\ T[l + 1] /\ e.line.macro = other
        BY <1>2, <3>1, <3>2
      <4>2. Defined(other, Changes(other, l + 1, e.input, T))' <=> e.line.kind = "define"
        BY <3>1, <4>1, MacrosFollow
      <4>3. other \in macros' <=> kind = "define"
        BY <1>1, <1>5, <3>2
      <4> QED BY <1>2, <4>2, <4>3
    <3>3. CASE other # macro
      <4>1. ~ (e.line.kind \in {"define", "undef"} /\ T[l + 1] /\ e.line.macro = other)
        BY <1>2, <3>3
      <4>2. Defined(other, Changes(other, l + 1, e.input, T))' <=> Defined(other, Changes(other, l, e.input, S))
        BY <3>1, <4>1, MacrosFollow
      <4>3. other \in macros' <=> other \in macros
        BY <1>1, <3>3
      <4> QED BY <3>1, <4>2, <4>3
    <3> QED BY <3>2, <3>3
  <2> QED BY <1>1, <1>2, <1>3, <2>1, AdvanceTop, PlainLine
<1> QED BY <1>4, <1>5

(***************************************************************************)
(* #line renames, and no more.                                             *)
(***************************************************************************)
LEMMA LineLogged ==
  ASSUME IInv, LInv, NEW marker \in Marker, Line(marker)
  PROVE  LInv'
<1> DEFINE line == [kind |-> "line", name |-> marker.name, number |-> marker.number]
<1>0. marker.name \in Name /\ marker.number \in Nat
  BY PreprocessorAssumption
<1>1. /\ Take(line) /\ Reading /\ UNCHANGED << conditionals, input, includeFileCount >>
      /\ macros' = macros
  BY DEF Line, Take, counters
<1>2. line \in Directive /\ line.kind \notin {"if", "elif", "else", "endif", "define", "undef"}
  BY <1>0 DEF Directive
<1> HIDE DEF line
<1>3. MacrosAsRead(line)
  BY <1>1, <1>2, MacrosAsBefore
<1>4. CASE ~ Top.active
  <2>1. Emit(1, WithTop(stack, Advance(Top)))
    BY <1>4 DEF Line, Finish
  <2> QED BY <1>1, <1>2, <1>3, <2>1, AdvanceTop, PlainLine
<1>5. CASE Top.active
  <2>1. PICK next \in Buffers : next = Advance(Top)
    BY <1>1, AdvanceTop
  <2> DEFINE now == [next EXCEPT !.name = marker.name, !.line = marker.number]
  <2>2. Emit(1, WithTop(stack, now))
    BY <1>5, <2>1 DEF Line
  <2>3. now \in Buffers /\ now.id = next.id /\ now.base = next.base /\ now.active = next.active
    BY <1>0 DEF Buffers
  <2>4. now.id = Top.id /\ now.base = Top.base /\ now.active = Top.active
    BY <1>1, <2>1, <2>3, AdvanceTop
  <2> HIDE DEF now
  <2> QED BY <1>1, <1>2, <1>3, <2>2, <2>3, <2>4, PlainLine
<1> QED BY <1>4, <1>5

(***************************************************************************)
(* A condition holds for the log if it does for the macros.                *)
(***************************************************************************)
LEMMA ConditionRead ==
  ASSUME NEW e, NEW l, NEW S, NEW T, Reads(e, l, S, T), NEW kind \in {"if", "elif"},
         NEW macro \in Macro, NEW defined \in BOOLEAN,
         e.line = [kind |-> kind, macro |-> macro, defined |-> defined]
  PROVE  Holds(l + 1, T)' <=> ((macro \in macros) = defined)
<1>1. /\ log \in Seq(Entry) /\ e \in Entry /\ log' = Append(log, e) /\ l \in Nat /\ l = Len(log)
      /\ \A i \in 1 .. l : T[i] <=> S[i]
      /\ macro \in macros <=> Defined(macro, Changes(macro, l, e.input, S))
  BY DEF Reads
<1>2. e.line.kind # "else" /\ e.line.macro = macro /\ e.line.defined = defined
  OBVIOUS
<1>3. Holds(l + 1, T)' <=>
        \/ e.line.kind = "else"
        \/ Defined(e.line.macro, Changes(e.line.macro, l, e.input, S)) = e.line.defined
  BY <1>1, NewHolds
<1>4. Defined(macro, Changes(macro, l, e.input, S)) \in BOOLEAN
  <2>1. PICK changes : changes = Changes(macro, l, e.input, S)
    OBVIOUS
  <2>2. (macro \in Predefined) \in BOOLEAN /\ (Kind(Max(changes)) = "define") \in BOOLEAN
    OBVIOUS
  <2>3. Defined(macro, changes) \in BOOLEAN
    BY <2>2 DEF Defined
  <2> QED BY <2>1, <2>3
<1>5. Holds(l + 1, T)' <=> Defined(macro, Changes(macro, l, e.input, S)) = defined
  BY <1>2, <1>3
<1> QED BY <1>1, <1>4, <1>5

(***************************************************************************)
(* #if opens a group for the log and on the stack.                         *)
(***************************************************************************)
LEMMA IfLogged ==
  ASSUME IInv, LInv, NEW macro \in Macro, NEW defined \in BOOLEAN, If(macro, defined)
  PROVE  LInv'
<1> DEFINE line == [kind |-> "if", macro |-> macro, defined |-> defined]
<1>1. /\ Take(line) /\ Reading /\ Running /\ UNCHANGED << input, includeFileCount >>
      /\ macros' = macros
  BY DEF If, Take, Reading, counters
<1>2. line \in Directive /\ line.kind = "if"
  BY DEF Directive
<1>3. CASE Len(conditionals) >= MaxNesting
  <2>1. Refuse("nesting")
    BY <1>3 DEF If
  <2> HIDE DEF line
  <2> QED BY <1>1, <1>2, <2>1, LineRefused
<1>4. CASE ~ (Len(conditionals) >= MaxNesting)
  <2>0. PICK holds \in BOOLEAN : holds = ((macro \in macros) = defined)
    OBVIOUS
  <2>1. PICK buffer \in Buffers : buffer = Top
    BY <1>1, TopFacts
  <2>2. PICK groups \in Seq(Groups) : groups = conditionals
    BY <1>1, TopFacts
  <2>3. PICK end \in Nat : end = Len(groups)
    OBVIOUS
  <2>4. buffer.active \in BOOLEAN /\ buffer.base \in Nat /\ buffer.left > 0 /\ buffer.base <= end
    BY <1>1, <2>1, <2>2, <2>3, TopFacts DEF Reading
  <2>5. PICK condition \in BOOLEAN :
          /\ condition = holds \/ condition = (buffer.active /\ holds)
          /\ conditionals' = Append(groups, [parentActive |-> buffer.active,
                                             branchTaken |-> condition, elseSeen |-> FALSE])
          /\ Finish([buffer EXCEPT !.active = Entered(condition)])
    BY <1>4, <2>0, <2>1, <2>2, <2>4 DEF If
  <2>6. PICK active \in BOOLEAN : active = (buffer.active /\ condition)
    BY <2>4
  <2>7. Entered(condition) = active
    BY <2>1, <2>6 DEF Entered
  <2>8. PICK now : now = Advance([buffer EXCEPT !.active = active])
    OBVIOUS
  <2>9. now \in Buffers /\ now.id = buffer.id /\ now.base = buffer.base /\ now.active = active
    <3>1. LET next == Advance([buffer EXCEPT !.active = active]) IN
            /\ next \in Buffers /\ next.id = buffer.id /\ next.base = buffer.base
            /\ next.file = buffer.file /\ next.name = buffer.name
            /\ next.line = buffer.line + 1 /\ next.active = active
      BY <2>4, NextLine
    <3> QED BY <2>8, <3>1
  <2>10. Emit(1, WithTop(stack, now))
    BY <2>5, <2>7, <2>8 DEF Finish
  <2>11. PICK after : after = Append(groups, [parentActive |-> buffer.active,
                                              branchTaken |-> condition, elseSeen |-> FALSE])
    OBVIOUS
  <2>12. after \in Seq(Groups) /\ Len(after) = end + 1 /\ \A k \in 1 .. end : after[k] = groups[k]
    <3>1. PICK group : group = [parentActive |-> buffer.active, branchTaken |-> condition, elseSeen |-> FALSE]
      OBVIOUS
    <3>2. group \in Groups
      BY <2>4, <3>1 DEF Groups
    <3> QED BY <2>3, <2>11, <3>1, <3>2
  <2>13. \A k \in 1 .. Top.base : k <= Len(after) /\ after[k] = conditionals[k]
    BY <2>1, <2>2, <2>4, <2>12
  <2> HIDE DEF line
  <2>14. PICK e, l, S, T : Reads(e, l, S, T) /\ e.line = line
    BY <1>1, <1>2, LineRead
  <2>15. /\ log \in Seq(Entry) /\ e \in Entry /\ log' = Append(log, e) /\ l \in Nat /\ l = Len(log)
         /\ \A i \in 1 .. l : T[i] <=> S[i]
         /\ Selects(T)' /\ buffer.id = e.buffer /\ e.line.kind = "if"
         /\ Describes(buffer, end, groups, S)
    BY <1>2, <2>1, <2>2, <2>3, <2>14 DEF Reads
  <2>16. Holds(l + 1, T)' <=> holds
    <3>1. PICK kind \in {"if", "elif"} : kind = "if"
      OBVIOUS
    <3>2. Reads(e, l, S, T) /\ e.line = [kind |-> kind, macro |-> macro, defined |-> defined]
      BY <2>14, <3>1 DEF line
    <3>3. Holds(l + 1, T)' <=> ((macro \in macros) = defined)
      BY <3>2, ConditionRead
    <3> QED BY <2>0, <3>3
  <2>17. now.active = (buffer.active /\ condition)
    BY <2>6, <2>9
  <2>18. Describes(now, end + 1, after, T)'
    BY <2>3, <2>4, <2>5, <2>9, <2>11, <2>15, <2>16, <2>17, OpenedDescribed, ZenonT(60)
  <2>19. PICK last : last = end + 1
    OBVIOUS
  <2>20. Describes(now, Len(after), after, T)'
    <3>1. Describes(now, last, after, T)'
      BY <2>18, <2>19
    <3>2. Len(after) = last
      BY <2>12, <2>19
    <3> QED BY <3>1, <3>2
  <2>21. \A other \in Macro : other \in macros' <=> Defined(other, Changes(other, l + 1, e.input, T))'
    BY <1>1, <2>14, <2>15, MacrosStay
  <2>22. now.id = Top.id /\ now.base = Top.base /\ conditionals' = after
    BY <2>1, <2>5, <2>9, <2>11
  <2> QED BY <1>1, <2>9, <2>10, <2>12, <2>13, <2>14, <2>20, <2>21, <2>22, LineDone
<1> QED BY <1>3, <1>4

(***************************************************************************)
(* Where a directive is matched, the innermost group is its buffer's.      *)
(***************************************************************************)
LEMMA OwnGroup ==
  ASSUME IInv, Running, ~ Unmatched
  PROVE  /\ conditionals \in Seq(Groups) /\ conditionals # << >>
         /\ Top.base < Len(conditionals) /\ Len(conditionals) \in Nat \ {0}
         /\ Group \in Groups /\ Group = conditionals[Len(conditionals)]
<1>1. /\ Top.base < Len(conditionals) /\ Len(conditionals) \in Nat /\ conditionals \in Seq(Groups)
      /\ Top.base \in Nat
  BY TopFacts DEF Unmatched
<1>2. conditionals # << >>
  BY <1>1
<1> QED BY <1>1, <1>2, LastFacts DEF Group

\* Does the condition of the line that is read hold?
ConditionAsRead(line, holds) ==
  \A e, l, S, T : Reads(e, l, S, T) /\ e.line = line => (Holds(l + 1, T)' <=> holds)

(***************************************************************************)
(* #elif and #else go on with the same group, for the log and on the       *)
(* stack.                                                                  *)
(***************************************************************************)
LEMMA BranchLogged ==
  ASSUME IInv, LInv, NEW line \in Directive, NEW holds \in BOOLEAN, NEW isElse \in BOOLEAN,
         Branch(line, holds, isElse),
         line.kind = (IF isElse THEN "else" ELSE "elif"), isElse => holds,
         ConditionAsRead(line, holds)
  PROVE  LInv'
<1>1. /\ Take(line) /\ Reading /\ Running /\ UNCHANGED << input, includeFileCount >>
      /\ macros' = macros
  BY DEF Branch, Take, Reading, counters
<1>2. PICK kind \in {"elif", "else"} : line.kind = kind /\ isElse = (kind = "else")
  OBVIOUS
<1>3. CASE Unmatched \/ Group.elseSeen
  <2>1. Refuse("syntax")
    BY <1>3 DEF Branch
  <2> QED BY <1>1, <2>1, LineRefused
<1>4. CASE ~ (Unmatched \/ Group.elseSeen)
  <2>1. PICK buffer \in Buffers : buffer = Top
    BY <1>1, TopFacts
  <2>2. PICK groups \in Seq(Groups) : groups = conditionals
    BY <1>1, TopFacts
  <2>3. PICK end \in Nat : end = Len(groups)
    OBVIOUS
  <2>4. PICK old \in Groups : old = Group /\ old = groups[end]
    BY <1>1, <1>4, <2>2, <2>3, OwnGroup
  <2>5. /\ buffer.base < end /\ end # 0 /\ buffer.base \in Nat /\ buffer.left > 0
        /\ old.parentActive \in BOOLEAN /\ old.branchTaken \in BOOLEAN /\ ~ old.elseSeen
        /\ groups # << >>
    BY <1>1, <1>4, <2>1, <2>2, <2>3, <2>4, OwnGroup DEF Reading, Buffers, Groups
  <2>6. PICK condition \in BOOLEAN : condition = (old.parentActive /\ ~ old.branchTaken /\ holds)
    BY <2>5
  <2>7. PICK new : new = [old EXCEPT !.branchTaken = Taken(condition, isElse), !.elseSeen = isElse]
    OBVIOUS
  <2>8. /\ conditionals' = WithTop(groups, new)
        /\ Finish([buffer EXCEPT !.active = condition])
    BY <1>4, <2>1, <2>2, <2>4, <2>6, <2>7 DEF Branch
  <2>9. Taken(condition, isElse) = (old.branchTaken \/ condition \/ isElse)
    BY <2>4 DEF Taken
  <2>10. /\ new \in Groups /\ new.parentActive = old.parentActive
         /\ new.branchTaken = (old.branchTaken \/ condition \/ isElse)
         /\ new.elseSeen = isElse
    BY <2>5, <2>7, <2>9 DEF Groups
  <2>11. old.parentActive => (new.branchTaken <=> old.branchTaken \/ holds)
    BY <2>5, <2>6, <2>10
  <2>12. PICK after : after = WithTop(groups, new)
    OBVIOUS
  <2>13. /\ after \in Seq(Groups) /\ Len(after) = end
         /\ \A c \in 1 .. end : after[c] = IF c = end THEN new ELSE groups[c]
    <3>1. /\ WithTop(groups, new) \in Seq(Groups)
          /\ Len(WithTop(groups, new)) = Len(groups)
          /\ \A i \in 1 .. Len(groups) :
               WithTop(groups, new)[i] = IF i = Len(groups) THEN new ELSE groups[i]
      BY <2>5, <2>10, WithTopFacts
    <3> QED BY <2>3, <2>12, <3>1
  <2>14. PICK now : now = Advance([buffer EXCEPT !.active = condition])
    OBVIOUS
  <2>15. now \in Buffers /\ now.id = buffer.id /\ now.base = buffer.base /\ now.active = condition
    <3>1. LET next == Advance([buffer EXCEPT !.active = condition]) IN
            /\ next \in Buffers /\ next.id = buffer.id /\ next.base = buffer.base
            /\ next.file = buffer.file /\ next.name = buffer.name
            /\ next.line = buffer.line + 1 /\ next.active = condition
      BY <2>5, NextLine
    <3> QED BY <2>14, <3>1
  <2>16. Emit(1, WithTop(stack, now))
    BY <2>8, <2>14 DEF Finish
  <2>17. PICK e, l, S, T : Reads(e, l, S, T) /\ e.line = line
    BY <1>1, LineRead
  <2>18. /\ log \in Seq(Entry) /\ e \in Entry /\ log' = Append(log, e) /\ l \in Nat /\ l = Len(log)
         /\ \A i \in 1 .. l : T[i] <=> S[i]
         /\ Selects(S) /\ buffer.id = e.buffer /\ e.line.kind = kind
         /\ Describes(buffer, end, groups, S)
    BY <1>2, <2>1, <2>2, <2>3, <2>17 DEF Reads
  <2>19. Holds(l + 1, T)' <=> holds
    BY <2>17 DEF ConditionAsRead
  <2>20. new.elseSeen <=> kind = "else"
    BY <1>2, <2>10
  <2>21. Describes(now, end, after, T)'
    <3>1. GoesOn(e, l, S, T, buffer, groups, now, after, old, new, condition, holds)
      BY <2>3, <2>4, <2>5, <2>6, <2>10, <2>11, <2>13, <2>15, <2>18, <2>19, <2>20 DEF GoesOn
    <3>2. Describes(now, Len(groups), after, T)'
      BY <3>1, BranchedDescribed
    <3> QED BY <2>3, <3>2
  <2>22. Describes(now, Len(after), after, T)'
    BY <2>13, <2>21
  <2>23. \A macro \in Macro : macro \in macros' <=> Defined(macro, Changes(macro, l + 1, e.input, T))'
    <3>1. Reads(e, l, S, T) /\ ~ (e.line.kind \in {"define", "undef"})
      BY <1>2, <2>17
    <3> QED BY <1>1, <3>1, MacrosStay
  <2>24. now.id = Top.id /\ now.base = Top.base /\ conditionals' = after
    BY <2>1, <2>8, <2>12, <2>15
  <2>25. \A k \in 1 .. Top.base : k <= Len(after) /\ after[k] = conditionals[k]
    BY <2>1, <2>2, <2>5, <2>13
  <2> QED BY <1>1, <2>13, <2>15, <2>16, <2>17, <2>22, <2>23, <2>24, <2>25, LineDone
<1> QED BY <1>3, <1>4

(***************************************************************************)
(* The two directives that go on with a group.                             *)
(***************************************************************************)
LEMMA ElifLogged ==
  ASSUME IInv, LInv, NEW macro \in Macro, NEW defined \in BOOLEAN, Elif(macro, defined)
  PROVE  LInv'
<1>1. PICK line : line = [kind |-> "elif", macro |-> macro, defined |-> defined]
  OBVIOUS
<1>2. PICK holds \in BOOLEAN : holds = ((macro \in macros) = defined)
  OBVIOUS
<1>3. PICK isElse \in BOOLEAN : isElse = FALSE
  OBVIOUS
<1>4. Branch(line, holds, isElse)
  BY <1>1, <1>2, <1>3 DEF Elif
<1>5. line \in Directive /\ line.kind = (IF isElse THEN "else" ELSE "elif")
  BY <1>1, <1>3 DEF Directive
<1>6. ASSUME NEW e, NEW l, NEW S, NEW T, Reads(e, l, S, T), e.line = line
      PROVE  Holds(l + 1, T)' <=> holds
  <2>1. PICK kind \in {"if", "elif"} : kind = "elif"
    OBVIOUS
  <2>2. e.line = [kind |-> kind, macro |-> macro, defined |-> defined]
    BY <1>1, <1>6, <2>1
  <2>3. Holds(l + 1, T)' <=> ((macro \in macros) = defined)
    BY <1>6, <2>2, ConditionRead
  <2> QED BY <1>2, <2>3
<1>7. ConditionAsRead(line, holds)
  BY <1>6 DEF ConditionAsRead
<1> QED BY <1>3, <1>4, <1>5, <1>7, BranchLogged

(***************************************************************************)
(* #else is a branch whose condition holds.                                *)
(***************************************************************************)
LEMMA ElseLogged ==
  ASSUME IInv, LInv, Else
  PROVE  LInv'
<1>1. PICK line : line = [kind |-> "else"]
  OBVIOUS
<1>2. PICK holds \in BOOLEAN : holds = TRUE
  OBVIOUS
<1>4. Branch(line, holds, holds)
  BY <1>1, <1>2 DEF Else
<1>5. line \in Directive /\ line.kind = (IF holds THEN "else" ELSE "elif") /\ line.kind = "else"
  BY <1>1, <1>2 DEF Directive
<1>6. ASSUME NEW e, NEW l, NEW S, NEW T, Reads(e, l, S, T), e.line = line
      PROVE  Holds(l + 1, T)' <=> holds
  <2>1. /\ log \in Seq(Entry) /\ e \in Entry /\ log' = Append(log, e) /\ l \in Nat /\ l = Len(log)
        /\ \A i \in 1 .. l : T[i] <=> S[i]
    BY <1>6 DEF Reads
  <2>2. Holds(l + 1, T)' <=>
          \/ e.line.kind = "else"
          \/ Defined(e.line.macro, Changes(e.line.macro, l, e.input, S)) = e.line.defined
    BY <2>1, NewHolds
  <2>3. e.line.kind = "else"
    BY <1>5, <1>6
  <2> QED BY <1>2, <2>2, <2>3
<1>7. ConditionAsRead(line, holds)
  BY <1>6 DEF ConditionAsRead
<1> QED BY <1>4, <1>5, <1>7, BranchLogged

(***************************************************************************)
(* #endif closes the group, for the log and on the stack.                  *)
(***************************************************************************)
LEMMA EndifLogged ==
  ASSUME IInv, LInv, Endif
  PROVE  LInv'
<1>0. PICK line : line = [kind |-> "endif"]
  OBVIOUS
<1>1. /\ Take(line) /\ Reading /\ Running /\ UNCHANGED << input, includeFileCount >>
      /\ macros' = macros /\ line \in Directive /\ line.kind = "endif"
  BY <1>0 DEF Endif, Take, Reading, counters, Directive
<1>3. CASE Unmatched
  <2>1. Refuse("syntax")
    BY <1>3 DEF Endif
  <2> QED BY <1>1, <2>1, LineRefused
<1>4. CASE ~ Unmatched
  <2>1. PICK buffer \in Buffers : buffer = Top
    BY <1>1, TopFacts
  <2>2. PICK groups \in Seq(Groups) : groups = conditionals
    BY <1>1, TopFacts
  <2>3. PICK end \in Nat : end = Len(groups)
    OBVIOUS
  <2>4. PICK old \in Groups : old = Group /\ old = groups[end]
    BY <1>1, <1>4, <2>2, <2>3, OwnGroup
  <2>5. /\ buffer.base < end /\ end # 0 /\ buffer.base \in Nat /\ buffer.left > 0
        /\ old.parentActive \in BOOLEAN
        /\ groups # << >>
    BY <1>1, <1>4, <2>1, <2>2, <2>3, <2>4, OwnGroup DEF Reading, Buffers, Groups
  <2>6. PICK active \in BOOLEAN : active = old.parentActive
    BY <2>5
  <2>7. conditionals' = Front(groups) /\ Finish([buffer EXCEPT !.active = active])
    BY <1>4, <2>1, <2>2, <2>4, <2>6 DEF Endif
  <2>8. PICK after : after = Front(groups)
    OBVIOUS
  <2>9. after \in Seq(Groups) /\ Len(after) = end - 1 /\ \A c \in 1 .. end - 1 : after[c] = groups[c]
    <3>1. /\ Front(groups) \in Seq(Groups) /\ Len(Front(groups)) = Len(groups) - 1
          /\ \A i \in 1 .. Len(groups) - 1 : Front(groups)[i] = groups[i]
      BY <2>5, FrontFacts
    <3> QED BY <2>3, <2>8, <3>1
  <2>10. PICK now : now = Advance([buffer EXCEPT !.active = active])
    OBVIOUS
  <2>11. now \in Buffers /\ now.id = buffer.id /\ now.base = buffer.base /\ now.active = active
    <3>1. LET next == Advance([buffer EXCEPT !.active = active]) IN
            /\ next \in Buffers /\ next.id = buffer.id /\ next.base = buffer.base
            /\ next.file = buffer.file /\ next.name = buffer.name
            /\ next.line = buffer.line + 1 /\ next.active = active
      BY <2>5, NextLine
    <3> QED BY <2>10, <3>1
  <2>12. Emit(1, WithTop(stack, now))
    BY <2>7, <2>10 DEF Finish
  <2>13. PICK e, l, S, T : Reads(e, l, S, T) /\ e.line = line
    BY <1>1, LineRead
  <2>14. /\ log \in Seq(Entry) /\ e \in Entry /\ log' = Append(log, e) /\ l \in Nat /\ l = Len(log)
         /\ \A i \in 1 .. l : T[i] <=> S[i]
         /\ Selects(S) /\ buffer.id = e.buffer /\ e.line.kind = "endif"
         /\ Describes(buffer, end, groups, S)
    BY <1>1, <2>1, <2>2, <2>3, <2>13 DEF Reads
  <2>15. now.active = groups[end].parentActive
    BY <2>4, <2>6, <2>11
  <2>16. Describes(now, end - 1, after, T)'
    BY <2>3, <2>5, <2>9, <2>11, <2>14, <2>15, ClosedDescribed
  <2>17. PICK last : last = end - 1
    OBVIOUS
  <2>18. Describes(now, Len(after), after, T)'
    <3>1. Describes(now, last, after, T)'
      BY <2>16, <2>17
    <3>2. Len(after) = last
      BY <2>9, <2>17
    <3> QED BY <3>1, <3>2
  <2>19. \A macro \in Macro : macro \in macros' <=> Defined(macro, Changes(macro, l + 1, e.input, T))'
    <3>1. Reads(e, l, S, T) /\ ~ (e.line.kind \in {"define", "undef"})
      BY <1>1, <2>13
    <3> QED BY <1>1, <3>1, MacrosStay
  <2>20. now.id = Top.id /\ now.base = Top.base /\ conditionals' = after
    BY <2>1, <2>7, <2>8, <2>11
  <2>21. \A k \in 1 .. Top.base : k <= Len(after) /\ after[k] = conditionals[k]
    BY <2>1, <2>2, <2>5, <2>9
  <2> QED BY <1>1, <2>9, <2>11, <2>12, <2>13, <2>18, <2>19, <2>20, <2>21, LineDone
<1> QED BY <1>3, <1>4

\* What a buffer that starts knows.
FreshKnown ==
  log \in Seq(Entry) =>
    \A S, buffer, groups, end :
      /\ buffer.base = end /\ end \in Nat /\ buffer.active = TRUE
      /\ \A i \in DOMAIN log : log[i].buffer # buffer.id
      => Describes(buffer, end, groups, S)

(***************************************************************************)
(* It knows it of the log with its include line, too.                      *)
(***************************************************************************)
LEMMA FreshNext == FreshKnown'
<1>1. FreshKnown
  BY FreshDescribed DEF FreshKnown
<1> QED BY <1>1, PTL

(***************************************************************************)
(* A source that is included starts with no groups, and its include line   *)
(* is one of the including buffer.                                         *)
(***************************************************************************)
LEMMA IncludedLogged ==
  ASSUME IInv, LInv, NEW line \in Directive, Take(line), line.kind = "include",
         NEW new \in Buffers, new.id = input + includeFileCount + 1, new.active = TRUE,
         new.base = Len(conditionals),
         stack' = Append(stack, new), includeFileCount' = includeFileCount + 1,
         UNCHANGED << input, macros, conditionals >>
  PROVE  LInv'
<1>1. Running /\ failure = "none" /\ Follows
  BY DEF Take, Reading, Running, LInv
<1>2. PICK e, l, S, T : Reads(e, l, S, T) /\ e.line = line
  BY LineRead
<1>3. PICK n \in Nat \ {0} : n = Len(stack)
  BY <1>1, TopFacts
<1>4. /\ stack \in Seq(Buffers) /\ Top = stack[n] /\ DOMAIN stack = 1 .. n
      /\ \A i \in 1 .. n : stack[i] \in Buffers
      /\ input \in Nat /\ includeFileCount \in Nat
  BY <1>1, <1>3, TopFacts DEF Top, Last, IInv, Types
<1>5. /\ DOMAIN stack' = 1 .. n + 1 /\ Len(stack') = n + 1 /\ stack' # << >>
      /\ \A i \in 1 .. n : stack'[i] = stack[i]
      /\ stack'[n + 1] = new
  BY <1>3, <1>4
<1>6. /\ log \in Seq(Entry) /\ e \in Entry /\ log' = Append(log, e) /\ l \in Nat /\ l = Len(log)
      /\ \A i \in 1 .. l : T[i] <=> S[i]
      /\ T = Selection' /\ e.buffer = Top.id /\ e.input = input
      /\ Describes(Top, Len(conditionals), conditionals, S)
  BY <1>2 DEF Reads
<1>7. /\ log' \in Seq(Entry) /\ DOMAIN log' = 1 .. l + 1
      /\ \A i \in 1 .. l + 1 : log'[i].input <= input /\ log'[i].buffer <= input + includeFileCount
  BY <1>1, <1>2, LogBounded
<1>8. \A i \in 1 .. l + 1 : log'[i].input \in Nat /\ log'[i].buffer \in Nat
  <2>0. Len(log') = l + 1
    BY <1>6, LogGrows
  <2>1. \A i \in 1 .. l + 1 : log'[i] \in Entry
    BY <1>7, <2>0
  <2> QED BY <2>1 DEF Entry
<1>9. Logged'
  <2>1. \A i \in 1 .. l + 1 : log'[i].buffer <= input + (includeFileCount + 1)
    BY <1>4, <1>7, <1>8
  <2> QED BY <1>7, <2>1 DEF Logged
<1>10. \A i \in 1 .. n : stack[i].id \in Nat /\ stack[i].id <= input + includeFileCount
  BY <1>1, <1>4 DEF Follows, Buffers
<1>11. \A k \in DOMAIN stack' : stack'[k].id <= input' + includeFileCount'
  BY <1>4, <1>5, <1>10
<1>12. \A i, k \in DOMAIN stack' : i < k => stack'[i].id < stack'[k].id
  <2> SUFFICES ASSUME NEW i \in 1 .. n + 1, NEW k \in 1 .. n + 1, i < k
               PROVE  stack'[i].id < stack'[k].id
    BY <1>5
  <2>1. CASE k = n + 1
    BY <1>4, <1>5, <1>10, <2>1
  <2>2. CASE k # n + 1
    BY <1>1, <1>4, <1>5, <2>2, SMTT(60) DEF Follows
  <2> QED BY <2>1, <2>2
<1>13. PICK groups \in Seq(Groups) : groups = conditionals
  BY <1>1, TopFacts
<1>14. PICK end \in Nat : end = Len(groups)
  OBVIOUS
<1>15. ASSUME NEW k \in 1 .. n + 1, NEW buffer, buffer = stack'[k],
              NEW last, last = EndIn(stack', conditionals', k)
       PROVE  Describes(buffer, last, groups, T)'
  <2>1. CASE k = n + 1
    <3>1. buffer = new /\ last = end /\ buffer.base = end /\ buffer.active = TRUE
      BY <1>5, <1>13, <1>14, <1>15, <2>1 DEF EndIn
    <3>2. \A i \in DOMAIN log' : log'[i].buffer # buffer.id
      BY <1>4, <1>7, <1>8, <3>1
    <3>3. Describes(buffer, end, groups, T)'
      BY <1>7, <3>1, <3>2, FreshNext DEF FreshKnown
    <3> QED BY <3>1, <3>3
  <2>2. CASE k = n
    <3>1. buffer = Top /\ buffer \in Buffers /\ last = end
      BY <1>3, <1>4, <1>5, <1>13, <1>14, <1>15, <2>2 DEF EndIn
    <3>2. Describes(buffer, end, groups, S) /\ buffer.id = e.buffer
      BY <1>6, <1>13, <1>14, <3>1
    <3>3. e.line.kind \notin {"if", "elif", "else", "endif"}
      BY <1>2
    <3>4. Describes(buffer, end, groups, T)'
      BY <1>6, <1>14, <3>1, <3>2, <3>3, PlainDescribed
    <3> QED BY <3>1, <3>4
  <2>3. CASE k \in 1 .. n - 1
    <3>1. k \in 1 .. Len(stack) - 1 /\ k + 1 \in 1 .. n /\ buffer = stack[k]
      BY <1>3, <1>5, <1>15, <2>3
    <3>2. last = stack[k + 1].base
      BY <1>5, <1>15, <2>3, <3>1 DEF EndIn
    <3>3. \A c \in 1 .. Top.base : c <= Len(groups) /\ groups[c] = conditionals[c]
      BY <1>1, <1>13, TopFacts
    <3> QED BY <1>1, <1>2, <3>1, <3>2, <3>3, OuterDescribed
  <2> QED BY <1>3, <2>1, <2>2, <2>3
<1>16. Known'
  BY <1>5, <1>6, <1>13, <1>15, SMTT(60) DEF Known
<1>17. \A of \in {input'}, last \in {Len(log')}, sel \in {Selection'}, macro \in Macro :
         macro \in macros' <=> Defined(macro, Changes(macro, last, of, sel))'
  <2>1. Len(log') = l + 1 /\ input' = e.input
    BY <1>6, LogGrows
  <2>2. \A macro \in Macro : macro \in macros' <=> Defined(macro, Changes(macro, l + 1, e.input, T))'
    <3>1. Reads(e, l, S, T) /\ ~ (e.line.kind \in {"define", "undef"})
      BY <1>2
    <3> QED BY <3>1, MacrosStay
  <2> QED BY <1>6, <2>1, <2>2
<1>18. Follows'
  BY <1>11, <1>12, <1>16, <1>17 DEF Follows
<1> QED BY <1>9, <1>18 DEF LInv

(***************************************************************************)
(* An include line that is skipped is like any other, and one that is      *)
(* refused changes nothing.                                                *)
(***************************************************************************)
LEMMA IncludeLogged ==
  ASSUME IInv, LInv, NEW request \in Request, NEW size \in Size, Include(request, size)
  PROVE  LInv'
<1> DEFINE file == Resolve[<< Top.name, request >>]
<1>0. PICK line : line = [kind |-> "include"]
  OBVIOUS
<1>1. /\ Take(line) /\ Reading /\ Running /\ UNCHANGED << conditionals, macros, input >>
      /\ line \in Directive /\ line.kind = "include"
  BY <1>0 DEF Include, Take, Reading, Directive, counters
<1>2. CASE ~ Top.active
  <2>1. Emit(1, WithTop(stack, Advance(Top))) /\ UNCHANGED << input, includeFileCount >>
    BY <1>2 DEF Include, Finish, counters
  <2>2. MacrosAsRead(line)
    BY <1>1, MacrosAsBefore
  <2> QED BY <1>1, <2>1, <2>2, AdvanceTop, PlainLine
<1>3. CASE Top.active /\ Objection(file, size) # "none"
  <2>1. Refuse(Objection(file, size)) /\ UNCHANGED << input, includeFileCount >>
    BY <1>3 DEF Include, counters
  <2> HIDE DEF file
  <2> QED BY <1>1, <1>3, <2>1, LineRefused
<1>4. CASE Top.active /\ Objection(file, size) = "none"
  <2>1. /\ includeFileCount' = includeFileCount + 1
        /\ stack' = Append(stack, Buffer(input + includeFileCount', file, size))
    BY <1>4 DEF Include
  <2>2. PICK new : new = Buffer(input + includeFileCount', file, size)
    OBVIOUS
  <2>3. file \in Name
    <3>1. file # NotFound
      BY <1>4 DEF Objection
    <3>2. Top.name \in Name
      BY <1>1, TopFacts DEF Buffers
    <3> QED BY <3>1, <3>2, PreprocessorAssumption
  <2>4. size \in Nat /\ input + includeFileCount' \in Nat /\ Len(conditionals) \in Nat
    BY <1>1, <2>1, TopFacts, PreprocessorAssumption DEF Size, IInv, Types
  <2>5. new \in Buffers /\ new.id = input + includeFileCount + 1 /\ new.active = TRUE
        /\ new.base = Len(conditionals)
    BY <2>1, <2>2, <2>3, <2>4 DEF Buffer, Buffers, IInv, Types
  <2> QED BY <1>1, <2>1, <2>2, <2>5, IncludedLogged
<1> QED BY <1>2, <1>3, <1>4

(***************************************************************************)
(* Where nothing is read, what is known of the buffers that remain stays.  *)
(***************************************************************************)
LEMMA KnownStays ==
  ASSUME IInv, Logged, Follows, log' = log,
         NEW k \in DOMAIN stack, NEW buffer, buffer = stack[k],
         NEW end, end = EndIn(stack, conditionals, k), NEW groups, groups = conditionals,
         NEW T, T = Selection'
  PROVE  Describes(buffer, end, groups, T)'
<1>1. PICK S : S = Selection
  OBVIOUS
<1>2. Describes(buffer, end, groups, S)
  BY <1>1 DEF Follows, Known
<1>3. Selects(S)
  BY <1>1, SelectionFacts DEF Logged, Selects
<1>4. Selects(T)'
  <2>1. log' \in Seq(Entry)
    BY DEF Logged
  <2>2. Selects(Selection)'
    BY <2>1, SelectionFactsNext DEF SelectionKnown
  <2> QED BY <2>2 DEF Selects
<1>5. T = S
  BY <1>3, <1>4, SameSelection DEF Logged
<1>6. Describes(buffer, end, groups, S)'
  BY <1>2, SameDescribed
<1> QED BY <1>5, <1>6

(***************************************************************************)
(* Nor do the macros change.                                               *)
(***************************************************************************)
LEMMA MacrosKnownStay ==
  ASSUME Logged, Follows, stack # << >>, log' = log, UNCHANGED << macros, input >>
  PROVE  \A of \in {input'}, last \in {Len(log')}, sel \in {Selection'}, macro \in Macro :
           macro \in macros' <=> Defined(macro, Changes(macro, last, of, sel))'
<1>1. PICK S : S = Selection
  OBVIOUS
<1>2. PICK T : T = Selection'
  OBVIOUS
<1>3. Selects(S)
  BY <1>1, SelectionFacts DEF Logged, Selects
<1>4. Selects(T)'
  <2>1. log' \in Seq(Entry)
    BY DEF Logged
  <2>2. Selects(Selection)'
    BY <2>1, SelectionFactsNext DEF SelectionKnown
  <2> QED BY <1>2, <2>2 DEF Selects
<1>5. T = S
  BY <1>3, <1>4, SameSelection DEF Logged
<1>6. ASSUME NEW macro \in Macro, NEW of, of = input, NEW last, last = Len(log)
      PROVE  macro \in macros' <=> Defined(macro, Changes(macro, last, of, S))'
  <2>1. PICK changes : changes = Changes(macro, last, of, S)
    OBVIOUS
  <2>2. macro \in macros <=> Defined(macro, changes)
    BY <1>1, <1>6, <2>1 DEF Follows
  <2>3. Changes(macro, last, of, S)' = changes /\ (Defined(macro, changes)' <=> Defined(macro, changes))
    BY <2>1, SameHolds
  <2>4. Defined(macro, Changes(macro, last, of, S))' <=> Defined(macro, changes)'
    BY <2>3 DEF Defined
  <2> QED BY <2>2, <2>3, <2>4
<1> QED BY <1>2, <1>5, <1>6

(***************************************************************************)
(* The including buffer goes on as it was, behind its include line.        *)
(***************************************************************************)
LEMMA LeaveLogged ==
  ASSUME IInv, LInv, Leave
  PROVE  LInv'
<1>1. /\ Running /\ failure = "none" /\ Len(stack) > 1 /\ Follows /\ Logged
      /\ UNCHANGED << conditionals, macros, input, includeFileCount, log >>
  BY DEF Leave, AtEnd, Running, LInv, counters
<1>2. Logged'
  BY <1>1 DEF Logged
<1>3. CASE failure' # "none"
  BY <1>2, <1>3 DEF LInv
<1>4. CASE failure' = "none"
  <2>1. PICK n \in Nat : n = Len(stack) - 1 /\ n # 0
    BY <1>1, TopFacts
  <2>2. /\ stack \in Seq(Buffers) /\ stack # << >> /\ DOMAIN stack = 1 .. n + 1 /\ Len(stack) = n + 1
        /\ \A k \in 1 .. n + 1 : stack[k] \in Buffers
        /\ conditionals \in Seq(Groups) /\ Sound(stack, conditionals) /\ Top = stack[n + 1]
    BY <1>1, <2>1, TopFacts DEF Top, Last
  <2>3. PICK outer \in Seq(Buffers) : /\ outer = Front(stack) /\ Len(outer) = n
                                      /\ \A k \in 1 .. n : outer[k] = stack[k]
    <3>1. /\ Front(stack) \in Seq(Buffers) /\ Len(Front(stack)) = Len(stack) - 1
          /\ \A i \in 1 .. Len(stack) - 1 : Front(stack)[i] = stack[i]
      BY <2>2, FrontFacts
    <3> QED BY <2>1, <2>2, <3>1
  <2>4. PICK inner \in Buffers : inner = Last(outer) /\ inner = stack[n]
    <3>1. outer # << >> /\ n \in 1 .. n
      BY <2>1, <2>3
    <3>2. Last(outer) = outer[Len(outer)]
      BY DEF Last
    <3> QED BY <2>2, <2>3, <3>1, <3>2
  <2>5. ~ Unterminated /\ Emit(1, WithTop(outer, Advance(inner)))
    BY <1>4, <2>3, <2>4 DEF Leave, Refuse, Resumed
  <2>6. stack' = WithTop(outer, Advance(inner))
    BY <1>4, <2>5 DEF Emit, Refuse
  <2>7. PICK now \in Buffers : /\ now = Advance(inner) /\ now.id = inner.id /\ now.base = inner.base
                               /\ now.active = inner.active
    <3>1. inner.left > 0
      BY <2>1, <2>2, <2>4 DEF Sound
    <3>2. PICK active \in BOOLEAN : active = inner.active
      BY DEF Buffers
    <3>3. [inner EXCEPT !.active = active] = inner
      BY <3>2 DEF Buffers
    <3>4. LET next == Advance([inner EXCEPT !.active = active]) IN
            /\ next \in Buffers /\ next.id = inner.id /\ next.base = inner.base
            /\ next.file = inner.file /\ next.name = inner.name
            /\ next.line = inner.line + 1 /\ next.active = active
      BY <3>1, NextLine
    <3> QED BY <3>2, <3>3, <3>4
  <2>8. /\ DOMAIN stack' = 1 .. n /\ Len(stack') = n /\ stack' # << >>
        /\ \A k \in 1 .. n : stack'[k] = IF k = n THEN now ELSE stack[k]
    <3>1. outer # << >>
      BY <2>1, <2>3
    <3>2. /\ WithTop(outer, now) \in Seq(Buffers)
          /\ Len(WithTop(outer, now)) = Len(outer)
          /\ \A i \in 1 .. Len(outer) :
               WithTop(outer, now)[i] = IF i = Len(outer) THEN now ELSE outer[i]
      BY <3>1, WithTopFacts, SMTT(60)
    <3> QED BY <2>1, <2>3, <2>6, <2>7, <3>2
  <2>9. \A k \in 1 .. n : stack'[k].id = stack[k].id /\ stack'[k].base = stack[k].base
                          /\ stack'[k].active = stack[k].active /\ k \in DOMAIN stack
    BY <2>1, <2>2, <2>4, <2>7, <2>8
  <2>10. \A k \in DOMAIN stack' : stack'[k].id <= input' + includeFileCount'
    BY <1>1, <2>8, <2>9 DEF Follows
  <2>11. \A i, k \in DOMAIN stack' : i < k => stack'[i].id < stack'[k].id
    BY <1>1, <2>8, <2>9 DEF Follows
  <2>12. PICK groups : groups = conditionals
    OBVIOUS
  <2>13. PICK T : T = Selection'
    OBVIOUS
  <2>14. ASSUME NEW k \in 1 .. n, NEW buffer, buffer = stack'[k],
                NEW end, end = EndIn(stack', conditionals', k)
         PROVE  Describes(buffer, end, groups, T)'
    <3>1. PICK before : before = stack[k]
      OBVIOUS
    <3>2. k \in DOMAIN stack /\ k + 1 \in 1 .. n + 1
      BY <2>2, <2>9
    <3>3. end = EndIn(stack, conditionals, k)
      <4>1. EndIn(stack, conditionals, k) = stack[k + 1].base
        BY <2>1, <2>2 DEF EndIn
      <4>2. CASE k = n
        <5>1. end = Len(conditionals)
          BY <1>1, <2>8, <2>14, <4>2 DEF EndIn
        <5>2. Top.base = Len(conditionals)
          BY <2>5 DEF Unterminated
        <5> QED BY <2>2, <4>1, <4>2, <5>1, <5>2
      <4>3. CASE k # n
        <5>1. k + 1 \in 1 .. n
          BY <2>1, <4>3
        <5>2. end = stack'[k + 1].base
          BY <2>8, <2>14, <4>3 DEF EndIn
        <5> QED BY <2>9, <4>1, <5>1, <5>2
      <4> QED BY <4>2, <4>3
    <3>4. Describes(before, end, groups, T)'
      BY <1>1, <2>12, <2>13, <3>1, <3>2, <3>3, KnownStays
    <3>5. buffer.id = before.id /\ buffer.base = before.base /\ buffer.active = before.active
      BY <2>9, <2>14, <3>1
    <3> QED BY <3>4, <3>5 DEF Describes
  <2>15. Known'
    BY <1>1, <2>8, <2>12, <2>13, <2>14 DEF Known
  <2>16. stack # << >>
    BY <2>2
  <2>17. Follows'
    BY <1>1, <2>10, <2>11, <2>15, <2>16, MacrosKnownStay DEF Follows
  <2> QED BY <1>2, <2>17 DEF LInv
<1> QED BY <1>3, <1>4

\* The macros of an input that starts.
FreshMacrosKnown ==
  log \in Seq(Entry) =>
    \A of, last, S, macro :
      last = Len(log) /\ (\A i \in DOMAIN log : log[i].input # of) =>
        (Defined(macro, Changes(macro, last, of, S)) <=> macro \in Predefined)

(***************************************************************************)
(* They are those of the configuration.                                    *)
(***************************************************************************)
LEMMA FreshMacrosNext == FreshMacrosKnown'
<1>1. FreshMacrosKnown
  BY FreshMacros DEF FreshMacrosKnown
<1> QED BY <1>1, PTL

(***************************************************************************)
(* An input starts with no groups and no macros but the predefined ones.   *)
(***************************************************************************)
LEMMA StartLogged ==
  ASSUME IInv, LInv, NEW size \in Size, StartInput(size)
  PROVE  LInv'
<1>1. /\ failure = "none" /\ stack = << >> /\ Logged /\ log \in Seq(Entry)
      /\ UNCHANGED << conditionals, includeFileCount, log >>
      /\ input \in Nat /\ includeFileCount \in Nat /\ Len(conditionals) \in Nat
  BY DEF StartInput, LInv, Logged, IInv, Types
<1>2. \A i \in DOMAIN log : log[i].input \in Nat /\ log[i].buffer \in Nat
  <2>1. \A i \in DOMAIN log : log[i] \in Entry
    BY <1>1
  <2> QED BY <2>1 DEF Entry
<1>3. CASE size > MaxInput - inputBytes
  <2>1. failure' # "none" /\ UNCHANGED input
    BY <1>3 DEF StartInput, Refuse
  <2> QED BY <1>1, <2>1 DEF LInv, Logged
<1>4. CASE ~ (size > MaxInput - inputBytes)
  <2>1. /\ input' = input + 1 /\ macros' = Predefined
        /\ stack' = << Buffer(input' + includeFileCount, MainName, size) >>
    BY <1>4 DEF StartInput
  <2>2. PICK new : new = Buffer(input' + includeFileCount, MainName, size)
    OBVIOUS
  <2>3. new.id = input + 1 + includeFileCount /\ new.active = TRUE /\ new.base = Len(conditionals)
    BY <2>1, <2>2 DEF Buffer
  <2>4. DOMAIN stack' = 1 .. 1 /\ Len(stack') = 1 /\ stack'[1] = new
    BY <2>1, <2>2
  <2>5. Logged'
    BY <1>1, <1>2, <2>1 DEF Logged
  <2>6. /\ \A k \in DOMAIN stack' : stack'[k].id <= input' + includeFileCount'
        /\ \A i, k \in DOMAIN stack' : i < k => stack'[i].id < stack'[k].id
    BY <1>1, <2>1, <2>3, <2>4
  <2>7. PICK groups : groups = conditionals
    OBVIOUS
  <2>8. PICK T : T = Selection'
    OBVIOUS
  <2>9. PICK end \in Nat : end = Len(groups)
    BY <1>1, <2>7
  <2>10. Describes(new, end, groups, T)'
    <3>1. new.base = end /\ new.active = TRUE /\ \A i \in DOMAIN log' : log'[i].buffer # new.id
      BY <1>1, <1>2, <2>3, <2>7, <2>9 DEF Logged
    <3> QED BY <1>1, <3>1, FreshNext DEF FreshKnown
  <2>11. Known'
    <3>1. \A k \in DOMAIN stack' : stack'[k] = new /\ EndIn(stack', conditionals', k) = end
      BY <1>1, <2>4, <2>7, <2>9 DEF EndIn
    <3> QED BY <1>1, <2>7, <2>8, <2>10, <3>1 DEF Known
  <2>12. \A of \in {input'}, last \in {Len(log')}, sel \in {Selection'}, macro \in Macro :
           macro \in macros' <=> Defined(macro, Changes(macro, last, of, sel))'
    <3>1. \A i \in DOMAIN log' : log'[i].input # input'
      BY <1>1, <1>2, <2>1 DEF Logged
    <3>2. PICK of : of = input'
      OBVIOUS
    <3>3. PICK last : last = Len(log')
      OBVIOUS
    <3>4. ASSUME NEW macro \in Macro
          PROVE  macro \in macros' <=> Defined(macro, Changes(macro, last, of, T))'
      BY <1>1, <2>1, <3>1, <3>2, <3>3, FreshMacrosNext DEF FreshMacrosKnown
    <3> QED BY <2>8, <3>2, <3>3, <3>4
  <2>13. Follows'
    BY <2>6, <2>11, <2>12 DEF Follows
  <2> QED BY <2>5, <2>13 DEF LInv
<1> QED BY <1>3, <1>4

(***************************************************************************)
(* Between inputs there is nothing to know.                                *)
(***************************************************************************)
LEMMA EndLogged ==
  ASSUME IInv, LInv, EndInput
  PROVE  LInv'
<1>1. Logged' /\ (failure' = "none" => stack' = << >>)
  BY DEF EndInput, Refuse, LInv, Logged
<1>2. stack' = << >> => Follows'
  <2>1. stack' = << >> => DOMAIN stack' = {}
    OBVIOUS
  <2> QED BY <2>1 DEF Follows, Known
<1> QED BY <1>1, <1>2 DEF LInv

(***************************************************************************)
(* Nothing was read before the request.                                    *)
(***************************************************************************)
LEMMA InitLogged == Init => LInv
<1> SUFFICES ASSUME Init PROVE LInv
  OBVIOUS
<1>1. stack = << >> /\ log = << >> /\ DOMAIN stack = {} /\ DOMAIN log = {}
  BY DEF Init
<1>2. Follows
  BY <1>1 DEF Follows, Known
<1>3. Logged
  BY <1>1 DEF Logged
<1> QED BY <1>2, <1>3 DEF LInv

(***************************************************************************)
(* A step that changes nothing changes nothing of it.                      *)
(***************************************************************************)
LEMMA StutterLogged ==
  ASSUME IInv, LInv, UNCHANGED vars
  PROVE  LInv'
<1>1. UNCHANGED << stack, conditionals, macros, input, includeFileCount, failure, log >>
  BY DEF vars, counters
<1>2. Logged /\ Logged'
  BY <1>1 DEF LInv, Logged
<1>3. CASE failure # "none"
  BY <1>1, <1>2, <1>3 DEF LInv
<1>4. CASE failure = "none"
  <2>1. Follows
    BY <1>4 DEF LInv
  <2>2. PICK groups : groups = conditionals
    OBVIOUS
  <2>3. PICK T : T = Selection'
    OBVIOUS
  <2>4. ASSUME NEW k \in DOMAIN stack, NEW buffer, buffer = stack[k],
               NEW end, end = EndIn(stack, conditionals, k)
        PROVE  Describes(buffer, end, groups, T)'
    BY <1>1, <1>2, <2>1, <2>2, <2>3, <2>4, KnownStays
  <2>5. Known'
    BY <1>1, <2>2, <2>3, <2>4 DEF Known, EndIn
  <2>6. stack' # << >> =>
          \A of \in {input'}, last \in {Len(log')}, sel \in {Selection'}, macro \in Macro :
            macro \in macros' <=> Defined(macro, Changes(macro, last, of, sel))'
    BY <1>1, <1>2, <2>1, MacrosKnownStay
  <2>7. Follows'
    BY <1>1, <2>1, <2>5, <2>6 DEF Follows
  <2> QED BY <1>2, <2>7 DEF LInv
<1> QED BY <1>3, <1>4

(***************************************************************************)
(* The stack is what the log says of the lines, whatever is done.          *)
(***************************************************************************)
LEMMA LogStepHolds == IInv /\ LInv /\ [Next]_vars => LInv'
<1> SUFFICES ASSUME IInv, LInv, [Next]_vars PROVE LInv'
  OBVIOUS
<1>1. CASE UNCHANGED vars
  BY <1>1, StutterLogged
<1>2. CASE \E size \in Size : StartInput(size)
  BY <1>2, StartLogged
<1>3. CASE Text
  BY <1>3, TextLogged
<1>4. CASE \E macro \in Macro, defined \in BOOLEAN : If(macro, defined) \/ Elif(macro, defined)
  BY <1>4, IfLogged, ElifLogged
<1>5. CASE Else \/ Endif
  BY <1>5, ElseLogged, EndifLogged
<1>6. CASE \E macro \in Macro : Define(macro) \/ Undef(macro)
  BY <1>6, DefineLogged
<1>7. CASE \E marker \in Marker : Line(marker)
  BY <1>7, LineLogged
<1>8. CASE \E request \in Request, size \in Size : Include(request, size)
  BY <1>8, IncludeLogged
<1>9. CASE Leave \/ EndInput
  BY <1>9, LeaveLogged, EndLogged
<1> QED BY <1>1, <1>2, <1>3, <1>4, <1>5, <1>6, <1>7, <1>8, <1>9 DEF Next

-----------------------------------------------------------------------------
(* Groups stay in their file.                                              *)

(***************************************************************************)
(* A line that was read stays matched or unmatched.                        *)
(***************************************************************************)
LEMMA OldMatched ==
  ASSUME log \in Seq(Entry), NEW e \in Entry, log' = Append(log, e), NEW l \in Nat, l = Len(log),
         NEW i \in 1 .. l
  PROVE  Kind(i)' = Kind(i) /\ (Matched(i)' <=> Matched(i))
<1>1. /\ Kind(i)' = Kind(i)
      /\ Before(i)' = Before(i) /\ Before(i) \subseteq 1 .. i - 1
      /\ Level(i)' = Level(i)
      /\ \A j \in Before(i) : /\ Encloses(j, i)' <=> Encloses(j, i)
                              /\ Branches(j, i)' = Branches(j, i)
  BY OldLines
<1>2. \A j \in Before(i) : Level(j)' = Level(j) /\ Branches(j, i) \subseteq 1 .. l
  <2>1. \A j \in Before(i) : j \in 1 .. l
    BY <1>1
  <2>2. \A j \in Before(i) : Branches(j, i) \subseteq 1 .. l
    BY <2>1 DEF Branches
  <2>3. \A j \in 1 .. l : Level(j)' = Level(j)
    BY OldLines
  <2> QED BY <2>1, <2>2, <2>3
<1>3. \A k \in 1 .. l : Kind(k)' = Kind(k)
  BY OldLines
<1>4. ASSUME NEW j \in Before(i)
      PROVE  (\A k \in Branches(j, i) : Kind(k) # "else")' <=> \A k \in Branches(j, i) : Kind(k) # "else"
  BY <1>1, <1>2, <1>3
<1> QED BY <1>1, <1>2, <1>4 DEF Matched

(***************************************************************************)
(* A directive that continues a group has one that it belongs to exactly   *)
(* where the stack has one above the base of the buffer, and it has no     *)
(* #else yet.                                                              *)
(***************************************************************************)
LEMMA MatchedRead ==
  ASSUME IInv, Running, NEW e, NEW l, NEW S, NEW T, Reads(e, l, S, T),
         e.line.kind \in {"elif", "else", "endif"}
  PROVE  Matched(l + 1)' <=> ~ Unmatched /\ (e.line.kind \in {"elif", "else"} => ~ Group.elseSeen)
<1>1. PICK b : b = Top.id
  OBVIOUS
<1>2. /\ log \in Seq(Entry) /\ e \in Entry /\ log' = Append(log, e) /\ l \in Nat /\ l = Len(log)
      /\ e.buffer = b
      /\ Describes(Top, Len(conditionals), conditionals, S)
  BY <1>1 DEF Reads
<1>3. /\ Kind(l + 1)' = e.line.kind
      /\ Before(l + 1)' = Lines(b)
      /\ Level(l + 1)' = Depth(b)
      /\ \A j \in Lines(b) : /\ Encloses(j, l + 1)' <=> Around(j, b)
                             /\ Branches(j, l + 1)' = Arms(j, b)
  BY <1>2, NewLine
<1>4. /\ Lines(b) \subseteq 1 .. l
      /\ \A k \in 1 .. l : Kind(k)' = Kind(k) /\ Level(k)' = Level(k)
  <2>1. Lines(b) \subseteq 1 .. l
    BY <1>2 DEF Lines
  <2> QED BY <1>2, <2>1, OldLines
<1>5. /\ Top.base \in Nat /\ Len(conditionals) \in Nat /\ Top.base <= Len(conditionals)
      /\ Depth(b) = Len(conditionals) - Top.base
  BY <1>1, <1>2, TopFacts DEF Describes
<1>6. Matched(l + 1)' <=>
        /\ Depth(b) > 0
        /\ e.line.kind \in {"elif", "else"} =>
             \A j \in Lines(b) :
               Around(j, b) /\ Level(j) = Depth(b) - 1 => \A k \in Arms(j, b) : Kind(k) # "else"
  <2>1. \A j \in Lines(b) : Level(j)' = Level(j)
    BY <1>4
  <2>2. \A j \in Lines(b) : \A k \in Arms(j, b) : Kind(k)' = Kind(k)
    <3>1. \A j \in Lines(b) : Arms(j, b) \subseteq Lines(b)
      BY DEF Arms
    <3> QED BY <1>4, <3>1
  <2>3. PICK N : N = l + 1
    OBVIOUS
  <2>4. /\ Kind(N)' = e.line.kind /\ Before(N)' = Lines(b) /\ Level(N)' = Depth(b)
        /\ \A j \in Lines(b) : /\ Encloses(j, N)' <=> Around(j, b)
                               /\ Branches(j, N)' = Arms(j, b)
    BY <1>3, <2>3
  <2>5. Matched(N)' <=>
        /\ Depth(b) > 0
        /\ e.line.kind \in {"elif", "else"} =>
             \A j \in Lines(b) :
               Around(j, b) /\ Level(j) = Depth(b) - 1 => \A k \in Arms(j, b) : Kind(k) # "else"
    BY <2>1, <2>2, <2>4 DEF Matched
  <2> QED BY <2>3, <2>5
<1>7. CASE Unmatched
  BY <1>5, <1>6, <1>7 DEF Unmatched
<1>8. CASE ~ Unmatched
  <2>1. Depth(b) > 0 /\ Len(conditionals) \in Top.base + 1 .. Len(conditionals)
    BY <1>5, <1>8 DEF Unmatched
  <2>2. PICK j \in Lines(b) : /\ Around(j, b) /\ Level(j) = Len(conditionals) - Top.base - 1
                              /\ GroupIs(conditionals[Len(conditionals)], j, b, S)
    BY <1>1, <1>2, <2>1 DEF Describes
  <2>3. Level(j) = Depth(b) - 1
    BY <1>5, <2>2
  <2>4. \A i \in Lines(b) : Around(i, b) /\ Level(i) = Level(j) => i = j
    BY <1>2, <2>2, AroundNests
  <2>5. Group.elseSeen <=> \E m \in Arms(j, b) : Kind(m) = "else"
    BY <1>8, <2>2, OwnGroup DEF GroupIs
  <2> QED BY <1>6, <1>8, <2>1, <2>2, <2>3, <2>4, <2>5
<1> QED BY <1>7, <1>8

(***************************************************************************)
(* A line that is refused for its syntax if and only if it continues a     *)
(* group that is not there.                                                *)
(***************************************************************************)
LEMMA GroupsRead ==
  ASSUME IInv, LInv, GroupsStayInTheirFile, NEW line \in Directive, Take(line),
         line.kind \in {"elif", "else", "endif"} =>
           (failure' = "syntax" <=> Unmatched \/ (line.kind \in {"elif", "else"} /\ Group.elseSeen)),
         line.kind \notin {"elif", "else", "endif"} => failure' # "syntax"
  PROVE  GroupsStayInTheirFile'
<1>1. Running /\ failure = "none"
  BY DEF Take, Reading, Running
<1>2. PICK e, l, S, T : Reads(e, l, S, T) /\ e.line = line
  BY LineRead
<1>3. /\ log \in Seq(Entry) /\ e \in Entry /\ log' = Append(log, e) /\ l \in Nat /\ l = Len(log)
  BY <1>2 DEF Reads
<1>4. DOMAIN log = 1 .. l /\ DOMAIN log' = 1 .. l + 1 /\ Len(log') = l + 1
  BY <1>3, LogGrows
<1>5. \A i \in 1 .. l : Kind(i) \in {"elif", "else", "endif"} => Matched(i)
  BY <1>1, <1>4 DEF GroupsStayInTheirFile
<1>6. \A i \in 1 .. l : Kind(i)' \in {"elif", "else", "endif"} => Matched(i)'
  BY <1>3, <1>5, OldMatched
<1>7. PICK N : N = l + 1
  OBVIOUS
<1>8. Kind(N)' = line.kind
  BY <1>2, <1>3, <1>7, NewLine
<1>9. line.kind \in {"elif", "else", "endif"} => (Matched(N)' <=> failure' # "syntax")
  <2>1. line.kind \in {"elif", "else", "endif"} =>
          (Matched(l + 1)' <=> ~ Unmatched /\ (line.kind \in {"elif", "else"} => ~ Group.elseSeen))
    BY <1>1, <1>2, MatchedRead
  <2>2. line.kind \in {"elif", "else", "endif"} =>
          (Matched(N)' <=> ~ Unmatched /\ (line.kind \in {"elif", "else"} => ~ Group.elseSeen))
    BY <1>7, <2>1
  <2> QED BY <2>2
<1>10. Len(log') = N /\ \A i \in DOMAIN log' : i \in 1 .. l \/ i = N
  BY <1>3, <1>4, <1>7
<1>11. \A i \in DOMAIN log' :
         Kind(i)' \in {"elif", "else", "endif"} => Matched(i)' \/ (i = Len(log') /\ failure' = "syntax")
  BY <1>6, <1>8, <1>9, <1>10
<1>12. failure' = "syntax" =>
         Kind(Len(log))' \in {"elif", "else", "endif"} /\ ~ Matched(Len(log))'
  BY <1>8, <1>9, <1>10
<1> QED BY <1>11, <1>12 DEF GroupsStayInTheirFile

(***************************************************************************)
(* What was read stays matched where nothing is read; a buffer that ends   *)
(* too early is refused.                                                   *)
(***************************************************************************)
LEMMA GroupsQuiet ==
  ASSUME log' = log, GroupsStayInTheirFile, failure = "none",
         failure' = "syntax" => /\ UNCHANGED stack /\ Top.left = 0
                                /\ Depth(Top.id) > 0 /\ log \in Seq(Entry)
  PROVE  GroupsStayInTheirFile'
<1>1. \A i : Kind(i)' = Kind(i)
  BY DEF Kind
<1>2. \A i : Matched(i)' <=> Matched(i)
  BY SameLog DEF Matched
<1>3. \A i \in DOMAIN log' : Kind(i)' \in {"elif", "else", "endif"} => Matched(i)'
  BY <1>1, <1>2 DEF GroupsStayInTheirFile
<1>4. ASSUME failure' = "syntax"
      PROVE  /\ Top'.left = 0
             /\ Cardinality({i \in DOMAIN log' : log'[i].buffer = Top'.id /\ Kind(i)' = "if"})
                  > Cardinality({i \in DOMAIN log' : log'[i].buffer = Top'.id /\ Kind(i)' = "endif"})
  <2>1. Top' = Top
    BY <1>4 DEF Top
  <2>2. PICK b : b = Top.id
    OBVIOUS
  <2> DEFINE open == {i \in DOMAIN log : log[i].buffer = b /\ Kind(i) = "if"}
             closed == {i \in DOMAIN log : log[i].buffer = b /\ Kind(i) = "endif"}
  <2>3. Depth(b) = Cardinality(open) - Cardinality(closed)
    <3>1. open = {i \in Lines(b) : Kind(i) = "if"} /\ closed = {i \in Lines(b) : Kind(i) = "endif"}
      BY DEF Lines
    <3> HIDE DEF open, closed
    <3> QED BY <3>1 DEF Depth
  <2>4. Cardinality(open) \in Nat /\ Cardinality(closed) \in Nat
    <3>1. PICK n \in Nat : DOMAIN log = 1 .. n
      BY <1>4
    <3>2. IsFiniteSet(1 .. n)
      BY FS_Interval
    <3>3. open \subseteq 1 .. n /\ closed \subseteq 1 .. n
      BY <3>1
    <3> HIDE DEF open, closed
    <3> QED BY <3>2, <3>3, FS_Subset, FS_CardinalityType
  <2>5. Depth(b) > 0
    BY <1>4, <2>2
  <2>6. Cardinality(open) > Cardinality(closed)
    <3> HIDE DEF open, closed
    <3> QED BY <2>3, <2>4, <2>5
  <2>7. /\ {i \in DOMAIN log' : log'[i].buffer = Top'.id /\ Kind(i)' = "if"} = open
        /\ {i \in DOMAIN log' : log'[i].buffer = Top'.id /\ Kind(i)' = "endif"} = closed
    BY <1>1, <2>1, <2>2
  <2> HIDE DEF open, closed
  <2> QED BY <1>4, <2>1, <2>6, <2>7
<1> QED BY <1>3, <1>4 DEF GroupsStayInTheirFile

(***************************************************************************)
(* A buffer with groups that are open has lines that open them.            *)
(***************************************************************************)
LEMMA UnterminatedDepth ==
  ASSUME IInv, LInv, Running, Unterminated
  PROVE  Depth(Top.id) > 0 /\ log \in Seq(Entry)
<1>1. PICK n \in Nat \ {0} : n = Len(stack)
  BY TopFacts
<1>2. /\ stack \in Seq(Buffers) /\ Top = stack[n] /\ DOMAIN stack = 1 .. n
      /\ Len(conditionals) \in Nat /\ Top.base \in Nat /\ Top.base <= Len(conditionals)
      /\ Follows /\ log \in Seq(Entry)
  BY <1>1, TopFacts DEF Top, Last, LInv, Logged, Running
<1>3. Describes(Top, Len(conditionals), conditionals, Selection)
  <2>1. n \in DOMAIN stack /\ EndIn(stack, conditionals, n) = Len(conditionals)
    BY <1>1, <1>2 DEF EndIn
  <2> QED BY <1>2, <2>1 DEF Follows, Known
<1>4. Depth(Top.id) = Len(conditionals) - Top.base
  BY <1>3 DEF Describes
<1> QED BY <1>2, <1>4 DEF Unterminated

(***************************************************************************)
(* What a line that is written can be refused for is its bytes.            *)
(***************************************************************************)
LEMMA EmitRefuses ==
  ASSUME failure = "none", NEW bytes, NEW buffers, Emit(bytes, buffers)
  PROVE  failure' \in {"none", "bytes"}
BY DEF Emit, Refuse

(***************************************************************************)
(* Every step keeps directives to the groups of their own file.            *)
(***************************************************************************)
LEMMA GroupsStayStep == IInv /\ LInv /\ GroupsStayInTheirFile /\ [Next]_vars => GroupsStayInTheirFile'
<1> SUFFICES ASSUME IInv, LInv, GroupsStayInTheirFile, [Next]_vars PROVE GroupsStayInTheirFile'
  OBVIOUS
<1>1. CASE UNCHANGED vars
  <2>1. log' = log /\ stack' = stack /\ failure' = failure
    BY <1>1 DEF vars
  <2>2. \A i : Kind(i)' = Kind(i)
    BY <2>1 DEF Kind
  <2>3. \A i : Matched(i)' <=> Matched(i)
    BY <2>1, SameLog DEF Matched
  <2>4. Top' = Top
    BY <2>1 DEF Top
  <2> QED BY <2>1, <2>2, <2>3, <2>4 DEF GroupsStayInTheirFile
<1>2. ASSUME NEW size \in Size, StartInput(size) PROVE GroupsStayInTheirFile'
  <2>1. log' = log /\ failure = "none" /\ failure' # "syntax"
    BY <1>2 DEF StartInput, Refuse
  <2> QED BY <2>1, GroupsQuiet
<1>3. CASE Text
  <2>1. PICK line : line = [kind |-> "text"]
    OBVIOUS
  <2>2. Take(line) /\ line \in Directive /\ line.kind = "text" /\ failure = "none"
    BY <1>3, <2>1 DEF Text, Take, Reading, Running, Directive
  <2>3. failure' # "syntax"
    BY <1>3, <2>2, EmitRefuses DEF Text, Finish
  <2> QED BY <2>2, <2>3, GroupsRead
<1>4. ASSUME NEW macro \in Macro, NEW defined \in BOOLEAN, If(macro, defined)
      PROVE  GroupsStayInTheirFile'
  <2>1. PICK line : line = [kind |-> "if", macro |-> macro, defined |-> defined]
    OBVIOUS
  <2>2. Take(line) /\ line \in Directive /\ line.kind = "if" /\ failure = "none"
    BY <1>4, <2>1 DEF If, Take, Reading, Running, Directive
  <2>3. failure' # "syntax"
    BY <1>4, <2>2, EmitRefuses DEF If, Finish, Refuse
  <2> QED BY <2>2, <2>3, GroupsRead
<1>5. ASSUME NEW line \in Directive, NEW holds, NEW isElse, Branch(line, holds, isElse),
             line.kind \in {"elif", "else"}
      PROVE  GroupsStayInTheirFile'
  <2>1. Take(line) /\ failure = "none"
    BY <1>5 DEF Branch, Take, Reading, Running
  <2>2. Unmatched \/ Group.elseSeen => failure' = "syntax"
    BY <1>5 DEF Branch, Refuse
  <2>3. ~ (Unmatched \/ Group.elseSeen) => failure' # "syntax"
    BY <1>5, <2>1, EmitRefuses DEF Branch, Finish
  <2> QED BY <1>5, <2>1, <2>2, <2>3, GroupsRead
<1>6. ASSUME NEW macro \in Macro, NEW defined \in BOOLEAN, Elif(macro, defined)
      PROVE  GroupsStayInTheirFile'
  <2>1. PICK line : line = [kind |-> "elif", macro |-> macro, defined |-> defined]
    OBVIOUS
  <2>2. line \in Directive /\ line.kind \in {"elif", "else"}
    BY <2>1 DEF Directive
  <2> QED BY <1>5, <1>6, <2>1, <2>2 DEF Elif
<1>7. CASE Else
  <2>1. PICK line : line = [kind |-> "else"]
    OBVIOUS
  <2>2. line \in Directive /\ line.kind \in {"elif", "else"}
    BY <2>1 DEF Directive
  <2> QED BY <1>5, <1>7, <2>1, <2>2 DEF Else
<1>8. CASE Endif
  <2>1. PICK line : line = [kind |-> "endif"]
    OBVIOUS
  <2>2. Take(line) /\ line \in Directive /\ line.kind = "endif" /\ failure = "none"
    BY <1>8, <2>1 DEF Endif, Take, Reading, Running, Directive
  <2>3. Unmatched => failure' = "syntax"
    BY <1>8 DEF Endif, Refuse
  <2>4. ~ Unmatched => failure' # "syntax"
    BY <1>8, <2>2, EmitRefuses DEF Endif, Finish
  <2> QED BY <2>2, <2>3, <2>4, GroupsRead
<1>9. ASSUME NEW macro \in Macro, Define(macro) \/ Undef(macro) PROVE GroupsStayInTheirFile'
  <2>1. PICK kind \in {"define", "undef"} : Take([kind |-> kind, macro |-> macro]) /\ Finish(Top)
    BY <1>9 DEF Define, Undef
  <2>2. PICK line : line = [kind |-> kind, macro |-> macro]
    OBVIOUS
  <2>3. Take(line) /\ line \in Directive /\ line.kind = kind /\ failure = "none"
    BY <2>1, <2>2 DEF Take, Reading, Running, Directive
  <2>4. failure' # "syntax"
    BY <2>1, <2>3, EmitRefuses DEF Finish
  <2> QED BY <2>3, <2>4, GroupsRead
<1>10. ASSUME NEW marker \in Marker, Line(marker) PROVE GroupsStayInTheirFile'
  <2>1. PICK line : line = [kind |-> "line", name |-> marker.name, number |-> marker.number]
    OBVIOUS
  <2>2. Take(line) /\ line \in Directive /\ line.kind = "line" /\ failure = "none"
    BY <1>10, <2>1, PreprocessorAssumption DEF Line, Take, Reading, Running, Directive
  <2>3. failure' # "syntax"
    BY <1>10, <2>2, EmitRefuses DEF Line, Finish
  <2> QED BY <2>2, <2>3, GroupsRead
<1>11. ASSUME NEW request \in Request, NEW size \in Size, Include(request, size)
       PROVE  GroupsStayInTheirFile'
  <2>1. PICK line : line = [kind |-> "include"]
    OBVIOUS
  <2>2. Take(line) /\ line \in Directive /\ line.kind = "include" /\ failure = "none"
    BY <1>11, <2>1 DEF Include, Take, Reading, Running, Directive
  <2>3. failure' # "syntax"
    <3>1. PICK objection : objection = Objection(Resolve[<< Top.name, request >>], size)
      OBVIOUS
    <3>2. objection \in {"depth", "files", "not found", "input", "cycle", "none"}
      BY <3>1 DEF Objection
    <3>3. CASE ~ Top.active
      BY <1>11, <2>2, <3>3, EmitRefuses DEF Include, Finish
    <3>4. CASE Top.active /\ objection # "none"
      BY <1>11, <3>1, <3>2, <3>4 DEF Include, Refuse
    <3>5. CASE Top.active /\ objection = "none"
      BY <1>11, <2>2, <3>1, <3>5 DEF Include
    <3> QED BY <3>3, <3>4, <3>5
  <2> QED BY <2>2, <2>3, GroupsRead
<1>12. CASE Leave
  <2>1. /\ log' = log /\ failure = "none" /\ Running /\ Top.left = 0
        /\ failure' = "syntax" => Unterminated /\ UNCHANGED stack
    BY <1>12, EmitRefuses DEF Leave, AtEnd, Running, Refuse
  <2> QED BY <2>1, UnterminatedDepth, GroupsQuiet
<1>13. CASE EndInput
  <2>1. /\ log' = log /\ failure = "none" /\ Running /\ Top.left = 0
        /\ failure' = "syntax" => Unterminated /\ UNCHANGED stack
    BY <1>13 DEF EndInput, AtEnd, Running, Refuse
  <2> QED BY <2>1, UnterminatedDepth, GroupsQuiet
<1> QED BY <1>1, <1>2, <1>3, <1>4, <1>6, <1>7, <1>8, <1>9, <1>10, <1>11, <1>12, <1>13 DEF Next

(***************************************************************************)
(* A conditional directive is refused where, and only where, its own       *)
(* buffer has no group it belongs to, and the end of a buffer where it has *)
(* a group without an end: f2c_preprocessor_process_buffer never touches   *)
(* the groups of the including file, however sources include one another.  *)
(***************************************************************************)
THEOREM DirectivesStayInTheirFile == Spec => []GroupsStayInTheirFile
<1>1. Init => IInv /\ LInv /\ GroupsStayInTheirFile
  <2>1. Init => GroupsStayInTheirFile
    BY DEF Init, GroupsStayInTheirFile
  <2> QED BY <2>1, InitHolds, InitLogged
<1>2. IInv /\ LInv /\ GroupsStayInTheirFile /\ [Next]_vars => (IInv /\ LInv /\ GroupsStayInTheirFile)'
  BY StepHolds, LogStepHolds, GroupsStayStep
<1> QED BY <1>1, <1>2, PTL DEF Spec

-----------------------------------------------------------------------------
(* What a line does.                                                       *)

\* The line is refused, for another reason than the bytes it has.
Rejects == failure' \notin {"none", "bytes"}

\* The line is written, if there is room for its bytes.
Writes(line, bytes, now) ==
  /\ line.kind = "text" /\ Top.active => bytes = 2
  /\ ~ (line.kind = "text" /\ Top.active) => bytes = 1
  /\ ~ (line.kind = "include" /\ Top.active)
  /\ now \in Buffers /\ now.id = Top.id /\ now.file = Top.file
  /\ line.kind = "line" /\ Top.active => now.name = line.name /\ now.line = line.number
  /\ ~ (line.kind = "line" /\ Top.active) => now.name = Top.name /\ now.line = Top.line + 1
  /\ includeFileCount' = includeFileCount
  /\ line.kind = "text" /\ Top.active =>
       output' = Append(output, [at |-> Len(log'), name |-> Top.name, line |-> Top.line])
  /\ ~ (line.kind = "text" /\ Top.active) => output' = output
  /\ Emit(bytes, WithTop(stack, now))

\* The line includes a source.
Includes(line, new) ==
  /\ line.kind = "include" /\ Top.active
  /\ new \in Buffers /\ new.id = input + includeFileCount + 1
  /\ new.name = new.file /\ new.line = 1
  /\ stack' = Append(stack, new) /\ includeFileCount' = includeFileCount + 1
  /\ UNCHANGED << output, length, failure >>

\* A line is read, and one of these is done.
Lined(line) ==
  /\ Take(line) /\ UNCHANGED << input, preprocessedBytes >>
  /\ Rejects \/ (\E bytes, now : Writes(line, bytes, now)) \/ \E new : Includes(line, new)

(***************************************************************************)
(* A line that is no text and includes nothing, done.                      *)
(***************************************************************************)
LEMMA FinishedLine ==
  ASSUME IInv, NEW line, line.kind \notin {"text", "line"}, line.kind = "include" => ~ Top.active,
         Take(line), NEW active \in BOOLEAN, Finish([Top EXCEPT !.active = active]),
         UNCHANGED << output, includeFileCount, input, preprocessedBytes >>
  PROVE  Lined(line)
<1>1. Reading /\ Running /\ Top \in Buffers /\ Top.left > 0
  BY TopFacts DEF Take, Reading
<1>2. PICK buffer \in Buffers : buffer = Top
  BY <1>1
<1>3. PICK now : now = Advance([buffer EXCEPT !.active = active])
  OBVIOUS
<1>4. LET next == Advance([buffer EXCEPT !.active = active]) IN
        /\ next \in Buffers /\ next.id = buffer.id /\ next.base = buffer.base
        /\ next.file = buffer.file /\ next.name = buffer.name
        /\ next.line = buffer.line + 1 /\ next.active = active
  BY <1>1, <1>2, NextLine
<1>5. now \in Buffers /\ now.id = Top.id /\ now.file = Top.file /\ now.name = Top.name
      /\ now.line = Top.line + 1
  BY <1>2, <1>3, <1>4
<1>6. Emit(1, WithTop(stack, now))
  BY <1>2, <1>3 DEF Finish
<1>7. Writes(line, 1, now)
  BY <1>5, <1>6 DEF Writes
<1> QED BY <1>7 DEF Lined

(***************************************************************************)
(* Nor is its buffer renamed or its state changed.                         *)
(***************************************************************************)
LEMMA FinishedPlain ==
  ASSUME IInv, NEW line, line.kind \notin {"text", "line"} \/ ~ Top.active,
         line.kind = "include" => ~ Top.active,
         Take(line), Finish(Top),
         UNCHANGED << output, includeFileCount, input, preprocessedBytes >>
  PROVE  Lined(line)
<1>1. Reading
  BY DEF Take
<1>2. PICK now : now = Advance(Top)
  OBVIOUS
<1>3. now \in Buffers /\ now.id = Top.id /\ now.file = Top.file /\ now.name = Top.name
      /\ now.line = Top.line + 1
  BY <1>1, <1>2, AdvanceTop
<1>4. Emit(1, WithTop(stack, now))
  BY <1>2 DEF Finish
<1>5. Writes(line, 1, now)
  BY <1>3, <1>4 DEF Writes
<1> QED BY <1>5 DEF Lined

(***************************************************************************)
(* A line that is refused.                                                 *)
(***************************************************************************)
LEMMA RejectedLine ==
  ASSUME NEW line, Take(line), NEW why, why \notin {"none", "bytes"}, Refuse(why),
         UNCHANGED << input, preprocessedBytes >>
  PROVE  Lined(line)
BY DEF Lined, Rejects, Refuse

(***************************************************************************)
(* Every action that reads a line is one of these.                         *)
(***************************************************************************)
LEMMA TextLined ==
  ASSUME IInv, Text
  PROVE  \E line \in Directive : Lined(line)
<1>1. PICK line : line = [kind |-> "text"]
  OBVIOUS
<1>2. /\ Take(line) /\ Reading /\ UNCHANGED << input, preprocessedBytes, includeFileCount >>
      /\ line \in Directive /\ line.kind = "text"
  BY <1>1 DEF Text, Take, Directive, counters
<1>3. CASE ~ Top.active
  <2>1. Finish(Top) /\ UNCHANGED output
    BY <1>3 DEF Text
  <2> QED BY <1>2, <1>3, <2>1, FinishedPlain
<1>4. CASE Top.active
  <2>1. /\ Emit(2, WithTop(stack, Advance(Top)))
        /\ output' = Append(output, [at |-> Len(log'), name |-> Top.name, line |-> Top.line])
    BY <1>4 DEF Text
  <2>2. PICK now : now = Advance(Top)
    OBVIOUS
  <2>3. now \in Buffers /\ now.id = Top.id /\ now.file = Top.file /\ now.name = Top.name
        /\ now.line = Top.line + 1
    BY <1>2, <2>2, AdvanceTop
  <2>4. Emit(2, WithTop(stack, now))
    BY <2>1, <2>2
  <2>5. Writes(line, 2, now)
    BY <1>2, <1>4, <2>1, <2>3, <2>4 DEF Writes
  <2> QED BY <1>2, <2>5 DEF Lined
<1> QED BY <1>3, <1>4

(***************************************************************************)
(* So are the conditional directives.                                      *)
(***************************************************************************)
LEMMA IfLined ==
  ASSUME IInv, NEW macro \in Macro, NEW defined \in BOOLEAN, If(macro, defined)
  PROVE  \E line \in Directive : Lined(line)
<1>1. PICK line : line = [kind |-> "if", macro |-> macro, defined |-> defined]
  OBVIOUS
<1>2. /\ Take(line) /\ Running /\ UNCHANGED << input, preprocessedBytes, includeFileCount, output >>
      /\ line \in Directive /\ line.kind = "if"
  BY <1>1 DEF If, Take, Reading, Directive, counters
<1>3. CASE Len(conditionals) >= MaxNesting
  <2>1. Refuse("nesting")
    BY <1>3 DEF If
  <2> QED BY <1>2, <2>1, RejectedLine
<1>4. CASE ~ (Len(conditionals) >= MaxNesting)
  <2>1. PICK holds \in BOOLEAN : holds = ((macro \in macros) = defined)
    OBVIOUS
  <2>2. Top.active \in BOOLEAN
    BY <1>2, TopFacts
  <2>3. PICK condition \in BOOLEAN : Finish([Top EXCEPT !.active = Entered(condition)])
    BY <1>4, <2>1, <2>2 DEF If
  <2>4. Entered(condition) \in BOOLEAN
    BY <2>2 DEF Entered
  <2> QED BY <1>2, <2>3, <2>4, FinishedLine
<1> QED BY <1>3, <1>4

(***************************************************************************)
(* #elif and #else, too.                                                   *)
(***************************************************************************)
LEMMA BranchLined ==
  ASSUME IInv, NEW line \in Directive, NEW holds \in BOOLEAN, NEW isElse \in BOOLEAN,
         line.kind \in {"elif", "else"}, Branch(line, holds, isElse)
  PROVE  Lined(line)
<1>1. Take(line) /\ Running /\ UNCHANGED << input, preprocessedBytes, includeFileCount, output >>
  BY DEF Branch, Take, Reading, counters
<1>2. CASE Unmatched \/ Group.elseSeen
  <2>1. Refuse("syntax")
    BY <1>2 DEF Branch
  <2> QED BY <1>1, <2>1, RejectedLine
<1>3. CASE ~ (Unmatched \/ Group.elseSeen)
  <2>1. PICK old \in Groups : old = Group
    BY <1>1, <1>3, OwnGroup
  <2>2. old.parentActive \in BOOLEAN /\ old.branchTaken \in BOOLEAN
    BY DEF Groups
  <2>3. PICK active \in BOOLEAN : active = (old.parentActive /\ ~ old.branchTaken /\ holds)
    BY <2>2
  <2>4. Finish([Top EXCEPT !.active = active])
    BY <1>3, <2>1, <2>3 DEF Branch
  <2> QED BY <1>1, <2>4, FinishedLine
<1> QED BY <1>2, <1>3

(***************************************************************************)
(* And #endif.                                                             *)
(***************************************************************************)
LEMMA EndifLined ==
  ASSUME IInv, Endif
  PROVE  \E line \in Directive : Lined(line)
<1>1. PICK line : line = [kind |-> "endif"]
  OBVIOUS
<1>2. /\ Take(line) /\ Running /\ UNCHANGED << input, preprocessedBytes, includeFileCount, output >>
      /\ line \in Directive /\ line.kind = "endif"
  BY <1>1 DEF Endif, Take, Reading, Directive, counters
<1>3. CASE Unmatched
  <2>1. Refuse("syntax")
    BY <1>3 DEF Endif
  <2> QED BY <1>2, <2>1, RejectedLine
<1>4. CASE ~ Unmatched
  <2>1. PICK old \in Groups : old = Group
    BY <1>2, <1>4, OwnGroup
  <2>2. PICK active \in BOOLEAN : active = old.parentActive
    BY DEF Groups
  <2>3. Finish([Top EXCEPT !.active = active])
    BY <1>4, <2>1, <2>2 DEF Endif
  <2> QED BY <1>2, <2>3, FinishedLine
<1> QED BY <1>3, <1>4

(***************************************************************************)
(* Directives about macros write only themselves.                          *)
(***************************************************************************)
LEMMA MacroLined ==
  ASSUME IInv, NEW macro \in Macro, Define(macro) \/ Undef(macro)
  PROVE  \E line \in Directive : Lined(line)
<1>1. PICK kind \in {"define", "undef"} :
        /\ Take([kind |-> kind, macro |-> macro]) /\ Finish(Top)
        /\ UNCHANGED << input, preprocessedBytes, includeFileCount, output >>
  BY DEF Define, Undef, counters
<1>2. PICK line : line = [kind |-> kind, macro |-> macro]
  OBVIOUS
<1>3. line \in Directive /\ line.kind = kind
  BY <1>2 DEF Directive
<1>4. Take(line)
  BY <1>1, <1>2
<1> QED BY <1>1, <1>3, <1>4, FinishedPlain

(***************************************************************************)
(* #line renames what follows.                                             *)
(***************************************************************************)
LEMMA LineLined ==
  ASSUME IInv, NEW marker \in Marker, Line(marker)
  PROVE  \E line \in Directive : Lined(line)
<1>0. marker.name \in Name /\ marker.number \in Nat
  BY PreprocessorAssumption
<1>1. PICK line : line = [kind |-> "line", name |-> marker.name, number |-> marker.number]
  OBVIOUS
<1>2. /\ Take(line) /\ Reading /\ UNCHANGED << input, preprocessedBytes, includeFileCount, output >>
      /\ line \in Directive /\ line.kind = "line" /\ line.name = marker.name
      /\ line.number = marker.number
  BY <1>0, <1>1 DEF Line, Take, Directive, counters
<1>3. CASE ~ Top.active
  <2>1. Finish(Top)
    BY <1>3 DEF Line
  <2> QED BY <1>2, <1>3, <2>1, FinishedPlain
<1>4. CASE Top.active
  <2>1. PICK next \in Buffers : next = Advance(Top)
    BY <1>2, AdvanceTop
  <2>2. PICK now : now = [next EXCEPT !.name = marker.name, !.line = marker.number]
    OBVIOUS
  <2>3. now \in Buffers /\ now.id = next.id /\ now.file = next.file /\ now.name = marker.name
        /\ now.line = marker.number
    BY <1>0, <2>2 DEF Buffers
  <2>4. now.id = Top.id /\ now.file = Top.file
    BY <1>2, <2>1, <2>3, AdvanceTop
  <2>5. Emit(1, WithTop(stack, now))
    BY <1>4, <2>1, <2>2 DEF Line
  <2>6. Writes(line, 1, now)
    BY <1>2, <1>4, <2>3, <2>4, <2>5 DEF Writes
  <2> QED BY <1>2, <2>6 DEF Lined
<1> QED BY <1>3, <1>4

(***************************************************************************)
(* An include line is skipped, refused, or includes a source.              *)
(***************************************************************************)
LEMMA IncludeLined ==
  ASSUME IInv, NEW request \in Request, NEW size \in Size, Include(request, size)
  PROVE  \E line \in Directive : Lined(line)
<1>1. PICK line : line = [kind |-> "include"]
  OBVIOUS
<1>2. /\ Take(line) /\ Running /\ UNCHANGED << input, preprocessedBytes, output >>
      /\ line \in Directive /\ line.kind = "include"
  BY <1>1 DEF Include, Take, Reading, Directive, counters
<1>3. PICK file : file = Resolve[<< Top.name, request >>]
  OBVIOUS
<1>4. PICK objection : objection = Objection(file, size)
  OBVIOUS
<1>5. CASE ~ Top.active
  <2>1. Finish(Top) /\ UNCHANGED includeFileCount
    BY <1>5 DEF Include, counters
  <2> QED BY <1>2, <1>5, <2>1, FinishedPlain
<1>6. CASE Top.active /\ objection # "none"
  <2>1. Refuse(objection)
    BY <1>3, <1>4, <1>6 DEF Include
  <2>2. objection # "bytes"
    BY <1>4 DEF Objection
  <2> QED BY <1>2, <1>6, <2>1, <2>2, RejectedLine
<1>7. CASE Top.active /\ objection = "none"
  <2>1. /\ includeFileCount' = includeFileCount + 1
        /\ stack' = Append(stack, Buffer(input + includeFileCount', file, size))
        /\ UNCHANGED << length, failure >>
    BY <1>3, <1>4, <1>7 DEF Include
  <2>2. PICK new : new = Buffer(input + includeFileCount', file, size)
    OBVIOUS
  <2>3. file \in Name
    <3>1. file # NotFound
      BY <1>4, <1>7 DEF Objection
    <3>2. Top.name \in Name
      BY <1>2, TopFacts DEF Buffers
    <3> QED BY <1>3, <3>1, <3>2, PreprocessorAssumption
  <2>4. size \in Nat /\ Len(conditionals) \in Nat
    BY <1>2, TopFacts, PreprocessorAssumption DEF Size
  <2>5. new \in Buffers /\ new.id = input + includeFileCount + 1 /\ new.name = new.file /\ new.line = 1
    BY <2>1, <2>2, <2>3, <2>4 DEF Buffer, Buffers, IInv, Types
  <2>6. Includes(line, new)
    BY <1>2, <1>7, <2>1, <2>2, <2>5 DEF Includes
  <2> QED BY <1>2, <2>6 DEF Lined
<1> QED BY <1>5, <1>6, <1>7

(***************************************************************************)
(* Every step reads a line, leaves a source, starts or ends an input, or   *)
(* changes nothing.                                                        *)
(***************************************************************************)
LEMMA StepForms ==
  ASSUME IInv, [Next]_vars
  PROVE  \/ UNCHANGED vars \/ Leave \/ EndInput
         \/ \E size \in Size : StartInput(size)
         \/ \E line \in Directive : Lined(line)
<1>1. ASSUME NEW macro \in Macro, NEW defined \in BOOLEAN, Elif(macro, defined)
      PROVE  \E line \in Directive : Lined(line)
  <2>1. PICK line : line = [kind |-> "elif", macro |-> macro, defined |-> defined]
    OBVIOUS
  <2>2. line \in Directive /\ line.kind \in {"elif", "else"}
    BY <2>1 DEF Directive
  <2>3. PICK holds \in BOOLEAN : holds = ((macro \in macros) = defined)
    OBVIOUS
  <2>4. Branch(line, holds, FALSE)
    BY <1>1, <2>1, <2>3 DEF Elif
  <2> QED BY <2>2, <2>4, BranchLined
<1>2. ASSUME Else PROVE \E line \in Directive : Lined(line)
  <2>1. PICK line : line = [kind |-> "else"]
    OBVIOUS
  <2>2. line \in Directive /\ line.kind \in {"elif", "else"}
    BY <2>1 DEF Directive
  <2>3. Branch(line, TRUE, TRUE)
    BY <1>2, <2>1 DEF Else
  <2> QED BY <2>2, <2>3, BranchLined
<1> QED BY <1>1, <1>2, TextLined, IfLined, EndifLined, MacroLined, LineLined, IncludeLined DEF Next

-----------------------------------------------------------------------------
(* The selected lines of a kind.                                           *)

OfKind(kind, S) == {i \in DOMAIN log : Kind(i) = kind /\ S[i]}

(***************************************************************************)
(* Lines of a log are finitely many.                                       *)
(***************************************************************************)
LEMMA OfKindFinite ==
  ASSUME log \in Seq(Entry), NEW l \in Nat, l = Len(log), NEW kind, NEW S
  PROVE  /\ OfKind(kind, S) \subseteq 1 .. l /\ IsFiniteSet(OfKind(kind, S))
         /\ Cardinality(OfKind(kind, S)) \in Nat
<1>1. OfKind(kind, S) \subseteq 1 .. l
  BY DEF OfKind
<1>2. IsFiniteSet(1 .. l)
  BY FS_Interval
<1> QED BY <1>1, <1>2, FS_Subset, FS_CardinalityType

(***************************************************************************)
(* A line that is read is one of them if its buffer is active.             *)
(***************************************************************************)
LEMMA OfKindGrows ==
  ASSUME NEW e, NEW l, NEW S, NEW T, Reads(e, l, S, T), NEW kind
  PROVE  /\ e.line.kind = kind /\ Top.active =>
              /\ OfKind(kind, T)' = OfKind(kind, S) \union {l + 1}
              /\ Cardinality(OfKind(kind, T)') = Cardinality(OfKind(kind, S)) + 1
         /\ ~ (e.line.kind = kind /\ Top.active) =>
              /\ OfKind(kind, T)' = OfKind(kind, S)
              /\ Cardinality(OfKind(kind, T)') = Cardinality(OfKind(kind, S))
<1>1. /\ log \in Seq(Entry) /\ e \in Entry /\ log' = Append(log, e) /\ l \in Nat /\ l = Len(log)
      /\ \A i \in 1 .. l : T[i] <=> S[i]
      /\ Top.active <=> T[l + 1]
  BY DEF Reads
<1>2. /\ DOMAIN log = 1 .. l /\ DOMAIN log' = 1 .. l + 1
      /\ Kind(l + 1)' = e.line.kind /\ \A i \in 1 .. l : Kind(i)' = Kind(i)
  BY <1>1, LogGrows, NewLine, OldLines
<1>3. PICK N : N = l + 1
  OBVIOUS
<1>4. 1 .. l + 1 = 1 .. l \union {N} /\ N \notin 1 .. l
  BY <1>1, <1>3
<1>5. OfKind(kind, T)' = {i \in 1 .. l \union {N} : Kind(i)' = kind /\ T[i]}
  BY <1>2, <1>4 DEF OfKind
<1>6. Kind(N)' = e.line.kind /\ (Top.active <=> T[N])
  BY <1>1, <1>2, <1>3
<1>7. OfKind(kind, S) = {i \in 1 .. l : Kind(i)' = kind /\ T[i]}
  BY <1>1, <1>2 DEF OfKind
<1>8. IsFiniteSet(OfKind(kind, S)) /\ N \notin OfKind(kind, S)
  BY <1>1, <1>4, OfKindFinite
<1>9. CASE e.line.kind = kind /\ Top.active
  <2>1. OfKind(kind, T)' = OfKind(kind, S) \union {N}
    BY <1>5, <1>6, <1>7, <1>9
  <2>2. Cardinality(OfKind(kind, S) \union {N}) = Cardinality(OfKind(kind, S)) + 1
    BY <1>8, FS_AddElement
  <2> QED BY <1>3, <1>9, <2>1, <2>2
<1>10. CASE ~ (e.line.kind = kind /\ Top.active)
  BY <1>5, <1>6, <1>7, <1>10
<1> QED BY <1>9, <1>10

(***************************************************************************)
(* Where nothing is read, the same lines are selected.                     *)
(***************************************************************************)
LEMMA SelectionQuiet ==
  ASSUME log \in Seq(Entry), log' = log
  PROVE  /\ Selection' = Selection
         /\ \A kind, S : OfKind(kind, S)' = OfKind(kind, S)
<1>1. PICK S : S = Selection
  OBVIOUS
<1>2. PICK T : T = Selection'
  OBVIOUS
<1>3. Selects(S)
  BY <1>1, SelectionFacts DEF Selects
<1>4. Selects(T)'
  <2>1. log' \in Seq(Entry)
    OBVIOUS
  <2>2. Selects(Selection)'
    BY <2>1, SelectionFactsNext DEF SelectionKnown
  <2> QED BY <1>2, <2>2 DEF Selects
<1>5. T = S
  BY <1>3, <1>4, SameSelection
<1>6. \A i : Kind(i)' = Kind(i)
  BY DEF Kind
<1> QED BY <1>1, <1>2, <1>5, <1>6 DEF OfKind

-----------------------------------------------------------------------------
(* The budget.                                                             *)

\* What is written is what was spent, and within the budget.
Budgeted ==
  /\ failure = "none" =>
       /\ \A S \in {Selection} : Written(S) = preprocessedBytes + length
       /\ preprocessedBytes + length <= MaxBytes
  /\ BudgetIsCumulative

(***************************************************************************)
(* What is written counts the lines and the selected texts.                *)
(***************************************************************************)
LEMMA WrittenForm ==
  ASSUME NEW S
  PROVE  Written(S) = Len(log) + Cardinality(OfKind("text", S)) - (IF stack = << >> THEN 0 ELSE Len(stack) - 1)
BY DEF Written, OfKind

\* The form of the next state.
WrittenKnown ==
  \A S : Written(S) = Len(log) + Cardinality(OfKind("text", S)) - (IF stack = << >> THEN 0 ELSE Len(stack) - 1)

(***************************************************************************)
(* It does in the next state, too.                                         *)
(***************************************************************************)
LEMMA WrittenNext == WrittenKnown'
<1>1. WrittenKnown
  BY WrittenForm DEF WrittenKnown
<1> QED BY <1>1, PTL

(***************************************************************************)
(* Each line is paid for.                                                  *)
(***************************************************************************)
LEMMA LinedBudget ==
  ASSUME IInv, LInv, Budgeted, NEW line \in Directive, Lined(line)
  PROVE  Budgeted'
<1>1. /\ Take(line) /\ UNCHANGED << input, preprocessedBytes >> /\ Running /\ failure = "none"
      /\ Top.left > 0
  BY DEF Lined, Take, Reading, Running
<1>2. PICK e, l, S, T : Reads(e, l, S, T) /\ e.line = line
  BY <1>1, LineRead
<1>3. /\ log \in Seq(Entry) /\ e \in Entry /\ log' = Append(log, e) /\ l \in Nat /\ l = Len(log)
      /\ S = Selection /\ T = Selection'
  BY <1>2 DEF Reads
<1>4. Len(log') = l + 1
  BY <1>3, LogGrows
<1>5. PICK n \in Nat \ {0} : n = Len(stack)
  BY <1>1, TopFacts
<1>6. PICK c \in Nat : c = Cardinality(OfKind("text", S))
  BY <1>3, OfKindFinite
<1>7. PICK d : d = Cardinality(OfKind("text", T)')
  OBVIOUS
<1>8. /\ line.kind = "text" /\ Top.active => d = c + 1
      /\ ~ (line.kind = "text" /\ Top.active) => d = c
  BY <1>2, <1>6, <1>7, OfKindGrows
<1>9. /\ Written(S) = l + c - (n - 1)
      /\ Written(S) = preprocessedBytes + length
      /\ preprocessedBytes + length <= MaxBytes
  <2>1. stack # << >>
    BY <1>1 DEF Running
  <2>2. Written(S) = l + c - (n - 1)
    BY <1>3, <1>5, <1>6, <2>1, WrittenForm
  <2> QED BY <1>1, <1>3, <2>2 DEF Budgeted
<1>10. PICK w : w = Written(T)'
  OBVIOUS
<1>11. w = (l + 1) + d - (IF stack' = << >> THEN 0 ELSE Len(stack') - 1)
  BY <1>4, <1>7, <1>10, WrittenNext DEF WrittenKnown
<1>12. /\ length \in Nat /\ preprocessedBytes \in Nat /\ MaxBytes \in Nat /\ stack \in Seq(Buffers)
       /\ stack # << >>
  BY <1>1, PreprocessorAssumption DEF IInv, Types, Running
<1>13. SUFFICES /\ failure' = "none" => w = preprocessedBytes' + length' /\ w <= MaxBytes
                /\ failure' = "bytes" => w + (IF Top'.left = 0 THEN 1 ELSE 0) > MaxBytes
  <2>1. \A sel \in {Selection'} : Written(sel)' = w
    BY <1>3, <1>10
  <2>2. Written(Selection)' = w
    BY <1>3, <1>10
  <2> QED BY <2>1, <2>2 DEF Budgeted, BudgetIsCumulative
<1>14. CASE Rejects
  BY <1>14 DEF Rejects
<1>15. ASSUME NEW new, Includes(line, new)
       PROVE  failure' = "none" /\ w = preprocessedBytes' + length' /\ w <= MaxBytes
  <2>1. /\ stack' = Append(stack, new) /\ new \in Buffers /\ length' = length /\ failure' = failure
        /\ line.kind = "include"
    BY <1>15 DEF Includes
  <2>2. stack' # << >> /\ Len(stack') = n + 1
    BY <1>5, <1>12, <2>1
  <2>3. d = c
    BY <1>8, <2>1
  <2>4. (IF stack' = << >> THEN 0 ELSE Len(stack') - 1) = n
    BY <2>2
  <2>5. w = (l + 1) + c - n
    BY <1>11, <2>3, <2>4
  <2>6. w = preprocessedBytes + length
    <3>1. l \in Nat /\ preprocessedBytes + length = l + c - (n - 1)
      BY <1>3, <1>9
    <3>2. (l + 1) + c - n = l + c - (n - 1)
      BY <3>1
    <3> QED BY <2>5, <3>1, <3>2
  <2> QED BY <1>1, <1>9, <2>1, <2>6
<1>16. ASSUME NEW bytes, NEW now, Writes(line, bytes, now)
       PROVE  /\ failure' = "none" => w = preprocessedBytes' + length' /\ w <= MaxBytes
              /\ failure' = "bytes" => w + (IF Top'.left = 0 THEN 1 ELSE 0) > MaxBytes
  <2>1. /\ line.kind = "text" /\ Top.active => bytes = 2
        /\ ~ (line.kind = "text" /\ Top.active) => bytes = 1
        /\ now \in Buffers /\ Emit(bytes, WithTop(stack, now))
    BY <1>16 DEF Writes
  <2>2. bytes \in Nat /\ d = c + (bytes - 1)
    BY <1>8, <2>1
  <2>3. CASE preprocessedBytes + length + bytes > MaxBytes
    <3>1. failure' = "bytes" /\ stack' = stack
      BY <2>1, <2>3 DEF Emit, Refuse
    <3>2. w = (l + 1) + d - (n - 1)
      BY <1>5, <1>11, <1>12, <3>1
    <3>3. w = preprocessedBytes + length + bytes
      BY <1>3, <1>9, <1>12, <2>2, <3>2, SMTT(60)
    <3>4. w > MaxBytes /\ w \in Nat
      BY <1>12, <2>2, <2>3, <3>3
    <3>5. w + 1 > MaxBytes /\ w + 0 > MaxBytes
      BY <1>12, <3>4
    <3> QED BY <3>1, <3>5
  <2>4. CASE ~ (preprocessedBytes + length + bytes > MaxBytes)
    <3>1. failure' = "none" /\ stack' = WithTop(stack, now) /\ length' = length + bytes
      BY <1>1, <2>1, <2>4 DEF Emit
    <3>2. stack' # << >> /\ Len(stack') = n
      <4>1. WithTop(stack, now) # << >> /\ Len(WithTop(stack, now)) = Len(stack)
        BY <1>12, <2>1, WithTopFacts, SMTT(60)
      <4> QED BY <1>5, <3>1, <4>1
    <3>3. w = (l + 1) + d - (n - 1)
      BY <1>11, <3>2
    <3>4. w = preprocessedBytes + length + bytes
      BY <1>3, <1>9, <1>12, <2>2, <3>3, SMTT(60)
    <3> QED BY <1>1, <1>12, <2>2, <2>4, <3>1, <3>4
  <2> QED BY <2>3, <2>4
<1> QED BY <1>14, <1>15, <1>16 DEF Lined

(***************************************************************************)
(* So is what is done where nothing is read.                               *)
(***************************************************************************)
LEMMA QuietBudget ==
  ASSUME IInv, LInv, Budgeted,
         Leave \/ EndInput \/ (\E size \in Size : StartInput(size)) \/ UNCHANGED vars
  PROVE  Budgeted'
<1>1. log' = log /\ log \in Seq(Entry)
  BY DEF Leave, EndInput, StartInput, vars, LInv, Logged
<1>2. PICK S : S = Selection
  OBVIOUS
<1>3. Selection' = S /\ OfKind("text", S)' = OfKind("text", S)
  BY <1>1, <1>2, SelectionQuiet
<1>4. PICK l \in Nat : l = Len(log)
  BY <1>1
<1>5. PICK c \in Nat : c = Cardinality(OfKind("text", S))
  BY <1>1, <1>4, OfKindFinite
<1>6. PICK w : w = Written(S)'
  OBVIOUS
<1>7. w = l + c - (IF stack' = << >> THEN 0 ELSE Len(stack') - 1)
  BY <1>1, <1>3, <1>4, <1>5, <1>6, WrittenNext DEF WrittenKnown
<1>8. Written(S) = l + c - (IF stack = << >> THEN 0 ELSE Len(stack) - 1)
  BY <1>4, <1>5, WrittenForm
<1>9. /\ length \in Nat /\ preprocessedBytes \in Nat /\ MaxBytes \in Nat /\ stack \in Seq(Buffers)
      /\ Len(stack) \in Nat
  BY PreprocessorAssumption DEF IInv, Types
<1>10. failure = "none" => Written(S) = preprocessedBytes + length /\ preprocessedBytes + length <= MaxBytes
  BY <1>2 DEF Budgeted
<1>11. SUFFICES /\ failure' = "none" => w = preprocessedBytes' + length' /\ w <= MaxBytes
                /\ failure' = "bytes" => w + (IF Top'.left = 0 THEN 1 ELSE 0) > MaxBytes
  <2>1. \A sel \in {Selection'} : Written(sel)' = w
    BY <1>3, <1>6
  <2>2. Written(Selection)' = w
    BY <1>3, <1>6
  <2> QED BY <2>1, <2>2 DEF Budgeted, BudgetIsCumulative
<1>12. CASE UNCHANGED vars
  <2>1. UNCHANGED << stack, length, preprocessedBytes, failure >>
    BY <1>12 DEF vars, counters
  <2>2. w = Written(S)
    BY <1>7, <1>8, <2>1
  <2>3. Top' = Top
    BY <2>1 DEF Top
  <2>4. failure = "bytes" => Written(S) + (IF Top.left = 0 THEN 1 ELSE 0) > MaxBytes
    BY <1>2 DEF Budgeted, BudgetIsCumulative
  <2> QED BY <1>10, <2>1, <2>2, <2>3, <2>4
<1>13. ASSUME NEW size \in Size, StartInput(size)
       PROVE  /\ failure' = "none" => w = preprocessedBytes' + length' /\ w <= MaxBytes
              /\ failure' # "bytes"
  <2>1. failure = "none" /\ stack = << >> /\ UNCHANGED << length, preprocessedBytes >>
    BY <1>13 DEF StartInput, Refuse
  <2>2. failure' # "bytes" /\ (stack' = << >> \/ Len(stack') = 1)
    BY <1>13, <2>1 DEF StartInput, Refuse
  <2>3. (IF stack' = << >> THEN 0 ELSE Len(stack') - 1) = 0 /\ (IF stack = << >> THEN 0 ELSE Len(stack) - 1) = 0
    BY <2>1, <2>2
  <2>4. w = Written(S)
    BY <1>7, <1>8, <2>3
  <2> QED BY <1>10, <2>1, <2>2, <2>4
<1>14. CASE EndInput
  <2>1. failure = "none" /\ Len(stack) = 1 /\ stack # << >>
    BY <1>14 DEF EndInput, AtEnd, Running
  <2>2. CASE Unterminated
    BY <1>14, <2>2 DEF EndInput, Refuse
  <2>3. CASE ~ Unterminated
    <3>1. /\ preprocessedBytes' = preprocessedBytes + length /\ stack' = << >> /\ length' = 0
          /\ failure' = failure
      BY <1>14, <2>3 DEF EndInput, Spent
    <3>2. w = Written(S)
      BY <1>7, <1>8, <2>1, <3>1
    <3> QED BY <1>9, <1>10, <2>1, <3>1, <3>2
  <2> QED BY <2>2, <2>3
<1>15. CASE Leave
  <2>1. /\ failure = "none" /\ Len(stack) > 1 /\ stack # << >> /\ Top.left = 0
        /\ UNCHANGED preprocessedBytes
    BY <1>15 DEF Leave, AtEnd, Running, counters
  <2>2. CASE Unterminated
    BY <1>15, <2>2 DEF Leave, Refuse
  <2>3. CASE ~ Unterminated
    <3>1. PICK outer : outer = Front(stack)
      OBVIOUS
    <3>2. PICK now : now = Resumed(Last(outer))
      OBVIOUS
    <3>3. Emit(1, WithTop(outer, now))
      BY <1>15, <2>3, <3>1, <3>2 DEF Leave
    <3>4. CASE preprocessedBytes + length + 1 > MaxBytes
      <4>1. failure' = "bytes" /\ stack' = stack
        BY <3>3, <3>4 DEF Emit, Refuse
      <4>2. Top' = Top /\ w = Written(S)
        BY <1>7, <1>8, <4>1 DEF Top
      <4> QED BY <1>10, <2>1, <3>4, <4>1, <4>2
    <3>5. CASE ~ (preprocessedBytes + length + 1 > MaxBytes)
      <4>1. failure' = "none" /\ stack' = WithTop(outer, now) /\ length' = length + 1
        BY <2>1, <3>3, <3>5 DEF Emit
      <4>2. stack' # << >> /\ Len(stack') = Len(stack) - 1
        <5>1. outer \in Seq(Buffers) /\ Len(outer) = Len(stack) - 1
          BY <1>9, <2>1, <3>1, FrontFacts
        <5>2. outer # << >>
          BY <1>9, <2>1, <5>1
        <5>3. Front(outer) \in Seq(Buffers) /\ Len(Front(outer)) = Len(outer) - 1
          BY <5>1, <5>2, FrontFacts
        <5>4. Len(Append(Front(outer), now)) = Len(Front(outer)) + 1
          BY <5>3
        <5> QED BY <1>9, <2>1, <4>1, <5>1, <5>3, <5>4 DEF WithTop
      <4>3. w = Written(S) + 1
        BY <1>7, <1>8, <1>9, <2>1, <4>2
      <4> QED BY <1>9, <1>10, <2>1, <3>5, <4>1, <4>3
    <3> QED BY <3>4, <3>5
  <2> QED BY <2>2, <2>3
<1> QED BY <1>12, <1>13, <1>14, <1>15

-----------------------------------------------------------------------------
(* The output.                                                             *)

\* What is written for a text, and the output of texts in their order.
Piece == [at : Nat, name : Name, line : Nat]
Lists(out, texts) ==
  /\ out \in Seq(Piece)
  /\ {out[n].at : n \in DOMAIN out} = texts
  /\ \A m, n \in DOMAIN out : m < n => out[m].at < out[n].at

\* The output has the selected texts, and the sources included are counted.
OutputKnown ==
  failure = "none" =>
    /\ output \in Seq(Piece)
    /\ stack = << >> => output = << >>
    /\ \A S \in {Selection} :
         /\ stack # << >> => Lists(output, Texts(S))
         /\ includeFileCount = Cardinality(OfKind("include", S))

(***************************************************************************)
(* A selected text of the input is one more.                               *)
(***************************************************************************)
LEMMA TextsGrow ==
  ASSUME NEW e, NEW l, NEW S, NEW T, Reads(e, l, S, T), input' = input
  PROVE  /\ e.line.kind = "text" /\ Top.active => Texts(T)' = Texts(S) \union {l + 1}
         /\ ~ (e.line.kind = "text" /\ Top.active) => Texts(T)' = Texts(S)
         /\ Texts(S) \subseteq 1 .. l
<1>1. /\ log \in Seq(Entry) /\ e \in Entry /\ log' = Append(log, e) /\ l \in Nat /\ l = Len(log)
      /\ e.input = input
  BY DEF Reads
<1>2. /\ DOMAIN log = 1 .. l /\ \A i \in 1 .. l : log'[i] = log[i]
      /\ log'[l + 1] = e
  BY <1>1, LogGrows
<1>3. PICK kind : kind = "text"
  OBVIOUS
<1>4. /\ e.line.kind = kind /\ Top.active => OfKind(kind, T)' = OfKind(kind, S) \union {l + 1}
      /\ ~ (e.line.kind = kind /\ Top.active) => OfKind(kind, T)' = OfKind(kind, S)
  BY OfKindGrows
<1>5. Texts(S) = {i \in OfKind(kind, S) : log[i].input = input}
  BY <1>3 DEF Texts, OfKind
<1>6. Texts(T)' = {i \in OfKind(kind, T)' : log'[i].input = input}
  BY <1>3 DEF Texts, OfKind
<1>7. OfKind(kind, S) \subseteq 1 .. l
  BY <1>1, OfKindFinite
<1>8. \A i \in OfKind(kind, S) : log'[i] = log[i]
  BY <1>2, <1>7
<1>9. log'[l + 1].input = input
  BY <1>1, <1>2
<1>10. CASE e.line.kind = kind /\ Top.active
  BY <1>3, <1>4, <1>5, <1>6, <1>7, <1>8, <1>9, <1>10
<1>11. CASE ~ (e.line.kind = kind /\ Top.active)
  BY <1>3, <1>4, <1>5, <1>6, <1>7, <1>8, <1>11
<1> QED BY <1>10, <1>11

(***************************************************************************)
(* Text that is written is the last of the output.                         *)
(***************************************************************************)
LEMMA OutputAppended ==
  ASSUME NEW out, NEW text \in Piece, NEW l \in Nat, NEW texts,
         text.at = l + 1, Lists(out, texts), texts \subseteq 1 .. l
  PROVE  Lists(Append(out, text), texts \union {l + 1})
<1>0. PICK after : after = Append(out, text)
  OBVIOUS
<1>00. /\ out \in Seq(Piece) /\ {out[n].at : n \in DOMAIN out} = texts
       /\ \A m, n \in DOMAIN out : m < n => out[m].at < out[n].at
       /\ \A t \in Piece : t.at \in Nat
  BY DEF Lists, Piece
<1>1. PICK k \in Nat : k = Len(out)
  BY <1>00
<1>2. /\ after \in Seq(Piece) /\ DOMAIN after = 1 .. k + 1 /\ DOMAIN out = 1 .. k
      /\ \A i \in 1 .. k : after[i] = out[i] /\ out[i] \in Piece
      /\ after[k + 1] = text
  BY <1>0, <1>00, <1>1
<1>3. \A i \in 1 .. k : out[i].at \in texts /\ out[i].at < l + 1
  <2>1. \A i \in 1 .. k : out[i].at \in texts
    BY <1>00, <1>2
  <2>2. \A t \in texts : t < l + 1
    OBVIOUS
  <2> QED BY <2>1, <2>2
<1>4. 1 .. k + 1 = 1 .. k \union {k + 1}
  BY <1>1
<1>5. {after[n].at : n \in DOMAIN after} = texts \union {l + 1}
  BY <1>00, <1>2, <1>4
<1>6. ASSUME NEW m \in 1 .. k + 1, NEW n \in 1 .. k + 1, m < n PROVE after[m].at < after[n].at
  <2>1. m \in 1 .. k
    BY <1>1, <1>6
  <2>2. CASE n = k + 1
    BY <1>2, <1>3, <2>1, <2>2
  <2>3. CASE n # k + 1
    <3>1. n \in 1 .. k
      BY <1>1, <2>3
    <3> QED BY <1>00, <1>2, <1>6, <2>1, <3>1
  <2> QED BY <2>2, <2>3
<1> QED BY <1>0, <1>2, <1>5, <1>6 DEF Lists

(***************************************************************************)
(* A line that is read is written if it is a selected text, and counted if *)
(* it includes a source.                                                   *)
(***************************************************************************)
LEMMA LinedOutput ==
  ASSUME IInv, LInv, OutputKnown, NEW line \in Directive, Lined(line)
  PROVE  OutputKnown'
<1>1. /\ Take(line) /\ UNCHANGED << input, preprocessedBytes >> /\ Running /\ failure = "none"
      /\ stack # << >>
  BY DEF Lined, Take, Reading, Running
<1>2. PICK e, l, S, T : Reads(e, l, S, T) /\ e.line = line
  BY <1>1, LineRead
<1>3. /\ log \in Seq(Entry) /\ e \in Entry /\ log' = Append(log, e) /\ l \in Nat /\ l = Len(log)
      /\ S = Selection /\ T = Selection'
  BY <1>2 DEF Reads
<1>4. Len(log') = l + 1
  BY <1>3, LogGrows
<1>6. /\ Lists(output, Texts(S)) /\ output \in Seq(Piece)
      /\ includeFileCount = Cardinality(OfKind("include", S))
  BY <1>1, <1>3 DEF OutputKnown
<1>7. /\ line.kind = "text" /\ Top.active => Texts(T)' = Texts(S) \union {l + 1}
      /\ ~ (line.kind = "text" /\ Top.active) => Texts(T)' = Texts(S)
      /\ Texts(S) \subseteq 1 .. l
  BY <1>1, <1>2, TextsGrow
<1>8. PICK include : include = "include"
  OBVIOUS
<1>9. /\ line.kind = include /\ Top.active =>
           Cardinality(OfKind(include, T)') = Cardinality(OfKind(include, S)) + 1
      /\ ~ (line.kind = include /\ Top.active) =>
           Cardinality(OfKind(include, T)') = Cardinality(OfKind(include, S))
  BY <1>2, OfKindGrows
<1>10. /\ Top \in Buffers /\ Top.name \in Name /\ Top.line \in Nat /\ stack \in Seq(Buffers)
  BY <1>1, TopFacts DEF Buffers
<1>11. SUFFICES ASSUME failure' = "none"
                PROVE  /\ output' \in Seq(Piece) /\ stack' # << >>
                       /\ Lists(output, Texts(T))'
                       /\ includeFileCount' = Cardinality(OfKind(include, T)')
  <2>1. PICK count : count = Cardinality(OfKind(include, T)')
    OBVIOUS
  <2>2. Cardinality(OfKind("include", T)') = count
    BY <1>8, <2>1
  <2> QED BY <1>3, <1>8 DEF OutputKnown
<1>12. ASSUME NEW new, Includes(line, new)
       PROVE  stack' # << >> /\ UNCHANGED output /\ includeFileCount' = includeFileCount + 1
              /\ line.kind = "include" /\ Top.active
  BY <1>10, <1>12 DEF Includes
<1>13. ASSUME NEW bytes, NEW now, Writes(line, bytes, now)
       PROVE  /\ stack' # << >> /\ includeFileCount' = includeFileCount
              /\ ~ (line.kind = "include" /\ Top.active)
              /\ line.kind = "text" /\ Top.active =>
                   output' = Append(output, [at |-> Len(log'), name |-> Top.name, line |-> Top.line])
              /\ ~ (line.kind = "text" /\ Top.active) => output' = output
  <2>1. Emit(bytes, WithTop(stack, now)) /\ now \in Buffers
    BY <1>13 DEF Writes
  <2>2. stack' = WithTop(stack, now)
    BY <1>11, <2>1 DEF Emit, Refuse
  <2>3. WithTop(stack, now) # << >>
    BY <1>1, <1>10, <2>1, WithTopFacts, SMTT(60)
  <2> QED BY <1>13, <2>2, <2>3 DEF Writes
<1>14. CASE \E new : Includes(line, new)
  <2>1. /\ stack' # << >> /\ UNCHANGED output /\ includeFileCount' = includeFileCount + 1
        /\ line.kind = "include" /\ Top.active
    BY <1>12, <1>14
  <2>2. Lists(output, Texts(T))'
    BY <1>6, <1>7, <2>1 DEF Lists
  <2> QED BY <1>6, <1>8, <1>9, <2>1, <2>2
<1>15. CASE \E bytes, now : Writes(line, bytes, now)
  <2>1. /\ stack' # << >> /\ includeFileCount' = includeFileCount
        /\ ~ (line.kind = "include" /\ Top.active)
        /\ line.kind = "text" /\ Top.active =>
             output' = Append(output, [at |-> Len(log'), name |-> Top.name, line |-> Top.line])
        /\ ~ (line.kind = "text" /\ Top.active) => output' = output
    BY <1>13, <1>15
  <2>2. includeFileCount' = Cardinality(OfKind(include, T)')
    BY <1>6, <1>8, <1>9, <2>1
  <2>3. CASE line.kind = "text" /\ Top.active
    <3>1. PICK text : text = [at |-> l + 1, name |-> Top.name, line |-> Top.line]
      OBVIOUS
    <3>2. text \in Piece /\ text.at = l + 1
      BY <1>3, <1>10, <3>1 DEF Piece
    <3>3. PICK after : after = Append(output, text)
      OBVIOUS
    <3>4. PICK out : out = output
      OBVIOUS
    <3>5. PICK texts : texts = Texts(S)
      OBVIOUS
    <3>6. Lists(Append(out, text), texts \union {l + 1})
      <4>1. Lists(out, texts) /\ texts \subseteq 1 .. l /\ l \in Nat
        BY <1>3, <1>6, <1>7, <3>4, <3>5
      <4> QED BY <3>2, <4>1, OutputAppended
    <3>7. output' = after /\ Texts(T)' = texts \union {l + 1}
      BY <1>4, <1>7, <2>1, <2>3, <3>1, <3>3, <3>5
    <3>8. Lists(after, texts \union {l + 1})
      BY <3>3, <3>4, <3>6
    <3>9. Lists(output, Texts(T))' /\ output' \in Seq(Piece)
      BY <3>7, <3>8 DEF Lists
    <3> QED BY <2>1, <2>2, <3>9
  <2>4. CASE ~ (line.kind = "text" /\ Top.active)
    <3>1. Lists(output, Texts(T))'
      BY <1>6, <1>7, <2>1, <2>4 DEF Lists
    <3> QED BY <1>6, <2>1, <2>2, <2>4, <3>1
  <2> QED BY <2>3, <2>4
<1>16. ~ Rejects
  BY <1>11 DEF Rejects
<1> QED BY <1>14, <1>15, <1>16 DEF Lined

(***************************************************************************)
(* Where nothing is read, nothing is written.                              *)
(***************************************************************************)
LEMMA QuietOutput ==
  ASSUME IInv, LInv, OutputKnown,
         Leave \/ EndInput \/ (\E size \in Size : StartInput(size)) \/ UNCHANGED vars
  PROVE  OutputKnown'
<1>1. log' = log /\ log \in Seq(Entry) /\ includeFileCount' = includeFileCount
  BY DEF Leave, EndInput, StartInput, vars, counters, LInv, Logged
<1>2. PICK S : S = Selection
  OBVIOUS
<1>3. PICK include : include = "include"
  OBVIOUS
<1>4. Selection' = S /\ OfKind(include, S)' = OfKind(include, S)
  BY <1>1, <1>2, SelectionQuiet
<1>5. SUFFICES ASSUME failure' = "none"
               PROVE  /\ output' \in Seq(Piece)
                      /\ stack' = << >> => output' = << >>
                      /\ stack' # << >> => Lists(output, Texts(S))'
                      /\ includeFileCount' = Cardinality(OfKind(include, S)')
  BY <1>3, <1>4 DEF OutputKnown
<1>6. failure = "none"
  BY <1>5 DEF Leave, EndInput, StartInput, vars, AtEnd, Running
<1>7. /\ output \in Seq(Piece)
      /\ stack = << >> => output = << >>
      /\ stack # << >> => Lists(output, Texts(S))
      /\ includeFileCount = Cardinality(OfKind(include, S))
  BY <1>2, <1>3, <1>6 DEF OutputKnown
<1>8. includeFileCount' = Cardinality(OfKind(include, S)')
  BY <1>1, <1>4, <1>7
<1>9. CASE UNCHANGED vars
  <2>1. UNCHANGED << stack, output, input >>
    BY <1>9 DEF vars, counters
  <2>2. Texts(S)' = Texts(S)
    BY <1>1, <2>1 DEF Texts, Kind
  <2> QED BY <1>7, <1>8, <2>1, <2>2 DEF Lists
<1>10. CASE EndInput
  <2>1. stack' = << >> /\ output' = << >>
    BY <1>5, <1>10 DEF EndInput, Refuse
  <2>2. output' \in Seq(Piece)
    BY <2>1
  <2> QED BY <1>8, <2>1, <2>2
<1>11. ASSUME NEW size \in Size, StartInput(size)
       PROVE  /\ output' = << >> /\ Texts(S)' = {}
  <2>1. stack = << >> /\ output' = output /\ input' = input + 1
    BY <1>5, <1>11 DEF StartInput, Refuse
  <2>2. Texts(S)' = {}
    <3>1. \A i \in DOMAIN log : log[i].input \in Nat /\ log[i].input <= input /\ input \in Nat
      <4>1. \A i \in DOMAIN log : log[i] \in Entry
        BY <1>1
      <4> QED BY <4>1 DEF LInv, Logged, Entry, IInv, Types
    <3> QED BY <1>1, <2>1, <3>1 DEF Texts
  <2> QED BY <1>7, <2>1, <2>2
<1>12. CASE \E size \in Size : StartInput(size)
  <2>1. output' = << >> /\ Texts(S)' = {}
    BY <1>11, <1>12
  <2>2. DOMAIN output' = {} /\ output' \in Seq(Piece)
    BY <2>1
  <2> QED BY <1>8, <2>1, <2>2 DEF Lists
<1>13. CASE Leave
  <2>1. stack # << >> /\ output' = output /\ input' = input
    BY <1>13 DEF Leave, AtEnd, Running, counters
  <2>2. stack' # << >>
    <3>1. PICK outer : outer = Front(stack)
      OBVIOUS
    <3>2. PICK now : now = Resumed(Last(outer))
      OBVIOUS
    <3>3. Len(stack) > 1 /\ stack \in Seq(Buffers) /\ stack' = WithTop(outer, now)
      BY <1>5, <1>13, <3>1, <3>2 DEF Leave, Emit, Refuse, IInv, Types
    <3>4. outer \in Seq(Buffers) /\ Len(outer) = Len(stack) - 1
      BY <2>1, <3>1, <3>3, FrontFacts
    <3>5. outer # << >> /\ Front(outer) \in Seq(Buffers)
      BY <3>3, <3>4, FrontFacts
    <3>6. Append(Front(outer), now) # << >>
      BY <3>5
    <3> QED BY <3>3, <3>6 DEF WithTop
  <2>3. Texts(S)' = Texts(S)
    BY <1>1, <2>1 DEF Texts, Kind
  <2> QED BY <1>7, <1>8, <2>1, <2>2, <2>3 DEF Lists
<1> QED BY <1>9, <1>10, <1>12, <1>13

-----------------------------------------------------------------------------
(* Where a line is from.                                                   *)

\* The #line directives of a buffer that are obeyed.
Markers(b, S) == {j \in Lines(b) : S[j] /\ Kind(j) = "line"}

\* Where the next line of a buffer is from.
NextOrigin(b, file, S) ==
  IF Markers(b, S) = {}
  THEN [name |-> file, line |-> Cardinality(Lines(b)) + 1]
  ELSE LET marker == Max(Markers(b, S)) IN
       [name |-> log[marker].line.name,
        line |-> log[marker].line.number + (Cardinality(Lines(b)) + 1)
                   - (Cardinality(Before(marker)) + 1) - 1]

(***************************************************************************)
(* A line is from where the next line of its buffer was said to be from.   *)
(***************************************************************************)
LEMMA OriginRead ==
  ASSUME NEW e, NEW l, NEW S, NEW T, Reads(e, l, S, T), NEW b, b = e.buffer, NEW file, file = e.file
  PROVE  Origin(l + 1, T)' = NextOrigin(b, file, S)
<1>1. /\ log \in Seq(Entry) /\ e \in Entry /\ log' = Append(log, e) /\ l \in Nat /\ l = Len(log)
      /\ \A i \in 1 .. l : T[i] <=> S[i]
  BY DEF Reads
<1>2. PICK N : N = l + 1
  OBVIOUS
<1>3. /\ Before(N)' = Lines(b) /\ log'[N] = e
  BY <1>1, <1>2, NewLine
<1>4. /\ Lines(b) \subseteq 1 .. l /\ Markers(b, S) \subseteq Lines(b)
      /\ \A i \in 1 .. l : Kind(i)' = Kind(i) /\ Before(i)' = Before(i) /\ log'[i] = log[i]
  <2>1. Lines(b) \subseteq 1 .. l
    BY <1>1 DEF Lines
  <2> QED BY <1>1, <2>1, OldLines DEF Markers
<1>5. {j \in Lines(b) : T[j] /\ Kind(j)' = "line"} = Markers(b, S)
  BY <1>1, <1>4 DEF Markers
<1>6. PICK set : set = Markers(b, S)
  OBVIOUS
<1>7. {j \in Before(N)' : T[j] /\ Kind(j)' = "line"} = set
  BY <1>3, <1>5, <1>6
<1>8. log'[N].file = file
  BY <1>3
<1>9. Origin(N, T)' =
        IF set = {}
        THEN [name |-> log'[N].file, line |-> Cardinality(Before(N)') + 1]
        ELSE LET marker == Max(set) IN
             [name |-> log'[marker].line.name,
              line |-> log'[marker].line.number + (Cardinality(Before(N)') + 1)
                         - (Cardinality(Before(marker)') + 1) - 1]
  BY <1>7 DEF Origin
<1>10. NextOrigin(b, file, S) =
        IF set = {}
        THEN [name |-> file, line |-> Cardinality(Lines(b)) + 1]
        ELSE LET marker == Max(set) IN
             [name |-> log[marker].line.name,
              line |-> log[marker].line.number + (Cardinality(Lines(b)) + 1)
                         - (Cardinality(Before(marker)) + 1) - 1]
  BY <1>6 DEF NextOrigin
<1>11. CASE set = {}
  BY <1>2, <1>3, <1>8, <1>9, <1>10, <1>11
<1>12. CASE set # {}
  <2>1. set \in SUBSET (1 .. l)
    BY <1>4, <1>6
  <2>2. PICK marker \in 1 .. l : marker = Max(set)
    BY <1>1, <1>12, <2>1, LargestExists
  <2>3. log'[marker] = log[marker] /\ Before(marker)' = Before(marker)
    BY <1>4
  <2> QED BY <1>2, <1>3, <1>9, <1>10, <1>12, <2>2, <2>3
<1> QED BY <1>11, <1>12

(***************************************************************************)
(* Where a line is from does not change any more.                          *)
(***************************************************************************)
LEMMA OriginStays ==
  ASSUME NEW e, NEW l, NEW S, NEW T, Reads(e, l, S, T), NEW i \in 1 .. l
  PROVE  Origin(i, T)' = Origin(i, S)
<1>1. /\ log \in Seq(Entry) /\ e \in Entry /\ log' = Append(log, e) /\ l \in Nat /\ l = Len(log)
      /\ \A j \in 1 .. l : T[j] <=> S[j]
  BY DEF Reads
<1>2. /\ \A j \in 1 .. l : Kind(j)' = Kind(j) /\ Before(j)' = Before(j) /\ log'[j] = log[j]
      /\ Before(i) \subseteq 1 .. i - 1
  BY <1>1, OldLines
<1>3. PICK markers : markers = {j \in Before(i) : S[j] /\ Kind(j) = "line"}
  OBVIOUS
<1>4. markers \in SUBSET (1 .. i - 1) /\ \A j \in 1 .. i - 1 : j \in 1 .. l
  BY <1>1, <1>2, <1>3
<1>5. {j \in Before(i) : T[j] /\ Kind(j)' = "line"} = markers
  BY <1>1, <1>2, <1>3, <1>4
<1>6. markers # {} => Max(markers) \in 1 .. l
  <2>1. PICK n \in Nat : n = i - 1
    OBVIOUS
  <2>2. markers # {} => Max(markers) \in markers
    BY <1>4, <2>1, LargestExists
  <2> QED BY <1>4, <2>2
<1>7. Origin(i, T)' =
        IF markers = {}
        THEN [name |-> log'[i].file, line |-> Cardinality(Before(i)') + 1]
        ELSE LET marker == Max(markers) IN
             [name |-> log'[marker].line.name,
              line |-> log'[marker].line.number + (Cardinality(Before(i)') + 1)
                         - (Cardinality(Before(marker)') + 1) - 1]
  BY <1>2, <1>5 DEF Origin
<1>8. Origin(i, S) =
        IF markers = {}
        THEN [name |-> log[i].file, line |-> Cardinality(Before(i)) + 1]
        ELSE LET marker == Max(markers) IN
             [name |-> log[marker].line.name,
              line |-> log[marker].line.number + (Cardinality(Before(i)) + 1)
                         - (Cardinality(Before(marker)) + 1) - 1]
  BY <1>3 DEF Origin
<1> QED BY <1>2, <1>6, <1>7, <1>8

(***************************************************************************)
(* The lines of a buffer before another, and how many there are.           *)
(***************************************************************************)
LEMMA LinesFinite ==
  ASSUME log \in Seq(Entry), NEW l \in Nat, l = Len(log)
  PROVE  /\ \A b : /\ Lines(b) \subseteq 1 .. l /\ IsFiniteSet(Lines(b))
                   /\ Cardinality(Lines(b)) \in Nat
         /\ \A i \in 1 .. l : Cardinality(Before(i)) \in Nat
<1>0. IsFiniteSet(1 .. l)
  BY FS_Interval
<1>1. ASSUME NEW set \in SUBSET (1 .. l)
      PROVE  IsFiniteSet(set) /\ Cardinality(set) \in Nat
  BY <1>0, FS_Subset, FS_CardinalityType
<1>2. \A b : Lines(b) \in SUBSET (1 .. l)
  BY DEF Lines
<1>3. \A i \in 1 .. l : Before(i) \in SUBSET (1 .. l)
  BY DEF Before
<1> QED BY <1>1, <1>2, <1>3

(***************************************************************************)
(* Behind a line that is no #line, lines are counted; behind one that is,  *)
(* they are from where it says.                                            *)
(***************************************************************************)
LEMMA NextOriginStep ==
  ASSUME NEW e, NEW l, NEW S, NEW T, Reads(e, l, S, T), NEW b, b = e.buffer, NEW file
  PROVE  /\ e.line.kind = "line" /\ Top.active =>
              NextOrigin(b, file, T)' = [name |-> e.line.name, line |-> e.line.number]
         /\ ~ (e.line.kind = "line" /\ Top.active) =>
              \A name, line : NextOrigin(b, file, S) = [name |-> name, line |-> line]
                => NextOrigin(b, file, T)' = [name |-> name, line |-> line + 1]
<1>1. /\ log \in Seq(Entry) /\ e \in Entry /\ log' = Append(log, e) /\ l \in Nat /\ l = Len(log)
      /\ \A i \in 1 .. l : T[i] <=> S[i]
      /\ Top.active <=> T[l + 1]
  BY DEF Reads
<1>2. PICK N : N = l + 1
  OBVIOUS
<1>3. /\ Kind(N)' = e.line.kind /\ Before(N)' = Lines(b) /\ log'[N] = e
  BY <1>1, <1>2, NewLine
<1>4. Lines(b)' = Lines(b) \union {N} /\ N \notin Lines(b) /\ Lines(b) \subseteq 1 .. l
  BY <1>1, <1>2, DepthStep
<1>5. PICK c \in Nat : c = Cardinality(Lines(b))
  BY <1>1, LinesFinite
<1>6. Cardinality(Lines(b)') = c + 1
  <2>1. IsFiniteSet(Lines(b))
    BY <1>1, LinesFinite
  <2> QED BY <1>4, <1>5, <2>1, FS_AddElement
<1>7. /\ \A i \in 1 .. l : Kind(i)' = Kind(i) /\ Before(i)' = Before(i) /\ log'[i] = log[i]
  BY <1>1, OldLines
<1>8. PICK set : set = Markers(b, S)
  OBVIOUS
<1>9. set \in SUBSET (1 .. l) /\ set = {j \in Lines(b) : T[j] /\ Kind(j)' = "line"}
  BY <1>1, <1>4, <1>7, <1>8 DEF Markers
<1>10. Markers(b, T)' = {j \in Lines(b) \union {N} : T[j] /\ Kind(j)' = "line"}
  BY <1>4 DEF Markers
<1>11. CASE e.line.kind = "line" /\ Top.active
  <2>1. Markers(b, T)' = set \union {N}
    BY <1>1, <1>2, <1>3, <1>9, <1>10, <1>11
  <2>2. PICK more : more = set \union {N}
    OBVIOUS
  <2>3. Max(more) = N
    <3>1. more \in SUBSET (1 .. l + 1) /\ l + 1 \in more
      BY <1>1, <1>2, <1>9, <2>2
    <3> QED BY <1>1, <1>2, <3>1, LargestOf
  <2>4. more # {} /\ Markers(b, T)' = more
    BY <2>1, <2>2
  <2>5. NextOrigin(b, file, T)' =
          [name |-> log'[N].line.name,
           line |-> log'[N].line.number + (Cardinality(Lines(b)') + 1)
                      - (Cardinality(Before(N)') + 1) - 1]
    BY <2>3, <2>4 DEF NextOrigin
  <2>6. e.line.number \in Nat
    BY <1>1, <1>11 DEF Entry, Directive
  <2>7. e.line.number + (c + 1 + 1) - (c + 1) - 1 = e.line.number
    BY <2>6
  <2> QED BY <1>3, <1>5, <1>6, <1>11, <2>5, <2>7
<1>12. CASE ~ (e.line.kind = "line" /\ Top.active)
  <2>1. Markers(b, T)' = set
    BY <1>1, <1>2, <1>3, <1>9, <1>10, <1>12
  <2> SUFFICES ASSUME NEW name, NEW line, NextOrigin(b, file, S) = [name |-> name, line |-> line]
               PROVE  NextOrigin(b, file, T)' = [name |-> name, line |-> line + 1]
    BY <1>12
  <2>2. CASE set = {}
    <3>1. NextOrigin(b, file, S) = [name |-> file, line |-> c + 1]
      BY <1>5, <1>8, <2>2 DEF NextOrigin
    <3>2. NextOrigin(b, file, T)' = [name |-> file, line |-> c + 1 + 1]
      BY <1>6, <2>1, <2>2 DEF NextOrigin
    <3> QED BY <3>1, <3>2
  <2>3. CASE set # {}
    <3>1. PICK marker \in 1 .. l : marker = Max(set) /\ marker \in set
      BY <1>1, <1>9, <2>3, LargestExists
    <3>2. NextOrigin(b, file, S) =
            [name |-> log[marker].line.name,
             line |-> log[marker].line.number + (c + 1) - (Cardinality(Before(marker)) + 1) - 1]
      BY <1>5, <1>8, <2>3, <3>1 DEF NextOrigin
    <3>3. NextOrigin(b, file, T)' =
            [name |-> log'[marker].line.name,
             line |-> log'[marker].line.number + (c + 1 + 1) - (Cardinality(Before(marker)') + 1) - 1]
      BY <1>6, <2>1, <2>3, <3>1 DEF NextOrigin
    <3>4. log[marker].line.number \in Nat
      <4>1. log[marker] \in Entry /\ Kind(marker) = "line"
        <5>1. Kind(marker)' = "line"
          BY <1>9, <3>1
        <5>2. \A i \in 1 .. l : log[i] \in Entry
          BY <1>1
        <5> QED BY <1>7, <3>1, <5>1, <5>2
      <4> QED BY <4>1 DEF Kind, Entry, Directive
    <3>5. Cardinality(Before(marker)) \in Nat /\ Before(marker)' = Before(marker) /\ log'[marker] = log[marker]
      BY <1>1, <1>7, <3>1, LinesFinite
    <3>6. PICK number \in Nat : number = log[marker].line.number
      BY <3>4
    <3>7. PICK before \in Nat : before = Cardinality(Before(marker))
      BY <3>5
    <3>8. /\ name = log[marker].line.name /\ line = number + (c + 1) - (before + 1) - 1
      BY <3>2, <3>6, <3>7
    <3>9. line + 1 = number + (c + 1 + 1) - (before + 1) - 1
      BY <3>8
    <3> QED BY <3>3, <3>5, <3>6, <3>7, <3>8, <3>9
  <2> QED BY <2>2, <2>3
<1> QED BY <1>11, <1>12

(***************************************************************************)
(* A line of another buffer is of no importance.                           *)
(***************************************************************************)
LEMMA NextOriginOther ==
  ASSUME NEW e, NEW l, NEW S, NEW T, Reads(e, l, S, T), NEW b, b # e.buffer, NEW file
  PROVE  NextOrigin(b, file, T)' = NextOrigin(b, file, S)
<1>1. /\ log \in Seq(Entry) /\ e \in Entry /\ log' = Append(log, e) /\ l \in Nat /\ l = Len(log)
      /\ \A i \in 1 .. l : T[i] <=> S[i]
  BY DEF Reads
<1>2. Lines(b)' = Lines(b)
  BY <1>1, OtherBuffers
<1>3. /\ Lines(b) \subseteq 1 .. l
      /\ \A i \in 1 .. l : Kind(i)' = Kind(i) /\ Before(i)' = Before(i) /\ log'[i] = log[i]
  BY <1>1, OldLines, LinesFinite
<1>4. PICK set : set = Markers(b, S)
  OBVIOUS
<1>5. set \in SUBSET (1 .. l) /\ Markers(b, T)' = set
  BY <1>1, <1>2, <1>3, <1>4 DEF Markers
<1>6. set # {} => Max(set) \in 1 .. l
  <2>1. set # {} => Max(set) \in set
    BY <1>1, <1>5, LargestExists
  <2> QED BY <1>5, <2>1
<1> QED BY <1>2, <1>3, <1>4, <1>5, <1>6 DEF NextOrigin

(***************************************************************************)
(* A buffer starts at its first line.                                      *)
(***************************************************************************)
LEMMA NextOriginFirst ==
  ASSUME NEW b, NEW file, NEW S, \A i \in DOMAIN log : log[i].buffer # b
  PROVE  NextOrigin(b, file, S) = [name |-> file, line |-> 1]
<1>1. Lines(b) = {} /\ Markers(b, S) = {}
  BY DEF Lines, Markers
<1>2. Cardinality(Lines(b)) = 0
  BY <1>1, FS_EmptySet
<1>3. Cardinality(Lines(b)) + 1 = 1
  BY <1>2
<1> QED BY <1>1, <1>3 DEF NextOrigin

\* That of the next state.
FirstKnown ==
  \A b, file, S :
    (\A i \in DOMAIN log : log[i].buffer # b) => NextOrigin(b, file, S) = [name |-> file, line |-> 1]

(***************************************************************************)
(* It does in the next state, too.                                         *)
(***************************************************************************)
LEMMA FirstNext == FirstKnown'
<1>1. FirstKnown
  BY NextOriginFirst DEF FirstKnown
<1> QED BY <1>1, PTL

(***************************************************************************)
(* Where nothing is read, lines are from where they were.                  *)
(***************************************************************************)
LEMMA OriginQuiet ==
  ASSUME log' = log
  PROVE  /\ \A i, S : Origin(i, S)' = Origin(i, S)
         /\ \A b, file, S : NextOrigin(b, file, S)' = NextOrigin(b, file, S)
<1>1. \A i : Kind(i)' = Kind(i) /\ Before(i)' = Before(i)
  BY SameLog
<1>2. \A b : Lines(b)' = Lines(b)
  BY SameLog
<1>3. \A b, S : Markers(b, S)' = Markers(b, S)
  BY <1>1, <1>2 DEF Markers
<1>4. ASSUME NEW i, NEW S PROVE Origin(i, S)' = Origin(i, S)
  BY <1>1 DEF Origin
<1>5. ASSUME NEW b, NEW file, NEW S PROVE NextOrigin(b, file, S)' = NextOrigin(b, file, S)
  BY <1>1, <1>2, <1>3 DEF NextOrigin
<1> QED BY <1>4, <1>5

\* The next line of a buffer is from the source it is named after, and there
\* from this line.
Foretells(buffer, line, S) ==
  NextOrigin(buffer.id, buffer.file, S) = [name |-> buffer.name, line |-> line]

\* The line of a buffer, or, while it waits for a source, the one after.
Ahead(k) == IF k < Len(stack) THEN stack[k].line + 1 ELSE stack[k].line

\* A text is from where the log says.
IsFrom(text, S) == Origin(text.at, S) = [name |-> text.name, line |-> text.line]

\* The log says of the texts, and of the next line of each buffer, where they
\* are from what the output and the stack say.
OriginsKnown ==
  failure = "none" =>
    /\ \A n \in DOMAIN output : \A text \in {output[n]}, S \in {Selection} : IsFrom(text, S)
    /\ \A k \in DOMAIN stack : \A buffer \in {stack[k]}, line \in {Ahead(k)}, S \in {Selection} :
         Foretells(buffer, line, S)

(***************************************************************************)
(* A line of a buffer moves it on, one of another buffer does not.         *)
(***************************************************************************)
LEMMA ForetoldStep ==
  ASSUME NEW e, NEW l, NEW S, NEW T, Reads(e, l, S, T), NEW buffer, NEW line, Foretells(buffer, line, S)
  PROVE  /\ buffer.id # e.buffer => Foretells(buffer, line, T)'
         /\ buffer.id = e.buffer /\ ~ (e.line.kind = "line" /\ Top.active) =>
              Foretells(buffer, line + 1, T)'
<1>1. PICK b : b = buffer.id
  OBVIOUS
<1>2. PICK file : file = buffer.file
  OBVIOUS
<1>3. PICK name : name = buffer.name
  OBVIOUS
<1>4. NextOrigin(b, file, S) = [name |-> name, line |-> line]
  BY <1>1, <1>2, <1>3 DEF Foretells
<1>5. CASE b # e.buffer
  <2>1. NextOrigin(b, file, T)' = [name |-> name, line |-> line]
    BY <1>4, <1>5, NextOriginOther
  <2> QED BY <1>1, <1>2, <1>3, <1>5, <2>1 DEF Foretells
<1>6. CASE b = e.buffer /\ ~ (e.line.kind = "line" /\ Top.active)
  <2>1. NextOrigin(b, file, T)' = [name |-> name, line |-> line + 1]
    BY <1>4, <1>6, NextOriginStep
  <2> QED BY <1>1, <1>2, <1>3, <1>6, <2>1 DEF Foretells
<1> QED BY <1>1, <1>5, <1>6

(***************************************************************************)
(* The next line after a #line directive is from where it says.            *)
(***************************************************************************)
LEMMA ForetoldMarker ==
  ASSUME NEW e, NEW l, NEW S, NEW T, Reads(e, l, S, T), e.line.kind = "line", Top.active,
         NEW buffer, buffer.id = e.buffer, buffer.name = e.line.name, NEW line, line = e.line.number
  PROVE  Foretells(buffer, line, T)'
<1>1. PICK b : b = buffer.id
  OBVIOUS
<1>2. PICK file : file = buffer.file
  OBVIOUS
<1>3. NextOrigin(b, file, T)' = [name |-> e.line.name, line |-> e.line.number]
  BY <1>1, NextOriginStep
<1> QED BY <1>1, <1>2, <1>3 DEF Foretells

(***************************************************************************)
(* Texts that are in the log are from where they were.                     *)
(***************************************************************************)
LEMMA FromStays ==
  ASSUME NEW e, NEW l, NEW S, NEW T, Reads(e, l, S, T), NEW text, text.at \in 1 .. l, IsFrom(text, S)
  PROVE  IsFrom(text, T)'
<1>1. PICK i \in 1 .. l : i = text.at
  OBVIOUS
<1>2. Origin(i, T)' = Origin(i, S)
  BY OriginStays
<1> QED BY <1>1, <1>2 DEF IsFrom

(***************************************************************************)
(* A text that is read is from where its buffer says.                      *)
(***************************************************************************)
LEMMA FromRead ==
  ASSUME NEW e, NEW l, NEW S, NEW T, Reads(e, l, S, T),
         NEW buffer, buffer.id = e.buffer, buffer.file = e.file, NEW line, Foretells(buffer, line, S),
         NEW text, text.at = l + 1, text.name = buffer.name, text.line = line
  PROVE  IsFrom(text, T)'
<1>1. PICK b : b = e.buffer
  OBVIOUS
<1>2. PICK file : file = e.file
  OBVIOUS
<1>3. NextOrigin(b, file, S) = [name |-> buffer.name, line |-> line]
  BY <1>1, <1>2 DEF Foretells
<1>4. Origin(l + 1, T)' = NextOrigin(b, file, S)
  BY <1>1, <1>2, OriginRead
<1>5. PICK at : at = l + 1
  OBVIOUS
<1>6. Origin(at, T)' = [name |-> text.name, line |-> text.line]
  BY <1>3, <1>4, <1>5
<1>7. text.at = at
  BY <1>5
<1> QED BY <1>6, <1>7 DEF IsFrom

(***************************************************************************)
(* A buffer that is new starts at its first line.                          *)
(***************************************************************************)
LEMMA ForetoldFirst ==
  ASSUME NEW buffer, buffer.name = buffer.file, buffer.line = 1, NEW S,
         \A i \in DOMAIN log' : log'[i].buffer # buffer.id
  PROVE  Foretells(buffer, buffer.line, S)'
<1>1. PICK b : b = buffer.id
  OBVIOUS
<1>2. PICK file : file = buffer.file
  OBVIOUS
<1>3. NextOrigin(b, file, S)' = [name |-> file, line |-> 1]
  BY <1>1, FirstNext DEF FirstKnown
<1> QED BY <1>1, <1>2, <1>3 DEF Foretells

(***************************************************************************)
(* A line that is read is from where its buffer says, and moves it on.     *)
(***************************************************************************)
LEMMA LinedOrigins ==
  ASSUME IInv, LInv, OutputKnown, OriginsKnown, NEW line \in Directive, Lined(line)
  PROVE  OriginsKnown'
<1>1. /\ Take(line) /\ UNCHANGED << input, preprocessedBytes >> /\ Running /\ failure = "none"
      /\ stack # << >>
  BY DEF Lined, Take, Reading, Running
<1>2. PICK e, l, S, T : Reads(e, l, S, T) /\ e.line = line /\ e.file = Top.file
  BY <1>1, LineRead
<1>3. /\ log \in Seq(Entry) /\ e \in Entry /\ log' = Append(log, e) /\ l \in Nat /\ l = Len(log)
      /\ S = Selection /\ T = Selection' /\ e.buffer = Top.id
  BY <1>2 DEF Reads
<1>4. Len(log') = l + 1
  BY <1>3, LogGrows
<1>5. PICK n \in Nat \ {0} : n = Len(stack)
  BY <1>1, TopFacts
<1>6. /\ stack \in Seq(Buffers) /\ DOMAIN stack = 1 .. n /\ \A k \in 1 .. n : stack[k] \in Buffers
      /\ Top = stack[n] /\ Top \in Buffers
  BY <1>1, <1>5, TopFacts DEF IInv, Types, Top, Last
<1>7. \A k \in 1 .. n : k # n => stack[k].id # Top.id
  <2>1. \A i, k \in DOMAIN stack : i < k => stack[i].id < stack[k].id
    BY <1>1 DEF LInv, Follows
  <2>2. \A k \in 1 .. n : k # n => k < n /\ n \in 1 .. n
    OBVIOUS
  <2>3. \A k \in 1 .. n : stack[k].id \in Nat
    BY <1>6 DEF Buffers
  <2> QED BY <1>6, <2>1, <2>2, <2>3
<1>8. \A k \in 1 .. n : Foretells(stack[k], Ahead(k), S)
  BY <1>1, <1>3, <1>6 DEF OriginsKnown
<1>9. Foretells(Top, Top.line, S)
  <2>1. Ahead(n) = Top.line /\ n \in 1 .. n
    BY <1>5, <1>6 DEF Ahead
  <2> QED BY <1>6, <1>8, <2>1
<1>10. \A i \in DOMAIN output : output[i].at \in 1 .. l /\ IsFrom(output[i], S)
  <2>1. Texts(S) \subseteq 1 .. l
    BY <1>1, <1>2, TextsGrow
  <2>2. {output[i].at : i \in DOMAIN output} = Texts(S)
    BY <1>1, <1>3 DEF OutputKnown, Lists
  <2>3. \A i \in DOMAIN output : IsFrom(output[i], S)
    BY <1>1, <1>3 DEF OriginsKnown
  <2> QED BY <2>1, <2>2, <2>3
<1>11. SUFFICES ASSUME failure' = "none"
                PROVE  /\ \A i \in DOMAIN output' : \A text \in {output'[i]} : IsFrom(text, T)'
                       /\ \A k \in DOMAIN stack' : \A buffer \in {stack'[k]}, at \in {Ahead(k)'} :
                            Foretells(buffer, at, T)'
  BY <1>3 DEF OriginsKnown
<1>12. ASSUME NEW text, NEW i \in DOMAIN output, text = output[i]
       PROVE  IsFrom(text, T)'
  BY <1>2, <1>10, <1>12, FromStays
<1>13. ASSUME NEW k \in 1 .. n, k # n, NEW buffer, buffer = stack[k], NEW at, at = buffer.line + 1
       PROVE  Foretells(buffer, at, T)'
  <2>1. k < n
    BY <1>13
  <2>2. Ahead(k) = at
    BY <1>5, <1>13, <2>1 DEF Ahead
  <2>3. Foretells(buffer, at, S) /\ buffer.id # e.buffer
    BY <1>3, <1>7, <1>8, <1>13, <2>2
  <2> QED BY <1>2, <2>3, ForetoldStep
<1>14. ASSUME ~ (line.kind = "line" /\ Top.active), NEW buffer, buffer = Top,
              NEW at, at = buffer.line
       PROVE  Foretells(buffer, at + 1, T)'
  <2>1. Foretells(buffer, at, S) /\ buffer.id = e.buffer
    BY <1>3, <1>9, <1>14
  <2> QED BY <1>2, <1>14, <2>1, ForetoldStep
<1>15. CASE \E new : Includes(line, new)
  <2>1. PICK new : Includes(line, new)
    BY <1>15
  <2>2. /\ line.kind = "include" /\ new \in Buffers /\ new.id = input + includeFileCount + 1
        /\ new.name = new.file /\ new.line = 1 /\ stack' = Append(stack, new) /\ output' = output
    BY <2>1 DEF Includes
  <2>3. /\ DOMAIN stack' = 1 .. n + 1 /\ Len(stack') = n + 1 /\ stack'[n + 1] = new
        /\ \A k \in 1 .. n : stack'[k] = stack[k]
    BY <1>5, <1>6, <2>2
  <2>4. ASSUME NEW k \in 1 .. n + 1, NEW buffer, buffer = stack'[k], NEW at, at = Ahead(k)'
        PROVE  Foretells(buffer, at, T)'
    <3>1. CASE k = n + 1
      <4>1. buffer = new /\ at = buffer.line
        BY <2>3, <2>4, <3>1 DEF Ahead
      <4>2. \A i \in DOMAIN log' : log'[i].buffer # buffer.id
        <5>1. /\ DOMAIN log' = 1 .. l + 1
              /\ \A i \in 1 .. l + 1 : log'[i].buffer <= input + includeFileCount
          BY <1>1, <1>2, LogBounded
        <5>2. input + includeFileCount \in Nat
          BY DEF IInv, Types
        <5>3. log' \in Seq(Entry)
          BY <1>1, <1>2, LogBounded
        <5>4. \A i \in 1 .. l + 1 : log'[i].buffer \in Nat
          <6>1. \A i \in DOMAIN log' : log'[i] \in Entry
            BY <5>3
          <6>2. \A entry \in Entry : entry.buffer \in Nat
            BY DEF Entry
          <6> QED BY <5>1, <6>1, <6>2
        <5>5. buffer.id = input + includeFileCount + 1
          BY <2>2, <4>1
        <5> QED BY <5>1, <5>2, <5>4, <5>5
      <4>3. buffer.name = buffer.file /\ buffer.line = 1
        BY <2>2, <4>1
      <4> QED BY <4>1, <4>2, <4>3, ForetoldFirst
    <3>2. CASE k # n + 1
      <4>1. k \in 1 .. n /\ k < n + 1
        BY <3>2
      <4>2. buffer = stack[k] /\ at = buffer.line + 1
        BY <2>3, <2>4, <4>1 DEF Ahead
      <4>3. CASE k # n
        BY <1>13, <4>1, <4>2, <4>3
      <4>4. CASE k = n
        <5>1. buffer = Top
          BY <1>6, <4>2, <4>4
        <5>2. PICK here : here = buffer.line
          OBVIOUS
        <5>3. Foretells(buffer, here + 1, T)'
          BY <1>14, <2>2, <5>1, <5>2
        <5> QED BY <4>2, <5>2, <5>3
      <4> QED BY <4>3, <4>4
    <3> QED BY <3>1, <3>2
  <2> QED BY <1>12, <2>2, <2>3, <2>4
<1>16. CASE \E bytes, now : Writes(line, bytes, now)
  <2>1. PICK bytes, now : Writes(line, bytes, now)
    BY <1>16
  <2>2. /\ now \in Buffers /\ now.id = Top.id /\ now.file = Top.file
        /\ line.kind = "line" /\ Top.active => now.name = line.name /\ now.line = line.number
        /\ ~ (line.kind = "line" /\ Top.active) => now.name = Top.name /\ now.line = Top.line + 1
        /\ line.kind = "text" /\ Top.active =>
             output' = Append(output, [at |-> Len(log'), name |-> Top.name, line |-> Top.line])
        /\ ~ (line.kind = "text" /\ Top.active) => output' = output
        /\ Emit(bytes, WithTop(stack, now))
    BY <2>1 DEF Writes
  <2>3. stack' = WithTop(stack, now)
    BY <1>11, <2>2 DEF Emit, Refuse
  <2>4. /\ DOMAIN stack' = 1 .. n /\ Len(stack') = n
        /\ \A k \in 1 .. n : stack'[k] = IF k = n THEN now ELSE stack[k]
    <3>1. /\ WithTop(stack, now) \in Seq(Buffers) /\ Len(WithTop(stack, now)) = Len(stack)
          /\ \A k \in 1 .. Len(stack) : WithTop(stack, now)[k] = IF k = Len(stack) THEN now ELSE stack[k]
      <4>1. stack \in Seq(Buffers) /\ stack # << >> /\ now \in Buffers
        BY <1>1, <1>6, <2>2
      <4> QED BY <4>1, WithTopFacts, SMTT(60)
    <3> QED BY <1>5, <2>3, <3>1
  <2>5. ASSUME NEW k \in 1 .. n, NEW buffer, buffer = stack'[k], NEW at, at = Ahead(k)'
        PROVE  Foretells(buffer, at, T)'
    <3>1. CASE k # n
      <4>1. k < n
        BY <3>1
      <4>2. buffer = stack[k] /\ at = buffer.line + 1
        BY <2>4, <2>5, <3>1, <4>1 DEF Ahead
      <4> QED BY <1>13, <3>1, <4>2
    <3>2. CASE k = n
      <4>1. buffer = now /\ at = now.line
        BY <2>4, <2>5, <3>2 DEF Ahead
      <4>2. CASE line.kind = "line" /\ Top.active
        <5>1. buffer.id = e.buffer /\ buffer.name = e.line.name /\ at = e.line.number
          BY <1>2, <1>3, <2>2, <4>1, <4>2
        <5>2. e.line.kind = "line" /\ Top.active
          BY <1>2, <4>2
        <5> QED BY <1>2, <5>1, <5>2, ForetoldMarker
      <4>3. CASE ~ (line.kind = "line" /\ Top.active)
        <5>1. PICK old : old = Top
          OBVIOUS
        <5>2. PICK here : here = old.line
          OBVIOUS
        <5>3. Foretells(old, here + 1, T)'
          BY <1>14, <4>3, <5>1, <5>2
        <5>4. buffer.id = old.id /\ buffer.file = old.file /\ buffer.name = old.name /\ at = here + 1
          BY <2>2, <4>1, <4>3, <5>1, <5>2
        <5> QED BY <5>3, <5>4 DEF Foretells
      <4> QED BY <4>2, <4>3
    <3> QED BY <3>1, <3>2
  <2>6. \A i \in DOMAIN output' : \A text \in {output'[i]} : IsFrom(text, T)'
    <3>1. CASE ~ (line.kind = "text" /\ Top.active)
      BY <1>12, <2>2, <3>1
    <3>2. CASE line.kind = "text" /\ Top.active
      <4>1. PICK new : new = [at |-> l + 1, name |-> Top.name, line |-> Top.line]
        OBVIOUS
      <4>2. output' = Append(output, new)
        BY <1>4, <2>2, <3>2, <4>1
      <4>3. output \in Seq(Piece)
        BY <1>1 DEF OutputKnown
      <4>4. PICK m \in Nat : m = Len(output)
        BY <4>3
      <4>5. /\ DOMAIN output' = 1 .. m + 1 /\ DOMAIN output = 1 .. m /\ output'[m + 1] = new
            /\ \A i \in 1 .. m : output'[i] = output[i]
        BY <4>2, <4>3, <4>4
      <4>6. IsFrom(new, T)'
        <5>1. PICK buffer : buffer = Top
          OBVIOUS
        <5>2. PICK here : here = Top.line
          OBVIOUS
        <5>3. /\ buffer.id = e.buffer /\ buffer.file = e.file /\ Foretells(buffer, here, S)
              /\ new.at = l + 1 /\ new.name = buffer.name /\ new.line = here
          BY <1>2, <1>3, <1>9, <4>1, <5>1, <5>2
        <5> QED BY <1>2, <5>3, FromRead
      <4>7. \A i \in 1 .. m + 1 : i = m + 1 \/ i \in 1 .. m
        BY <4>4
      <4> QED BY <1>12, <4>5, <4>6, <4>7
    <3> QED BY <3>1, <3>2
  <2> QED BY <2>4, <2>5, <2>6
<1>17. ~ Rejects
  BY <1>11 DEF Rejects
<1> QED BY <1>15, <1>16, <1>17 DEF Lined

(***************************************************************************)
(* Where nothing is read, each buffer goes on where it was; the one that   *)
(* waited goes on after its include line.                                  *)
(***************************************************************************)
LEMMA QuietOrigins ==
  ASSUME IInv, LInv, OutputKnown, OriginsKnown,
         Leave \/ EndInput \/ (\E size \in Size : StartInput(size)) \/ UNCHANGED vars
  PROVE  OriginsKnown'
<1>1. log' = log /\ log \in Seq(Entry) /\ includeFileCount' = includeFileCount
  BY DEF Leave, EndInput, StartInput, vars, counters, LInv, Logged
<1>2. PICK S : S = Selection
  OBVIOUS
<1>3. Selection' = S
  BY <1>1, <1>2, SelectionQuiet
<1>4. SUFFICES ASSUME failure' = "none"
               PROVE  /\ \A n \in DOMAIN output' : \A text \in {output'[n]} : IsFrom(text, S)'
                      /\ \A k \in DOMAIN stack' : \A buffer \in {stack'[k]}, at \in {Ahead(k)'} :
                           Foretells(buffer, at, S)'
  BY <1>3 DEF OriginsKnown
<1>5. failure = "none"
  BY <1>4 DEF Leave, EndInput, StartInput, vars, AtEnd, Running
<1>6. /\ \A n \in DOMAIN output : IsFrom(output[n], S)
      /\ \A k \in DOMAIN stack : Foretells(stack[k], Ahead(k), S)
  BY <1>2, <1>5 DEF OriginsKnown
<1>7. /\ \A text : IsFrom(text, S)' <=> IsFrom(text, S)
      /\ \A buffer, at : Foretells(buffer, at, S)' <=> Foretells(buffer, at, S)
  BY <1>1, OriginQuiet DEF IsFrom, Foretells
<1>8. output' = output => \A n \in DOMAIN output' : \A text \in {output'[n]} : IsFrom(text, S)'
  BY <1>6, <1>7
<1>9. CASE UNCHANGED vars
  <2>1. stack' = stack /\ output' = output
    BY <1>9 DEF vars
  <2>2. \A k : Ahead(k)' = Ahead(k)
    BY <2>1 DEF Ahead
  <2> QED BY <1>6, <1>7, <1>8, <2>1, <2>2
<1>10. CASE EndInput
  <2>1. stack' = << >> /\ output' = << >>
    BY <1>4, <1>5, <1>10 DEF EndInput, Refuse
  <2> QED BY <2>1
<1>11. ASSUME NEW size \in Size, StartInput(size)
       PROVE  /\ output' = output
              /\ \A k \in DOMAIN stack' : \A buffer \in {stack'[k]}, at \in {Ahead(k)'} :
                   Foretells(buffer, at, S)'
  <2>1. /\ output' = output /\ input' = input + 1
        /\ stack' = << Buffer(input' + includeFileCount, MainName, size) >>
    BY <1>4, <1>5, <1>11 DEF StartInput, Refuse
  <2>2. PICK new : new = Buffer(input' + includeFileCount, MainName, size)
    OBVIOUS
  <2>3. DOMAIN stack' = 1 .. 1 /\ Len(stack') = 1 /\ stack'[1] = new
    BY <2>1, <2>2
  <2>4. new.id = input + 1 + includeFileCount /\ new.name = new.file /\ new.line = 1
    BY <2>1, <2>2 DEF Buffer
  <2>5. \A i \in DOMAIN log' : log'[i].buffer # new.id
    <3>1. /\ \A i \in DOMAIN log : log[i].buffer <= input + includeFileCount
          /\ input \in Nat /\ includeFileCount \in Nat
      BY DEF LInv, Logged, IInv, Types
    <3>2. \A i \in DOMAIN log : log[i].buffer \in Nat
      <4>1. \A i \in DOMAIN log : log[i] \in Entry
        BY <1>1
      <4> QED BY <4>1 DEF Entry
    <3> QED BY <1>1, <2>4, <3>1, <3>2
  <2>6. Foretells(new, new.line, S)'
    BY <2>4, <2>5, ForetoldFirst
  <2>7. \A k \in DOMAIN stack' : stack'[k] = new /\ Ahead(k)' = new.line
    BY <2>3 DEF Ahead
  <2> QED BY <2>1, <2>6, <2>7
<1>12. CASE Leave
  <2>1. /\ Len(stack) > 1 /\ stack # << >> /\ output' = output /\ ~ Unterminated
        /\ Running
    BY <1>4, <1>12 DEF Leave, AtEnd, Running, Refuse
  <2>2. PICK n \in Nat : n = Len(stack) - 1 /\ n # 0
    BY <2>1, TopFacts
  <2>3. /\ stack \in Seq(Buffers) /\ DOMAIN stack = 1 .. n + 1 /\ Len(stack) = n + 1
        /\ Sound(stack, conditionals) /\ Top = stack[n + 1]
    BY <2>1, <2>2, TopFacts DEF Top, Last, IInv, Running
  <2>4. PICK outer \in Seq(Buffers) : /\ outer = Front(stack) /\ Len(outer) = n
                                      /\ \A k \in 1 .. n : outer[k] = stack[k]
    <3>1. /\ Front(stack) \in Seq(Buffers) /\ Len(Front(stack)) = Len(stack) - 1
          /\ \A i \in 1 .. Len(stack) - 1 : Front(stack)[i] = stack[i]
      BY <2>1, <2>3, FrontFacts
    <3> QED BY <2>2, <2>3, <3>1
  <2>5. PICK inner \in Buffers : inner = Last(outer) /\ inner = stack[n]
    <3>1. outer # << >> /\ n \in 1 .. n
      BY <2>2, <2>4
    <3>2. Last(outer) = outer[Len(outer)]
      BY DEF Last
    <3>3. stack[n] \in Buffers
      BY <2>2, <2>3
    <3> QED BY <2>2, <2>4, <3>1, <3>2, <3>3
  <2>6. Emit(1, WithTop(outer, Advance(inner)))
    BY <1>12, <2>1, <2>4, <2>5 DEF Leave, Resumed
  <2>7. stack' = WithTop(outer, Advance(inner))
    BY <1>4, <2>6 DEF Emit, Refuse
  <2>8. PICK now \in Buffers : /\ now = Advance(inner) /\ now.id = inner.id /\ now.file = inner.file
                               /\ now.name = inner.name /\ now.line = inner.line + 1
    <3>1. inner.left > 0
      BY <2>2, <2>3, <2>5 DEF Sound
    <3>2. PICK active \in BOOLEAN : active = inner.active
      BY DEF Buffers
    <3>3. [inner EXCEPT !.active = active] = inner
      BY <3>2 DEF Buffers
    <3>4. LET next == Advance([inner EXCEPT !.active = active]) IN
            /\ next \in Buffers /\ next.id = inner.id /\ next.base = inner.base
            /\ next.file = inner.file /\ next.name = inner.name
            /\ next.line = inner.line + 1 /\ next.active = active
      BY <3>1, NextLine
    <3> QED BY <3>2, <3>3, <3>4
  <2>9. /\ DOMAIN stack' = 1 .. n /\ Len(stack') = n
        /\ \A k \in 1 .. n : stack'[k] = IF k = n THEN now ELSE stack[k]
    <3>1. outer # << >>
      BY <2>2, <2>4
    <3>2. /\ WithTop(outer, now) \in Seq(Buffers)
          /\ Len(WithTop(outer, now)) = Len(outer)
          /\ \A i \in 1 .. Len(outer) :
               WithTop(outer, now)[i] = IF i = Len(outer) THEN now ELSE outer[i]
      BY <3>1, WithTopFacts, SMTT(60)
    <3> QED BY <2>2, <2>4, <2>7, <2>8, <3>2
  <2>10. ASSUME NEW k \in 1 .. n, NEW buffer, buffer = stack'[k], NEW at, at = Ahead(k)'
         PROVE  Foretells(buffer, at, S)'
    <3>1. k \in DOMAIN stack /\ k < n + 1
      BY <2>2, <2>3
    <3>2. Ahead(k) = stack[k].line + 1
      BY <2>3, <3>1 DEF Ahead
    <3>3. Foretells(stack[k], stack[k].line + 1, S)
      BY <1>6, <3>1, <3>2
    <3>4. CASE k # n
      <4>1. buffer = stack[k] /\ at = stack[k].line + 1
        BY <2>9, <2>10, <3>4 DEF Ahead
      <4> QED BY <1>7, <3>3, <4>1
    <3>5. CASE k = n
      <4>1. buffer = now /\ at = inner.line + 1
        BY <2>8, <2>9, <2>10, <3>5 DEF Ahead
      <4>2. Foretells(inner, at, S)
        BY <2>5, <3>3, <3>5, <4>1
      <4>3. Foretells(buffer, at, S)
        BY <2>8, <4>1, <4>2 DEF Foretells
      <4> QED BY <1>7, <4>3
    <3> QED BY <3>4, <3>5
  <2> QED BY <1>8, <2>1, <2>9, <2>10
<1> QED BY <1>8, <1>9, <1>10, <1>11, <1>12

-----------------------------------------------------------------------------
(* What holds in every state.                                              *)

\* The stacks are sound and say what the log says, the output has the
\* selected texts, each from where the log says, and what is written is paid.
Faithful == IInv /\ LInv /\ Budgeted /\ OutputKnown /\ OriginsKnown

(***************************************************************************)
(* It holds at first, where nothing is read.                               *)
(***************************************************************************)
LEMMA InitFaithful == Init => Faithful
<1> SUFFICES ASSUME Init PROVE Faithful
  OBVIOUS
<1>1. IInv /\ LInv
  BY InitHolds, InitLogged
<1>2. /\ stack = << >> /\ output = << >> /\ log = << >> /\ failure = "none" /\ length = 0
      /\ preprocessedBytes = 0 /\ includeFileCount = 0
  BY DEF Init
<1>3. DOMAIN output = {} /\ DOMAIN stack = {} /\ output \in Seq(Piece) /\ DOMAIN log = {} /\ Len(log) = 0
  BY <1>2
<1>4. \A kind, S : OfKind(kind, S) = {}
  BY <1>3 DEF OfKind
<1>5. \A kind, S : Cardinality(OfKind(kind, S)) = 0
  BY <1>4, FS_EmptySet
<1>6. OutputKnown
  BY <1>2, <1>3, <1>5 DEF OutputKnown
<1>7. OriginsKnown
  BY <1>3 DEF OriginsKnown
<1>8. \A S : Written(S) = 0
  BY <1>2, <1>3, <1>5, WrittenForm
<1>9. Budgeted
  BY <1>2, <1>8, PreprocessorAssumption DEF Budgeted, BudgetIsCumulative
<1> QED BY <1>1, <1>6, <1>7, <1>9 DEF Faithful

(***************************************************************************)
(* Every step keeps it.                                                    *)
(***************************************************************************)
LEMMA FaithfulStep == Faithful /\ [Next]_vars => Faithful'
<1> SUFFICES ASSUME Faithful, [Next]_vars PROVE Faithful'
  OBVIOUS
<1>1. IInv /\ LInv /\ Budgeted /\ OutputKnown /\ OriginsKnown
  BY DEF Faithful
<1>2. IInv' /\ LInv'
  BY <1>1, StepHolds, LogStepHolds
<1>3. ASSUME NEW line \in Directive, Lined(line)
      PROVE  Budgeted' /\ OutputKnown' /\ OriginsKnown'
  BY <1>1, <1>3, LinedBudget, LinedOutput, LinedOrigins
<1>4. ASSUME Leave \/ EndInput \/ (\E size \in Size : StartInput(size)) \/ UNCHANGED vars
      PROVE  Budgeted' /\ OutputKnown' /\ OriginsKnown'
  BY <1>1, <1>4, QuietBudget, QuietOutput, QuietOrigins
<1> QED BY <1>1, <1>2, <1>3, <1>4, StepForms DEF Faithful

(***************************************************************************)
(* And it says what is to be proved.                                       *)
(***************************************************************************)
LEMMA FaithfulIsCorrect == Faithful => OutputIsSelection /\ OriginsKept /\ BudgetIsCumulative
<1> SUFFICES ASSUME Faithful PROVE OutputIsSelection /\ OriginsKept /\ BudgetIsCumulative
  OBVIOUS
<1>1. Budgeted /\ OutputKnown /\ OriginsKnown
  BY DEF Faithful
<1>2. OutputIsSelection
  BY <1>1 DEF OutputIsSelection, OutputKnown, Lists, OfKind
<1>3. OriginsKept
  BY <1>1 DEF OriginsKept, OriginsKnown, IsFrom
<1>4. BudgetIsCumulative
  BY <1>1 DEF Budgeted
<1> QED BY <1>2, <1>3, <1>4

(***************************************************************************)
(* The output has the selected texts of the input, each once and in order, *)
(* and as many sources were included as there are selected include lines:  *)
(* the stack of conditional groups of the preprocessor selects what the    *)
(* directives mean, for every source, request and answer of the resolver.  *)
(***************************************************************************)
THEOREM SelectedTextsWritten == Spec => []OutputIsSelection
<1>1. Init => Faithful
  BY InitFaithful
<1>2. Faithful /\ [Next]_vars => Faithful'
  BY FaithfulStep
<1>3. Faithful => OutputIsSelection
  BY FaithfulIsCorrect
<1> QED BY <1>1, <1>2, <1>3, PTL DEF Spec

(***************************************************************************)
(* Every text is mapped to where it was written, as the #line directives   *)
(* of its own buffer say: none of an included source outlives it, and the  *)
(* including source goes on behind its include line.                       *)
(***************************************************************************)
THEOREM TextsKeepTheirOrigins == Spec => []OriginsKept
<1>1. Init => Faithful
  BY InitFaithful
<1>2. Faithful /\ [Next]_vars => Faithful'
  BY FaithfulStep
<1>3. Faithful => OriginsKept
  BY FaithfulIsCorrect
<1> QED BY <1>1, <1>2, <1>3, PTL DEF Spec

(***************************************************************************)
(* All inputs and included sources of a request together never have more   *)
(* text than its budget, and a request whose text fits is not refused for  *)
(* its bytes.                                                              *)
(***************************************************************************)
THEOREM OneBudgetForAllInputs == Spec => []BudgetIsCumulative
<1>1. Init => Faithful
  BY InitFaithful
<1>2. Faithful /\ [Next]_vars => Faithful'
  BY FaithfulStep
<1>3. Faithful => BudgetIsCumulative
  BY FaithfulIsCorrect
<1> QED BY <1>1, <1>2, <1>3, PTL DEF Spec
=============================================================================
