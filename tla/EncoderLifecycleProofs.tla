----------------------- MODULE EncoderLifecycleProofs -----------------------
(* For any number of encoders, objects and calls, nested to any depth: no two *)
(* encode calls share a struct, cleaning up neither frees what is in use nor  *)
(* leaks a clone, and no call meets what another document left in the tables. *)
EXTENDS EncoderLifecycle, NatLemmas, FiniteSetTheorems, TLAPS

\* A stack as the calls build it: on every call lies, or every call lies on, the
\* hook of its struct, only a perl scope comes between a call and what it runs,
\* and a struct has one pending hook at most.
Frame(s, i) ==
  IF s[i].xsub
  THEN /\ i + 1 <= Len(s) /\ s[i + 1].t = "hook" /\ s[i + 1].e = s[i].e
       /\ i + 2 <= Len(s) => s[i + 2].t = "block"
  ELSE /\ i > 1 /\ s[i - 1].t = "hook" /\ s[i - 1].e = s[i].e
       /\ i + 1 <= Len(s) => s[i + 1].t = "block"

Shape(s) ==
  /\ s \in Seq(Item) /\ Len(s) >= 1 /\ s[1].t = "block"
  /\ \A i \in 1 .. Len(s) : s[i].t = "call" => Frame(s, i)
  /\ \A i, j \in 1 .. Len(s) : s[i].t = "hook" /\ s[j].t = "hook" /\ s[i].e = s[j].e => i = j

HookAbove(s, k, e) == \E i \in k + 1 .. Len(s) : s[i].t = "hook" /\ s[i].e = e
HasHook(s, e) == \E i \in 1 .. Len(s) : s[i].t = "hook" /\ s[i].e = e

\* DIRTY is set exactly while a hook is pending that resets it; a clone lives as
\* long, the object's struct until the object is released, and the memory of a
\* struct is zero again when it is gone.
Owned(en, s, e) ==
  /\ en[e].dirty <=> HasHook(s, e)
  /\ en[e].live => (en[e].reuse <=> e = User)
  /\ en[e].live <=> IF e = User THEN object # "released" ELSE en[e].dirty
  /\ en[e].dirty => en[e].live
  /\ ~en[e].live => en[e] = Zeroed

Clean(r) == r.depth = 0 /\ r.seen = Nobody /\ r.svhash = {}

\* The tables of struct r hold nothing but what call c has put there.
Own(r, c) == /\ r.seen \in {Nobody, <<c.id, c.phase>>}
             /\ \A f \in r.svhash : <<f[1], f[2]>> = <<c.id, c.phase>>

\* The structs en and the stack s fit each other.
Sound(en, s) ==
  /\ en \in [Encoders -> Encoder] /\ Shape(s)
  /\ \A e \in Encoders : Owned(en, s, e)
  /\ \A e \in Encoders : ~en[e].dirty => Clean(en[e])
  /\ \A i \in 1 .. Len(s) : s[i].t = "call" => Own(en[s[i].e], s[i])

\* After an early release everything but the object's struct is as it was.
Robbed(en) == enc = [en EXCEPT ![User] = Zeroed]

IInv ==
  /\ calls \in Nat /\ level \in Nat /\ object \in {"held", "released", "early"}
  /\ object # "early" => Sound(enc, stack)
  /\ object = "early" => \E en : Sound(en, stack) /\ Robbed(en)

-----------------------------------------------------------------------------
(* Records *)

LEMMA ItemFacts ==
  /\ Block \in Item /\ Block.t = "block"
  /\ \A e \in Encoders : Hook(e) \in Item /\ Hook(e).t = "hook" /\ Hook(e).e = e
BY UserAssumption DEF Block, Hook, Item, Parts

LEMMA ZeroedFacts ==
  /\ Zeroed \in Encoder /\ ~Zeroed.live /\ ~Zeroed.dirty /\ ~Zeroed.reuse
  /\ Zeroed.depth = 0 /\ Zeroed.seen = Nobody /\ Zeroed.svhash = {}
  /\ Nobody \in Nat \X Parts
BY DEF Zeroed, Encoder, Nobody, Parts

\* What the hook leaves of a struct: a clean one, or nothing.
LEMMA HookFacts ==
  ASSUME NEW r \in Encoder
  PROVE  LET h == srl_destructor_hook(r)
         IN  /\ h \in Encoder /\ ~h.dirty
             /\ h.depth = 0 /\ h.seen = Nobody /\ h.svhash = {}
             /\ r.reuse => h.reuse /\ h.live = r.live
             /\ ~r.reuse => h = Zeroed
<1>1. CASE r.reuse
  <2>1. srl_destructor_hook(r) = [r EXCEPT !.seen = Nobody, !.svhash = {}, !.depth = 0, !.dirty = FALSE]
    BY <1>1 DEF srl_destructor_hook, srl_clear_encoder, srl_clear_seen_hashes
  <2> QED
    BY <1>1, <2>1, ZeroedFacts DEF Encoder
<1>2. CASE ~r.reuse
  BY <1>2, ZeroedFacts DEF srl_destructor_hook
<1> QED
  BY <1>1, <1>2

\* Entering srl_dump_sv changes the recursion depth and the seen tables only.
LEMMA EnterFacts ==
  ASSUME NEW r \in Encoder, NEW m \in Nat \X Parts
  PROVE  LET n == [r EXCEPT !.depth = @ + 1, !.seen = m]
         IN  /\ n \in Encoder /\ n.live = r.live /\ n.reuse = r.reuse /\ n.dirty = r.dirty
             /\ n.svhash = r.svhash /\ n.seen = m
<1>1. r.depth + 1 \in Nat
  BY DEF Encoder
<1> QED
  BY <1>1 DEF Encoder

-----------------------------------------------------------------------------
(* The stack *)

\* There is a topmost block or call.
LEMMA RunningSpec ==
  ASSUME Shape(stack)
  PROVE  /\ Running \in 1 .. Len(stack) /\ stack[Running].t # "hook"
         /\ \A j \in Running + 1 .. Len(stack) : stack[j].t = "hook"
<1> DEFINE S == {i \in 1 .. Len(stack) : stack[i].t # "hook"}
<1>1. Len(stack) \in Nat /\ S \subseteq 0 .. Len(stack) /\ 1 \in S
  BY DEF Shape
<1>2. PICK x \in S : \A y \in S : x >= y
  BY <1>1, GreatestExists
<1>3. DOMAIN stack = 1 .. Len(stack)
  BY DEF Shape
<1>4. \A j \in x + 1 .. Len(stack) : stack[j].t = "hook"
  BY <1>1, <1>2
<1>5. \E i \in DOMAIN stack : /\ stack[i].t # "hook"
                              /\ \A j \in i + 1 .. Len(stack) : stack[j].t = "hook"
  BY <1>2, <1>3, <1>4
<1> QED
  BY <1>3, <1>5 DEF Running

\* A call that runs has nothing on it but its own hook.
LEMMA TopCall ==
  ASSUME Shape(stack), InCall
  PROVE  /\ Running \in 2 .. Len(stack) /\ call.t = "call" /\ Frame(stack, Running)
         /\ call \in Item
         /\ Len(stack) = IF call.xsub THEN Running + 1 ELSE Running
         /\ HasHook(stack, call.e)
<1>1. /\ Running \in 1 .. Len(stack) /\ stack[Running].t = "call" /\ Len(stack) \in Nat
      /\ \A j \in Running + 1 .. Len(stack) : stack[j].t = "hook"
      /\ stack[1].t = "block"
  BY RunningSpec DEF InCall, Shape
<1>2. Frame(stack, Running) /\ stack[Running] \in Item
  BY <1>1 DEF Shape
<1>3. Running \in 2 .. Len(stack)
  BY <1>1
<1>4. CASE call.xsub
  <2>1. Running + 1 <= Len(stack) /\ stack[Running + 1].t = "hook" /\ stack[Running + 1].e = call.e
        /\ (Running + 2 <= Len(stack) => stack[Running + 2].t = "block")
    BY <1>2, <1>4 DEF Frame, call
  <2> QED
    BY <1>1, <1>2, <1>3, <1>4, <2>1 DEF HasHook, call
<1>5. CASE ~call.xsub
  <2>1. stack[Running - 1].t = "hook" /\ stack[Running - 1].e = call.e
        /\ (Running + 1 <= Len(stack) => stack[Running + 1].t = "block")
    BY <1>2, <1>5 DEF Frame, call
  <2> QED
    BY <1>1, <1>2, <1>3, <1>5, <2>1 DEF HasHook, call
<1> QED
  BY <1>4, <1>5

\* Cutting a stack leaves the frames below whole unless it cuts an XSUB's call
\* from its hook.
LEMMA CutShape ==
  ASSUME NEW s, Shape(s), NEW k \in 1 .. Len(s), ~(s[k].t = "call" /\ s[k].xsub)
  PROVE  LET c == SubSeq(s, 1, k)
         IN  Shape(c) /\ Len(c) = k /\ \A i \in 1 .. k : c[i] = s[i]
<1> DEFINE c == SubSeq(s, 1, k)
<1>1. c \in Seq(Item) /\ Len(c) = k /\ \A i \in 1 .. k : c[i] = s[i]
  BY DEF Shape
<1> HIDE DEF c
<1>2. ASSUME NEW i \in 1 .. Len(c), c[i].t = "call" PROVE Frame(c, i)
  <2>1. Frame(s, i) /\ c[i] = s[i] /\ i \in 1 .. k
    BY <1>1, <1>2 DEF Shape
  <2>2. CASE s[i].xsub
    <3>1. i # k
      BY <1>2, <2>1, <2>2
    <3> QED
      BY <1>1, <2>1, <2>2, <3>1 DEF Frame
  <2>3. CASE ~s[i].xsub
    BY <1>1, <2>1, <2>3 DEF Frame
  <2> QED
    BY <2>2, <2>3
<1>3. \A i, j \in 1 .. Len(c) : c[i].t = "hook" /\ c[j].t = "hook" /\ c[i].e = c[j].e => i = j
  BY <1>1 DEF Shape
<1>4. Len(c) >= 1 /\ c[1].t = "block"
  BY <1>1 DEF Shape
<1> QED
  BY <1>1, <1>2, <1>3, <1>4 DEF Shape, c

\* Two calls have two structs: the frames of a struct's two calls would have two
\* hooks, or meet without a perl scope between them.
LEMMA ShapeExclusive ==
  ASSUME NEW s, Shape(s), NEW i \in 1 .. Len(s), NEW j \in 1 .. Len(s),
         s[i].t = "call", s[j].t = "call", s[i].e = s[j].e
  PROVE  i = j
<1>1. Frame(s, i) /\ Frame(s, j) /\ Len(s) \in Nat
  BY DEF Shape
<1> DEFINE h(x) == IF s[x].xsub THEN x + 1 ELSE x - 1
<1>2. h(i) \in 1 .. Len(s) /\ s[h(i)].t = "hook" /\ s[h(i)].e = s[i].e
  BY <1>1 DEF Frame
<1>3. h(j) \in 1 .. Len(s) /\ s[h(j)].t = "hook" /\ s[h(j)].e = s[j].e
  BY <1>1 DEF Frame
<1>4. h(i) = h(j)
  <2> HIDE DEF h
  <2> QED
    BY <1>2, <1>3 DEF Shape
<1>5. CASE s[i].xsub /\ ~s[j].xsub
  BY <1>1, <1>4, <1>5 DEF Frame
<1>6. CASE ~s[i].xsub /\ s[j].xsub
  BY <1>1, <1>4, <1>6 DEF Frame
<1> QED
  BY <1>4, <1>5, <1>6

\* Every call's struct has a hook.
LEMMA CallHasHook ==
  ASSUME NEW s, Shape(s), NEW i \in 1 .. Len(s), s[i].t = "call"
  PROVE  HasHook(s, s[i].e) /\ s[i].e \in Encoders
<1>1. Frame(s, i) /\ Len(s) \in Nat /\ s[i] \in Item
  BY DEF Shape
<1>2. CASE s[i].xsub
  <2>1. i + 1 \in 1 .. Len(s)
    BY <1>1, <1>2 DEF Frame
  <2> QED
    BY <1>1, <1>2, <2>1 DEF Frame, HasHook, Item
<1>3. CASE ~s[i].xsub
  <2>1. i - 1 \in 1 .. Len(s)
    BY <1>1, <1>3 DEF Frame
  <2> QED
    BY <1>1, <1>3, <2>1 DEF Frame, HasHook, Item
<1> QED
  BY <1>2, <1>3

-----------------------------------------------------------------------------
(* Steps on structs and stack *)

\* Leaving scopes: the hooks that run are those of the structs whose calls, if
\* they have one, are left too.
LEMMA CutSound ==
  ASSUME NEW en, NEW s, Sound(en, s), NEW k \in 1 .. Len(s), ~(s[k].t = "call" /\ s[k].xsub),
         NEW cut, cut = [e \in Encoders |->
                           IF HookAbove(s, k, e) THEN srl_destructor_hook(en[e]) ELSE en[e]]
  PROVE  Sound(cut, SubSeq(s, 1, k))
<1> DEFINE c == SubSeq(s, 1, k)
<1>1. Shape(c) /\ Len(c) = k /\ (\A i \in 1 .. k : c[i] = s[i]) /\ Len(s) \in Nat
  <2>1. Shape(s)
    BY DEF Sound
  <2>2. Len(s) \in Nat
    BY <2>1 DEF Shape
  <2> QED
    BY <2>1, <2>2, CutShape
<1> HIDE DEF c
<1>2. \A e \in Encoders : /\ HookAbove(s, k, e) => cut[e] = srl_destructor_hook(en[e])
                          /\ ~HookAbove(s, k, e) => cut[e] = en[e]
  OBVIOUS
<1>3. ASSUME NEW e \in Encoders, HookAbove(s, k, e) PROVE HasHook(s, e) /\ ~HasHook(c, e)
  <2>1. PICK i \in k + 1 .. Len(s) : s[i].t = "hook" /\ s[i].e = e
    BY <1>3 DEF HookAbove
  <2>2. i \in 1 .. Len(s) /\ i > k
    BY <1>1
  <2>3. ASSUME NEW j \in 1 .. k, c[j].t = "hook", c[j].e = e PROVE FALSE
    <3>1. j \in 1 .. Len(s) /\ s[j].t = "hook" /\ s[j].e = e
      BY <1>1, <2>3
    <3>2. i = j
      BY <2>1, <2>2, <3>1 DEF Sound, Shape
    <3> QED
      BY <2>2, <3>2
  <2> QED
    BY <1>1, <2>1, <2>2, <2>3 DEF HasHook
<1>4. \A e \in Encoders : ~HookAbove(s, k, e) => (HasHook(s, e) <=> HasHook(c, e))
  BY <1>1 DEF HasHook, HookAbove
<1>5. ASSUME NEW e \in Encoders
      PROVE  cut[e] \in Encoder /\ Owned(cut, c, e) /\ (~cut[e].dirty => Clean(cut[e]))
  <2>1. en[e] \in Encoder /\ Owned(en, s, e) /\ (~en[e].dirty => Clean(en[e]))
    BY DEF Sound
  <2>2. CASE HookAbove(s, k, e)
    <3>0. cut[e] = srl_destructor_hook(en[e]) /\ HasHook(s, e) /\ ~HasHook(c, e)
      BY <1>2, <1>3, <2>2
    <3>1. en[e].dirty /\ en[e].live
      BY <2>1, <3>0 DEF Owned
    <3>2. CASE e = User
      BY <2>1, <3>0, <3>1, <3>2, HookFacts DEF Owned, Clean
    <3>3. CASE e # User
      BY <2>1, <3>0, <3>1, <3>3, HookFacts, ZeroedFacts DEF Owned, Clean
    <3> QED
      BY <3>2, <3>3
  <2>3. CASE ~HookAbove(s, k, e)
    BY <1>2, <1>4, <2>1, <2>3 DEF Owned
  <2> QED
    BY <2>2, <2>3
<1>6. ASSUME NEW i \in 1 .. Len(c), c[i].t = "call" PROVE Own(cut[c[i].e], c[i])
  <2>1. c[i] = s[i] /\ i \in 1 .. Len(s) /\ Own(en[s[i].e], s[i])
    BY <1>1, <1>6 DEF Sound
  <2>2. HasHook(c, c[i].e) /\ c[i].e \in Encoders
    BY <1>1, <1>6, CallHasHook
  <2>3. cut[c[i].e] = en[c[i].e]
    BY <1>2, <1>3, <2>2
  <2> QED
    BY <2>1, <2>3
<1>7. cut \in [Encoders -> Encoder]
  BY <1>5
<1> QED
  BY <1>1, <1>5, <1>6, <1>7 DEF Sound, c

\* A running call may change its own struct as long as what it puts in the
\* tables is its own.
LEMMA UpdateSound ==
  ASSUME Sound(enc, stack), InCall, NEW r \in Encoder,
         r.live = this.live, r.reuse = this.reuse, r.dirty = this.dirty, Own(r, call)
  PROVE  Sound([enc EXCEPT ![call.e] = r], stack)
<1> DEFINE en == [enc EXCEPT ![call.e] = r]
<1>1. /\ Running \in 1 .. Len(stack) /\ call.t = "call" /\ call.e \in Encoders
      /\ Shape(stack) /\ HasHook(stack, call.e)
  BY TopCall DEF Sound, Item
<1>2. /\ enc \in [Encoders -> Encoder] /\ \A e \in Encoders : Owned(enc, stack, e)
      /\ \A e \in Encoders : ~enc[e].dirty => Clean(enc[e])
  BY DEF Sound
<1>3. this.dirty /\ this.live
  BY <1>1, <1>2 DEF Owned, this
<1>4. /\ en \in [Encoders -> Encoder] /\ en[call.e] = r
      /\ \A e \in Encoders : e # call.e => en[e] = enc[e]
  BY <1>1, <1>2
<1> HIDE DEF en
<1>5. ASSUME NEW e \in Encoders PROVE Owned(en, stack, e) /\ (~en[e].dirty => Clean(en[e]))
  <2>1. CASE e = call.e
    BY <1>1, <1>2, <1>3, <1>4, <2>1 DEF Owned, this
  <2>2. CASE e # call.e
    BY <1>2, <1>4, <2>2 DEF Owned
  <2> QED
    BY <2>1, <2>2
<1>6. ASSUME NEW i \in 1 .. Len(stack), stack[i].t = "call" PROVE Own(en[stack[i].e], stack[i])
  <2>1. CASE i = Running
    BY <1>4, <2>1 DEF call
  <2>2. CASE i # Running
    <3>1. stack[i].e # call.e
      BY <1>1, <1>6, <2>2, ShapeExclusive DEF call
    <3>2. stack[i].e \in Encoders
      BY <1>1, <1>6, CallHasHook
    <3> QED
      BY <1>4, <1>6, <3>1, <3>2 DEF Sound
  <2> QED
    BY <2>1, <2>2
<1> QED
  BY <1>1, <1>4, <1>5, <1>6 DEF Sound, en

\* A perl scope may be entered at any time.
LEMMA PushBlockSound ==
  ASSUME NEW en, NEW s, Sound(en, s)
  PROVE  Sound(en, Append(s, Block))
<1> DEFINE c == Append(s, Block)
<1>1. Shape(s) /\ s \in Seq(Item) /\ Len(s) \in Nat /\ Len(s) >= 1 /\ s[1].t = "block"
  BY DEF Sound, Shape
<1>2. c \in Seq(Item) /\ Len(c) = Len(s) + 1 /\ (\A i \in 1 .. Len(s) : c[i] = s[i]) /\ c[Len(s) + 1] = Block
  BY <1>1, ItemFacts
<1> HIDE DEF c
<1>3. \A i \in 1 .. Len(c) : i \in 1 .. Len(s) \/ c[i].t = "block"
  BY <1>1, <1>2, ItemFacts
<1>4. ASSUME NEW i \in 1 .. Len(c), c[i].t = "call" PROVE Frame(c, i)
  <2>1. i \in 1 .. Len(s) /\ s[i].t = "call" /\ c[i] = s[i]
    BY <1>2, <1>3, <1>4
  <2>2. Frame(s, i)
    BY <1>1, <2>1 DEF Shape
  <2> QED
    BY <1>1, <1>2, <2>1, <2>2, ItemFacts DEF Frame
<1>5. \A i, j \in 1 .. Len(c) : c[i].t = "hook" /\ c[j].t = "hook" /\ c[i].e = c[j].e => i = j
  BY <1>1, <1>2, <1>3 DEF Shape
<1>6. Shape(c)
  BY <1>1, <1>2, <1>4, <1>5 DEF Shape
<1>7. \A e \in Encoders : HasHook(c, e) <=> HasHook(s, e)
  BY <1>1, <1>2, <1>3 DEF HasHook
<1>8. \A e \in Encoders : Owned(en, c, e)
  BY <1>7 DEF Sound, Owned
<1>9. \A i \in 1 .. Len(c) : c[i].t = "call" => Own(en[c[i].e], c[i])
  BY <1>2, <1>3 DEF Sound
<1> QED
  BY <1>6, <1>8, <1>9 DEF Sound, c

\* In perl code no call is on top: above each one there is a perl scope.
LEMMA InPerlCovered ==
  ASSUME Shape(stack), InPerl, NEW i \in 1 .. Len(stack), stack[i].t = "call"
  PROVE  IF stack[i].xsub THEN i + 2 <= Len(stack) ELSE i + 1 <= Len(stack)
<1>1. /\ Running \in 1 .. Len(stack) /\ stack[Running].t = "block" /\ Len(stack) \in Nat
      /\ \A j \in Running + 1 .. Len(stack) : stack[j].t = "hook"
  BY RunningSpec DEF InPerl, Shape
<1>2. i < Running
  BY <1>1
<1>3. Frame(stack, i)
  BY DEF Shape
<1> QED
  BY <1>1, <1>2, <1>3 DEF Frame

\* Above every call of the stack there is a perl scope.
Covered(s) == \A i \in 1 .. Len(s) : s[i].t = "call" =>
                IF s[i].xsub THEN i + 2 <= Len(s) ELSE i + 1 <= Len(s)

\* Stack c is stack s with a call at pn and its hook at ph on top.
Pushed(s, c, e, pn, ph) ==
  /\ c \in Seq(Item) /\ Len(c) = Len(s) + 2 /\ \A i \in 1 .. Len(s) : c[i] = s[i]
  /\ \/ pn = Len(s) + 1 /\ ph = Len(s) + 2
     \/ pn = Len(s) + 2 /\ ph = Len(s) + 1
  /\ c[pn].t = "call" /\ c[pn].e = e /\ (c[pn].xsub <=> pn < ph)
  /\ c[ph].t = "hook" /\ c[ph].e = e

\* The hooks of c are those of s and one for e, its calls those of s and pn.
OnlyNew(s, c, e, pn) ==
  /\ HasHook(c, e)
  /\ \A f \in Encoders : f # e => (HasHook(c, f) <=> HasHook(s, f))
  /\ \A i \in 1 .. Len(c) : c[i].t = "call" => i \in 1 .. Len(s) \/ i = pn

\* A call may be put on a stack that has no hook for its struct, and whose calls
\* are all covered by a perl scope.
LEMMA PushCallShape ==
  ASSUME NEW s, Shape(s), NEW e \in Encoders, ~HasHook(s, e),
         NEW c, NEW pn, NEW ph, Covered(s), Pushed(s, c, e, pn, ph)
  PROVE  Shape(c) /\ OnlyNew(s, c, e, pn)
<1> DEFINE n == Len(s)
<1>0. /\ c \in Seq(Item) /\ Len(c) = n + 2 /\ \A i \in 1 .. n : c[i] = s[i]
      /\ \/ pn = n + 1 /\ ph = n + 2
         \/ pn = n + 2 /\ ph = n + 1
      /\ c[pn].t = "call" /\ c[pn].e = e /\ (c[pn].xsub <=> pn < ph)
      /\ c[ph].t = "hook" /\ c[ph].e = e
  BY DEF Pushed
<1>1. /\ s \in Seq(Item) /\ n \in Nat /\ n >= 1 /\ s[1].t = "block"
      /\ pn \in 1 .. n + 2 /\ ph \in 1 .. n + 2
      /\ \A i \in 1 .. n + 2 : i \in 1 .. n \/ i = pn \/ i = ph
  BY <1>0 DEF Shape
<1>2. \A i \in 1 .. Len(c) : c[i].t = "call" => i \in 1 .. n \/ i = pn
  BY <1>0, <1>1
<1>3. ASSUME NEW i \in 1 .. Len(c), c[i].t = "call" PROVE Frame(c, i)
  <2>1. CASE i \in 1 .. n
    <3>1. Frame(s, i) /\ s[i].t = "call" /\ c[i] = s[i]
      BY <1>0, <1>3, <2>1 DEF Shape
    <3>2. IF s[i].xsub THEN i + 2 <= n ELSE i + 1 <= n
      BY <2>1, <3>1 DEF Covered
    <3>3. CASE s[i].xsub
      <4>1. i + 1 \in 1 .. n /\ i + 2 \in 1 .. n
        BY <1>1, <2>1, <3>2, <3>3
      <4> QED
        BY <1>0, <1>1, <3>1, <3>3, <4>1 DEF Frame
    <3>4. CASE ~s[i].xsub
      <4>1. i - 1 \in 1 .. n /\ i + 1 \in 1 .. n
        <5>1. i > 1
          BY <3>1, <3>4 DEF Frame
        <5> QED
          BY <1>1, <2>1, <3>2, <3>4, <5>1
      <4> QED
        BY <1>0, <1>1, <3>1, <3>4, <4>1 DEF Frame
    <3> QED
      BY <3>3, <3>4
  <2>2. CASE i \notin 1 .. n
    <3>1. i = pn
      BY <1>2, <1>3, <2>2
    <3> QED
      BY <1>0, <1>1, <3>1 DEF Frame
  <2> QED
    BY <2>1, <2>2
<1>4. ASSUME NEW i \in 1 .. Len(c), c[i].t = "hook", i # ph
      PROVE  i \in 1 .. n /\ c[i] = s[i] /\ c[i].e # e
  <2>1. i \in 1 .. n /\ c[i] = s[i]
    BY <1>0, <1>1, <1>4
  <2> QED
    BY <1>4, <2>1 DEF HasHook
<1>5. ASSUME NEW i \in 1 .. Len(c), NEW j \in 1 .. Len(c),
             c[i].t = "hook", c[j].t = "hook", c[i].e = c[j].e
      PROVE  i = j
  <2>1. CASE i = ph \/ j = ph
    BY <1>0, <1>4, <1>5, <2>1
  <2>2. CASE i # ph /\ j # ph
    <3>1. i \in 1 .. n /\ j \in 1 .. n /\ c[i] = s[i] /\ c[j] = s[j]
      BY <1>4, <1>5, <2>2
    <3> QED
      BY <1>5, <3>1 DEF Shape
  <2> QED
    BY <2>1, <2>2
<1>6. Len(c) >= 1 /\ c[1].t = "block"
  BY <1>0, <1>1
<1>7. Shape(c)
  BY <1>0, <1>3, <1>5, <1>6 DEF Shape
<1>8. HasHook(c, e)
  <2>1. ph \in 1 .. Len(c)
    BY <1>0, <1>1
  <2> QED
    BY <1>0, <2>1 DEF HasHook
<1>9. ASSUME NEW f \in Encoders, f # e PROVE HasHook(c, f) <=> HasHook(s, f)
  <2>1. HasHook(c, f) => HasHook(s, f)
    BY <1>0, <1>4, <1>9 DEF HasHook
  <2>2. HasHook(s, f) => HasHook(c, f)
    BY <1>0, <1>1 DEF HasHook
  <2> QED
    BY <2>1, <2>2
<1> QED
  BY <1>2, <1>7, <1>8, <1>9 DEF OnlyNew

\* A new call's struct is not in use, and its hook is the struct's only one.
LEMMA PrepareSound ==
  ASSUME Sound(enc, stack), InPerl, object = "held", NEW e \in Encoders, NEW id \in Nat, NEW phase \in Parts,
         NEW xsub \in BOOLEAN, Chosen(e),
         NEW new, new = [t |-> "call", e |-> e, id |-> id, phase |-> phase, xsub |-> xsub],
         NEW c, c = stack \o (IF xsub THEN <<new, Hook(e)>> ELSE <<Hook(e), new>>)
  PROVE  Sound([enc EXCEPT ![e] = InUse(IF e = User THEN @ ELSE srl_build_encoder_struct_alike)], c)
<1> DEFINE r == InUse(IF e = User THEN enc[e] ELSE srl_build_encoder_struct_alike)
           en == [enc EXCEPT ![e] = r]
           n == Len(stack)
<1>1. /\ enc \in [Encoders -> Encoder] /\ Shape(stack)
      /\ \A f \in Encoders : Owned(enc, stack, f) /\ (~enc[f].dirty => Clean(enc[f]))
  BY DEF Sound
<1>2. ~enc[e].dirty /\ ~HasHook(stack, e)
  <2>1. CASE enc[User].dirty
    <3>1. ~enc[e].live
      BY <2>1 DEF Chosen
    <3> QED
      BY <1>1, <3>1, ZeroedFacts DEF Owned
  <2>2. CASE ~enc[User].dirty
    <3>1. e = User
      BY <2>2 DEF Chosen
    <3> QED
      BY <1>1, <2>2, <3>1 DEF Owned
  <2> QED
    BY <2>1, <2>2
<1>3. r \in Encoder /\ r.dirty /\ r.live /\ (r.reuse <=> e = User) /\ Clean(r)
  <2>1. CASE e = User
    <3>1. enc[e] \in Encoder /\ r = [enc[e] EXCEPT !.dirty = TRUE] /\ Clean(enc[e]) /\ Owned(enc, stack, e)
      BY <1>1, <1>2, <2>1 DEF InUse
    <3> HIDE DEF r
    <3> QED
      BY <2>1, <3>1 DEF Encoder, Clean, Owned
  <2>2. CASE e # User
    <3>1. r = [[Zeroed EXCEPT !.live = TRUE] EXCEPT !.dirty = TRUE]
      BY <2>2 DEF InUse, srl_build_encoder_struct_alike
    <3> HIDE DEF r
    <3> QED
      BY <2>2, <3>1, ZeroedFacts DEF Encoder, Clean
  <2> QED
    BY <2>1, <2>2
<1> HIDE DEF r
<1>4. en \in [Encoders -> Encoder] /\ en[e] = r /\ \A f \in Encoders : f # e => en[f] = enc[f]
  BY <1>1, <1>3
<1>5. new \in Item /\ new.t = "call" /\ new.e = e /\ new.xsub = xsub
  BY DEF Item
<1>6. Hook(e) \in Item /\ Hook(e).t = "hook" /\ Hook(e).e = e
  BY ItemFacts
<1>7. stack \in Seq(Item) /\ n \in Nat /\ n >= 1 /\ stack[1].t = "block"
  BY <1>1 DEF Shape
<1>8. /\ c \in Seq(Item) /\ Len(c) = n + 2
      /\ \A i \in 1 .. n : c[i] = stack[i]
      /\ xsub => c[n + 1] = new /\ c[n + 2] = Hook(e)
      /\ ~xsub => c[n + 1] = Hook(e) /\ c[n + 2] = new
  BY <1>5, <1>6, <1>7
<1> DEFINE pn == IF xsub THEN n + 1 ELSE n + 2
           ph == IF xsub THEN n + 2 ELSE n + 1
<1>9. /\ c[pn] = new /\ c[ph] = Hook(e) /\ (xsub <=> pn < ph)
      /\ \/ pn = n + 1 /\ ph = n + 2
         \/ pn = n + 2 /\ ph = n + 1
  BY <1>7, <1>8
<1>10. Covered(stack)
  BY <1>1, InPerlCovered DEF Covered
<1> HIDE DEF pn, ph
<1>11. /\ Shape(c) /\ HasHook(c, e)
       /\ \A f \in Encoders : f # e => (HasHook(c, f) <=> HasHook(stack, f))
       /\ \A i \in 1 .. Len(c) : c[i].t = "call" => i \in 1 .. n \/ i = pn
  <2>1. c[pn].t = "call" /\ c[pn].e = e /\ (c[pn].xsub <=> pn < ph) /\ c[ph].t = "hook" /\ c[ph].e = e
    BY <1>5, <1>6, <1>9
  <2>2. Pushed(stack, c, e, pn, ph)
    BY <1>8, <1>9, <2>1 DEF Pushed
  <2>3. Shape(stack) /\ ~HasHook(stack, e) /\ Covered(stack)
    BY <1>1, <1>2, <1>10
  <2>4. Shape(c) /\ OnlyNew(stack, c, e, pn)
    BY <2>2, <2>3, PushCallShape
  <2> QED
    BY <2>4 DEF OnlyNew
<1> HIDE DEF en
<1>12. ASSUME NEW f \in Encoders PROVE Owned(en, c, f) /\ (~en[f].dirty => Clean(en[f]))
  <2>1. CASE f = e
    BY <1>3, <1>4, <1>11, <2>1 DEF Owned
  <2>2. CASE f # e
    BY <1>1, <1>4, <1>11, <2>2 DEF Owned
  <2> QED
    BY <2>1, <2>2
<1>13. ASSUME NEW i \in 1 .. Len(c), c[i].t = "call" PROVE Own(en[c[i].e], c[i])
  <2>1. CASE i \in 1 .. n
    <3>1. stack[i].t = "call" /\ c[i] = stack[i] /\ Own(enc[stack[i].e], stack[i])
      BY <1>8, <1>13, <2>1 DEF Sound
    <3>2. HasHook(stack, stack[i].e) /\ stack[i].e \in Encoders
      BY <1>1, <2>1, <3>1, CallHasHook
    <3> QED
      BY <1>2, <1>4, <3>1, <3>2
  <2>2. CASE i \notin 1 .. n
    <3>1. c[i] = new
      BY <1>9, <1>11, <1>13, <2>2
    <3> QED
      BY <1>3, <1>4, <1>5, <3>1 DEF Own, Clean
  <2> QED
    BY <2>1, <2>2
<1>14. Sound(en, c)
  BY <1>4, <1>11, <1>12, <1>13 DEF Sound
<1> QED
  BY <1>14 DEF en, r

\* A running call whose tables are empty may go on to another part.
LEMMA PhaseSound ==
  ASSUME NEW en, Sound(en, stack), InCall, en[call.e].seen = Nobody, en[call.e].svhash = {}
  PROVE  Sound(en, [stack EXCEPT ![Running].phase = "body"])
<1> DEFINE c == [stack EXCEPT ![Running].phase = "body"]
<1>1. /\ Shape(stack) /\ Running \in 1 .. Len(stack) /\ call.t = "call"
      /\ stack \in Seq(Item) /\ Len(stack) \in Nat
  <2>1. Shape(stack)
    BY DEF Sound
  <2>2. Running \in 1 .. Len(stack) /\ call.t = "call"
    BY <2>1, TopCall
  <2> QED
    BY <2>1, <2>2 DEF Shape
<1> DEFINE b == [stack[Running] EXCEPT !.phase = "body"]
<1>0. /\ b \in Item /\ b.t = stack[Running].t /\ b.e = stack[Running].e /\ b.xsub = stack[Running].xsub
      /\ c = [stack EXCEPT ![Running] = b]
  <2>1. stack[Running] \in Item
    BY <1>1
  <2> QED
    BY <1>1, <2>1 DEF Item, Parts
<1> HIDE DEF b, c
<1>2. /\ c \in Seq(Item) /\ Len(c) = Len(stack)
      /\ \A i \in 1 .. Len(stack) :
           c[i].t = stack[i].t /\ c[i].e = stack[i].e /\ c[i].xsub = stack[i].xsub /\ (i # Running => c[i] = stack[i])
  BY <1>0, <1>1
<1>3. ASSUME NEW i \in 1 .. Len(c), c[i].t = "call" PROVE Frame(c, i)
  <2>1. Frame(stack, i)
    BY <1>1, <1>2, <1>3 DEF Shape
  <2> QED
    BY <1>1, <1>2, <2>1 DEF Frame
<1>4. Shape(c)
  <2>1. \A i, j \in 1 .. Len(c) : c[i].t = "hook" /\ c[j].t = "hook" /\ c[i].e = c[j].e => i = j
    BY <1>1, <1>2 DEF Shape
  <2>2. Len(c) >= 1 /\ c[1].t = "block"
    BY <1>1, <1>2 DEF Shape
  <2> QED
    BY <1>2, <1>3, <2>1, <2>2 DEF Shape
<1>5. \A e \in Encoders : HasHook(c, e) <=> HasHook(stack, e)
  BY <1>2 DEF HasHook
<1>6. \A e \in Encoders : Owned(en, c, e)
  BY <1>5 DEF Sound, Owned
<1>7. ASSUME NEW i \in 1 .. Len(c), c[i].t = "call" PROVE Own(en[c[i].e], c[i])
  <2>1. CASE i = Running
    BY <1>2, <2>1 DEF Own, call
  <2>2. CASE i # Running
    BY <1>2, <1>7, <2>2 DEF Sound
  <2> QED
    BY <2>1, <2>2
<1> QED
  BY <1>4, <1>6, <1>7 DEF Sound, c

-----------------------------------------------------------------------------
(* The invariant *)

LEMMA InitIInv == Init => IInv
<1> SUFFICES ASSUME Init PROVE IInv
  OBVIOUS
<1>1. /\ stack = <<Block>> /\ calls \in Nat /\ level \in Nat /\ object = "held"
      /\ enc = [e \in Encoders |-> IF e = User THEN [Zeroed EXCEPT !.live = TRUE, !.reuse = TRUE, !.compress_level = Level]
                                  ELSE Zeroed]
  BY LevelAssumption DEF Init
<1>2. stack \in Seq(Item) /\ Len(stack) = 1 /\ stack[1].t = "block"
  BY <1>1, ItemFacts
<1>3. Shape(stack) /\ \A e \in Encoders : ~HasHook(stack, e)
  BY <1>2 DEF Shape, HasHook
<1>4. ASSUME NEW e \in Encoders PROVE enc[e] \in Encoder /\ Owned(enc, stack, e) /\ Clean(enc[e])
  <2>1. CASE e = User
    <3>1. enc[e] = [Zeroed EXCEPT !.live = TRUE, !.reuse = TRUE, !.compress_level = Level]
      BY <1>1, <2>1
    <3> QED
      BY <1>1, <1>3, <2>1, <3>1, ZeroedFacts, LevelAssumption DEF Owned, Clean, Encoder
  <2>2. CASE e # User
    <3>1. enc[e] = Zeroed
      BY <1>1, <2>2
    <3> QED
      BY <1>3, <2>2, <3>1, ZeroedFacts DEF Owned, Clean
  <2> QED
    BY <2>1, <2>2
<1>5. enc \in [Encoders -> Encoder]
  <2>1. enc = [e \in Encoders |-> enc[e]]
    BY <1>1
  <2> QED
    BY <1>4, <2>1
<1>7. \A i \in 1 .. Len(stack) : stack[i].t = "call" => Own(enc[stack[i].e], stack[i])
  BY <1>2
<1> QED
  BY <1>1, <1>3, <1>4, <1>5, <1>7 DEF IInv, Sound

\* Scopes are left by cutting the stack at a place that splits no frame.
LEMMA LeaveSound ==
  ASSUME Sound(enc, stack), NEW k \in 1 .. Len(stack), ~(stack[k].t = "call" /\ stack[k].xsub), Leave(k)
  PROVE  Sound(enc', stack')
<1>1. enc' = [e \in Encoders |-> IF HookAbove(stack, k, e) THEN srl_destructor_hook(enc[e]) ELSE enc[e]]
  BY DEF Leave, Unwound, HookAbove
<1>2. stack' = SubSeq(stack, 1, k)
  BY DEF Leave
<1> QED
  BY <1>1, <1>2, CutSound

\* Every step of a call and every scope left keeps structs and stack in agreement.
LEMMA StepSound ==
  ASSUME Sound(enc, stack), calls \in Nat, level \in Nat, Steps
  PROVE  Sound(enc', stack') /\ calls' \in Nat /\ level' \in Nat
<1>0. Sound(enc, stack) /\ Shape(stack) /\ calls \in Nat /\ level \in Nat
      /\ enc \in [Encoders -> Encoder]
  BY DEF Sound
<1>1. CASE srl_prepare_encoder
  <2>1. InPerl /\ object = "held" /\ calls' = calls + 1 /\ level' = level
    BY <1>1 DEF srl_prepare_encoder
  <2>2. PICK e \in Encoders, phase \in Parts, xsub \in BOOLEAN :
          /\ Chosen(e)
          /\ enc' = [enc EXCEPT ![e] = InUse(IF e = User THEN @ ELSE srl_build_encoder_struct_alike)]
          /\ LET new == [t |-> "call", e |-> e, id |-> calls + 1, phase |-> phase, xsub |-> xsub]
             IN  stack' = stack \o (IF xsub THEN <<new, Hook(e)>> ELSE <<Hook(e), new>>)
    BY <1>1 DEF srl_prepare_encoder
  <2>3. calls + 1 \in Nat
    BY <1>0
  <2> QED
    BY <1>0, <2>1, <2>2, <2>3, PrepareSound
<1>2. CASE Enter
  <2>1. PICK remember \in BOOLEAN :
          enc' = [enc EXCEPT ![call.e].depth = @ + 1,
                             ![call.e].seen = IF remember THEN <<call.id, call.phase>> ELSE @]
    BY <1>2 DEF Enter
  <2>2. InCall /\ UNCHANGED <<stack, calls, level>>
    BY <1>2 DEF Enter
  <2> DEFINE m == IF remember THEN <<call.id, call.phase>> ELSE this.seen
             r == [this EXCEPT !.depth = @ + 1, !.seen = m]
  <2>3. call \in Item /\ call.e \in Encoders /\ this \in Encoder /\ Own(this, call)
    BY <1>0, <2>2, TopCall DEF Item, this, Sound, call
  <2>4. m \in Nat \X Parts /\ m \in {this.seen, <<call.id, call.phase>>}
    BY <2>3 DEF Item, Encoder
  <2>5. enc' = [enc EXCEPT ![call.e] = r]
    BY <1>0, <2>1, <2>3 DEF this
  <2> HIDE DEF m
  <2>6. r \in Encoder /\ r.live = this.live /\ r.reuse = this.reuse /\ r.dirty = this.dirty
        /\ r.svhash = this.svhash /\ r.seen = m
    BY <2>3, <2>4, EnterFacts
  <2> HIDE DEF r
  <2>7. Own(r, call)
    BY <2>3, <2>4, <2>6 DEF Own
  <2> QED
    BY <1>0, <2>2, <2>5, <2>6, <2>7, UpdateSound
<1>3. CASE Return
  <2>1. /\ InCall /\ this.depth > 1 /\ enc' = [enc EXCEPT ![call.e].depth = @ - 1]
        /\ UNCHANGED <<stack, calls, level>>
    BY <1>3 DEF Return
  <2> DEFINE r == [this EXCEPT !.depth = @ - 1]
  <2>2. call \in Item /\ call.e \in Encoders /\ this \in Encoder /\ Own(this, call)
    BY <1>0, <2>1, TopCall DEF Item, this, Sound, call
  <2>3. enc' = [enc EXCEPT ![call.e] = r]
    BY <1>0, <2>1, <2>2 DEF this
  <2>4. r \in Encoder /\ r.live = this.live /\ r.reuse = this.reuse /\ r.dirty = this.dirty
        /\ r.svhash = this.svhash /\ r.seen = this.seen
    BY <2>1, <2>2 DEF Encoder
  <2> HIDE DEF r
  <2>5. Own(r, call)
    BY <2>2, <2>4 DEF Own
  <2> QED
    BY <1>0, <2>1, <2>3, <2>4, <2>5, UpdateSound
<1>4. CASE srl_get_frozen_object
  <2>1. InCall /\ UNCHANGED <<calls, level>> /\ stack' = Append(stack, Block)
    BY <1>4 DEF srl_get_frozen_object
  <2>2. PICK o \in Objects : enc' = [enc EXCEPT ![call.e].svhash = @ \cup {<<call.id, call.phase, o>>}]
    BY <1>4 DEF srl_get_frozen_object
  <2> DEFINE f == <<call.id, call.phase, o>>
             r == [this EXCEPT !.svhash = @ \cup {f}]
  <2>3. call \in Item /\ call.e \in Encoders /\ this \in Encoder /\ Own(this, call)
    BY <1>0, <2>1, TopCall DEF Item, this, Sound, call
  <2>4. f \in Nat \X Parts \X Objects /\ <<f[1], f[2]>> = <<call.id, call.phase>>
    BY <2>3 DEF Item
  <2>5. enc' = [enc EXCEPT ![call.e] = r]
    BY <1>0, <2>2, <2>3 DEF this
  <2> HIDE DEF f
  <2>6. r \in Encoder /\ r.live = this.live /\ r.reuse = this.reuse /\ r.dirty = this.dirty
        /\ r.svhash = this.svhash \cup {f} /\ r.seen = this.seen
    BY <2>3, <2>4 DEF Encoder
  <2> HIDE DEF r
  <2>7. Own(r, call)
    BY <2>3, <2>4, <2>6 DEF Own
  <2>8. Sound(enc', stack)
    BY <1>0, <2>1, <2>5, <2>6, <2>7, UpdateSound
  <2> QED
    BY <1>0, <2>1, <2>8, PushBlockSound
<1>5. CASE FreezeReturns
  <2>1. Leave(Running - 1) /\ UNCHANGED <<calls, level>> /\ stack[Running].t = "block" /\ Running > 1
    BY <1>5 DEF FreezeReturns, InPerl
  <2>2. Running \in 1 .. Len(stack)
    BY <1>0, RunningSpec
  <2>3. Running - 1 \in 1 .. Len(stack) /\ Len(stack) \in Nat
    BY <1>0, <2>1, <2>2 DEF Shape
  <2>4. ~(stack[Running - 1].t = "call" /\ stack[Running - 1].xsub)
    BY <1>0, <2>1, <2>2, <2>3 DEF Shape, Frame
  <2> QED
    BY <1>0, <2>1, <2>3, <2>4, LeaveSound
<1>6. CASE WriteHeaderEnds
  <2> DEFINE r == srl_clear_seen_hashes([this EXCEPT !.depth = 0])
  <2>1. /\ InCall /\ UNCHANGED <<calls, level>> /\ stack' = [stack EXCEPT ![Running].phase = "body"]
        /\ enc' = [enc EXCEPT ![call.e] = r]
    BY <1>6 DEF WriteHeaderEnds, this
  <2>2. call.e \in Encoders /\ this \in Encoder
    BY <1>0, <2>1, TopCall DEF Item, this
  <2>3. r \in Encoder /\ r.live = this.live /\ r.reuse = this.reuse /\ r.dirty = this.dirty
        /\ r.svhash = {} /\ r.seen = Nobody
    BY <2>2, ZeroedFacts DEF Encoder, srl_clear_seen_hashes
  <2> HIDE DEF r
  <2>4. Own(r, call)
    BY <2>3 DEF Own
  <2>5. Sound(enc', stack)
    BY <1>0, <2>1, <2>3, <2>4, UpdateSound
  <2>6. enc'[call.e] = r
    BY <1>0, <2>1, <2>2
  <2> QED
    BY <1>0, <2>1, <2>3, <2>5, <2>6, PhaseSound
<1>7. CASE srl_dump_data_structure
  <2> DEFINE r == [this EXCEPT !.depth = 0]
             done == [enc EXCEPT ![call.e] = r]
             k == Running - 1
  <2>1. /\ InCall /\ calls' = calls /\ level' = this.compress_level /\ stack' = SubSeq(stack, 1, k)
        /\ enc' = IF call.xsub THEN [done EXCEPT ![call.e] = srl_destructor_hook(@)] ELSE done
    BY <1>7 DEF srl_dump_data_structure, this
  <2>2. call.e \in Encoders /\ this \in Encoder /\ Own(this, call)
    BY <1>0, <2>1, TopCall DEF Item, this, Sound, call
  <2>3. r \in Encoder /\ r.live = this.live /\ r.reuse = this.reuse /\ r.dirty = this.dirty
        /\ r.svhash = this.svhash /\ r.seen = this.seen /\ this.compress_level \in Nat
    BY <2>2 DEF Encoder
  <2> HIDE DEF r
  <2>4. Own(r, call)
    BY <2>2, <2>3 DEF Own
  <2>5. Sound(done, stack) /\ done \in [Encoders -> Encoder]
    BY <1>0, <2>1, <2>2, <2>3, <2>4, UpdateSound
  <2> HIDE DEF done
  <2>6. /\ Running \in 2 .. Len(stack) /\ stack[Running].t = "call" /\ Frame(stack, Running) /\ Len(stack) \in Nat
        /\ Len(stack) = IF call.xsub THEN Running + 1 ELSE Running
    BY <1>0, <2>1, TopCall DEF call, Shape
  <2>7. k \in 1 .. Len(stack) /\ ~(stack[k].t = "call" /\ stack[k].xsub)
    BY <1>0, <2>6 DEF Shape, Frame
  <2>8. \A f \in Encoders : HookAbove(stack, k, f) <=> call.xsub /\ f = call.e
    BY <2>6 DEF HookAbove, Frame, call
  <2>9. enc' = [f \in Encoders |-> IF HookAbove(stack, k, f) THEN srl_destructor_hook(done[f]) ELSE done[f]]
    <3>1. CASE call.xsub
      <4>1. enc' = [done EXCEPT ![call.e] = srl_destructor_hook(done[call.e])]
        BY <2>1, <3>1
      <4> QED
        BY <2>2, <2>5, <2>8, <3>1, <4>1
    <3>2. CASE ~call.xsub
      BY <2>1, <2>5, <2>8, <3>2
    <3> QED
      BY <3>1, <3>2
  <2> HIDE DEF k
  <2> QED
    BY <1>0, <2>1, <2>3, <2>5, <2>7, <2>9, CutSound
<1>8. CASE Die
  <2>1. UNCHANGED <<calls, level>>
    BY <1>8 DEF Die
  <2>2. PICK k \in 1 .. Running - 1 : stack[k].t = "block" /\ Leave(k)
    BY <1>8 DEF Die
  <2>3. k \in 1 .. Len(stack)
    <3>1. Running \in 1 .. Len(stack) /\ Len(stack) \in Nat
      BY <1>0, RunningSpec DEF Shape
    <3> QED
      BY <3>1
  <2> QED
    BY <1>0, <2>1, <2>2, <2>3, LeaveSound
<1>9. CASE LeaveBlock
  <2>1. Leave(1) /\ UNCHANGED <<calls, level>>
    BY <1>9 DEF LeaveBlock
  <2>2. 1 \in 1 .. Len(stack) /\ stack[1].t = "block"
    BY <1>0 DEF Shape
  <2> QED
    BY <1>0, <2>1, <2>2, LeaveSound
<1> QED
  BY <1>1, <1>2, <1>3, <1>4, <1>5, <1>6, <1>7, <1>8, <1>9 DEF Steps

\* An object whose struct no call and no hook will use may be released.
LEMMA ReleaseSound ==
  ASSUME Sound(enc, stack), object = "held", ~HasHook(stack, User),
         enc' = [enc EXCEPT ![User] = Zeroed], stack' = stack, object' = "released"
  PROVE  Sound(enc, stack)'
<1>1. /\ enc \in [Encoders -> Encoder] /\ Shape(stack)
      /\ \A e \in Encoders : Owned(enc, stack, e) /\ (~enc[e].dirty => Clean(enc[e]))
  BY DEF Sound
<1>2. /\ enc' \in [Encoders -> Encoder] /\ enc'[User] = Zeroed
      /\ \A e \in Encoders : e # User => enc'[e] = enc[e]
  BY <1>1, UserAssumption, ZeroedFacts
<1>3. ASSUME NEW e \in Encoders
      PROVE  Owned(enc, stack, e)' /\ (~enc'[e].dirty => Clean(enc'[e]))
  <2>1. HasHook(stack, e)' <=> HasHook(stack, e)
    BY DEF HasHook
  <2>2. CASE e = User
    BY <1>2, <2>1, <2>2, ZeroedFacts DEF Owned, Clean
  <2>3. CASE e # User
    <3>1. Owned(enc, stack, e) /\ (~enc[e].dirty => Clean(enc[e])) /\ enc'[e] = enc[e]
      BY <1>1, <1>2, <2>3
    <3> QED
      BY <2>1, <2>3, <3>1 DEF Owned
  <2> QED
    BY <2>2, <2>3
<1>4. ASSUME NEW i \in 1 .. Len(stack), stack[i].t = "call" PROVE Own(enc'[stack[i].e], stack[i])
  <2>1. HasHook(stack, stack[i].e) /\ stack[i].e \in Encoders
    BY <1>1, <1>4, CallHasHook
  <2>2. enc'[stack[i].e] = enc[stack[i].e]
    BY <1>2, <2>1
  <2> QED
    BY <1>4, <2>2 DEF Sound
<1>5. Shape(stack)'
  BY <1>1 DEF Shape, Frame
<1> QED
  BY <1>2, <1>3, <1>4, <1>5 DEF Sound

\* Every step keeps structs and stack in agreement, but for an early release, after
\* which there are no more.
LEMMA NextIInv == IInv /\ [Next]_vars => IInv'
<1> SUFFICES ASSUME IInv, [Next]_vars PROVE IInv'
  OBVIOUS
<1>0. calls \in Nat /\ level \in Nat /\ object \in {"held", "released", "early"}
  BY DEF IInv
<1>1. CASE object # "early" /\ Steps /\ UNCHANGED object
  <2>1. Sound(enc', stack') /\ calls' \in Nat /\ level' \in Nat
    BY <1>0, <1>1, StepSound DEF IInv
  <2>2. Sound(enc, stack)'
    BY <1>1, <2>1 DEF Sound, Owned
  <2> QED
    BY <1>0, <1>1, <2>1, <2>2 DEF IInv
<1>2. CASE DESTROY
  <2>1. /\ object = "held" /\ enc' = [enc EXCEPT ![User] = Zeroed]
        /\ stack' = stack /\ calls' = calls /\ level' = level /\ object' \in {"early", "released"}
    BY <1>2 DEF DESTROY
  <2>2. Sound(enc, stack)
    BY <2>1 DEF IInv
  <2>3. CASE object' = "early"
    <3>1. PICK en : en = enc
      OBVIOUS
    <3>2. Sound(en, stack)
      BY <2>2, <3>1
    <3>3. Sound(en, stack)'
      BY <2>1, <2>3, <3>2 DEF Sound, Owned
    <3>4. Robbed(en)'
      BY <2>1, <3>1 DEF Robbed
    <3> QED
      BY <1>0, <2>1, <2>3, <3>3, <3>4 DEF IInv
  <2>4. CASE object' = "released"
    <3>1. ~HasHook(stack, User)
      <4>1. \A i \in DOMAIN stack : stack[i].t = "block" \/ stack[i].e # User
        BY <1>2, <2>4 DEF DESTROY
      <4>2. DOMAIN stack = 1 .. Len(stack)
        BY <2>2 DEF Sound, Shape
      <4> QED
        BY <4>1, <4>2 DEF HasHook
    <3>2. Sound(enc, stack)'
      BY <2>1, <2>2, <2>4, <3>1, ReleaseSound
    <3> QED
      BY <1>0, <2>1, <2>4, <3>2 DEF IInv
  <2> QED
    BY <2>1, <2>3, <2>4
<1>3. CASE Done \/ UNCHANGED vars
  BY <1>3 DEF Done, vars, IInv, Sound, Owned, Robbed
<1> QED
  BY <1>1, <1>2, <1>3 DEF Next

\* The structs and the stack agree in every state an object's encode calls reach.
THEOREM Invariance == Spec => []IInv
<1>1. Init => IInv
  BY InitIInv
<1>2. IInv /\ [Next]_vars => IInv'
  BY NextIInv
<1> QED
  BY <1>1, <1>2, PTL DEF Spec

-----------------------------------------------------------------------------
(* What follows *)

\* Before an early release the structs fit the stack; after it those fit that the
\* object's was taken from.
LEMMA Fitting ==
  ASSUME IInv
  PROVE  \E en : /\ Sound(en, stack)
                 /\ enc = en \/ (object = "early" /\ Robbed(en))
<1>1. CASE object = "early"
  BY <1>1 DEF IInv
<1>2. CASE object # "early"
  BY <1>2 DEF IInv
<1> QED
  BY <1>1, <1>2

\* A struct is what it is in en, or the object's and gone.
LEMMA FittingStructs ==
  ASSUME NEW en, Sound(en, stack), enc = en \/ (object = "early" /\ Robbed(en)), NEW e \in Encoders
  PROVE  /\ enc \in [Encoders -> Encoder]
         /\ enc[e] = en[e] \/ (object = "early" /\ e = User /\ enc[e] = Zeroed)
<1>1. en \in [Encoders -> Encoder]
  BY DEF Sound
<1>2. CASE enc = en
  BY <1>1, <1>2
<1>3. CASE object = "early" /\ enc = [en EXCEPT ![User] = Zeroed]
  BY <1>1, <1>3, ZeroedFacts, UserAssumption
<1> QED
  BY <1>2, <1>3 DEF Robbed

\* An encode call made while another is under way works on a struct of its own,
\* however deep FREEZE methods nest and whatever was abandoned before.
THEOREM EncoderExclusive == Spec => []ExclusiveUse
<1>1. IInv => ExclusiveUse
  <2> SUFFICES ASSUME IInv, NEW i \in Calls, NEW j \in Calls, stack[i].e = stack[j].e PROVE i = j
    BY DEF ExclusiveUse
  <2>1. Shape(stack)
    BY Fitting DEF Sound
  <2>2. DOMAIN stack = 1 .. Len(stack)
    BY <2>1 DEF Shape
  <2> QED
    BY <2>1, <2>2, ShapeExclusive DEF Calls
<1> QED
  BY <1>1, Invariance, PTL

\* srl_destructor_hook frees a clone once and only when no call uses it, never
\* the object's own encoder, and every clone has a hook that will free it; a struct
\* that a call or a hook has still to use is only ever freed by DESTROY, for the
\* object's own, and only when perl runs it under a call or a pending hook.
THEOREM EncoderNotDangling == Spec => []NoDanglingEncoder
<1>1. IInv => NoDanglingEncoder
  <2> SUFFICES ASSUME IInv PROVE NoDanglingEncoder
    OBVIOUS
  <2>1. PICK en : Sound(en, stack) /\ (enc = en \/ (object = "early" /\ Robbed(en)))
    BY Fitting
  <2>2. /\ Shape(stack) /\ DOMAIN stack = 1 .. Len(stack) /\ stack \in Seq(Item)
        /\ \A e \in Encoders : Owned(en, stack, e)
    BY <2>1 DEF Sound, Shape
  <2>3. object = "held" => enc[User].live
    BY <2>1, <2>2, UserAssumption DEF Owned
  <2>4. ASSUME NEW i \in Calls \cup Hooks
        PROVE  enc[stack[i].e].live \/ (object = "early" /\ stack[i].e = User)
    <3>1. i \in 1 .. Len(stack) /\ stack[i].e \in Encoders
      <4>1. i \in 1 .. Len(stack)
        BY <2>2 DEF Calls, Hooks
      <4>2. stack[i] \in Item
        BY <2>2, <4>1
      <4> QED
        BY <4>1, <4>2 DEF Item
    <3>2. HasHook(stack, stack[i].e)
      <4>1. CASE i \in Calls
        BY <2>2, <3>1, <4>1, CallHasHook DEF Calls
      <4>2. CASE i \in Hooks
        BY <3>1, <4>2 DEF Hooks, HasHook
      <4> QED
        BY <4>1, <4>2
    <3>3. en[stack[i].e].live
      BY <2>2, <3>1, <3>2 DEF Owned
    <3> QED
      BY <2>1, <3>1, <3>3, FittingStructs
  <2>5. ASSUME NEW e \in Encoders \ {User}, enc[e].live
        PROVE  Cardinality({i \in Hooks : stack[i].e = e}) = 1
    <3>0. en[e].live
      BY <2>1, <2>5, FittingStructs
    <3>1. HasHook(stack, e)
      BY <2>2, <2>5, <3>0 DEF Owned
    <3>2. PICK h \in 1 .. Len(stack) : stack[h].t = "hook" /\ stack[h].e = e
      BY <3>1 DEF HasHook
    <3>3. {i \in Hooks : stack[i].e = e} = {h}
      BY <2>2, <3>2 DEF Hooks, Shape
    <3> QED
      BY <3>3, FS_Singleton
  <2> QED
    BY <2>3, <2>4, <2>5 DEF NoDanglingEncoder
<1> QED
  BY <1>1, Invariance, PTL

\* While a call is under way the seen tables and freezeobj_svhash of its struct
\* hold nothing of another document and nothing of the user header.
THEOREM EncoderOwnEntries == Spec => []OnlyOwnEntries
<1>1. IInv => OnlyOwnEntries
  <2> SUFFICES ASSUME IInv, NEW i \in Calls PROVE Own(enc[stack[i].e], stack[i])
    BY DEF OnlyOwnEntries, Own
  <2>1. PICK en : Sound(en, stack) /\ (enc = en \/ (object = "early" /\ Robbed(en)))
    BY Fitting
  <2>2. Shape(stack) /\ i \in 1 .. Len(stack) /\ stack[i].t = "call"
    BY <2>1 DEF Sound, Shape, Calls
  <2>3. Own(en[stack[i].e], stack[i]) /\ stack[i].e \in Encoders
    BY <2>1, <2>2, CallHasHook DEF Sound
  <2>4. enc[stack[i].e] \in {en[stack[i].e], Zeroed}
    BY <2>1, <2>3, FittingStructs
  <2> QED
    BY <2>3, <2>4, ZeroedFacts DEF Own
<1> QED
  BY <1>1, Invariance, PTL

\* An encoder that is not DIRTY has no recursion depth and no table entry left,
\* even when the call before croaked or was nested.
THEOREM EncoderIdleClean == Spec => []IdleIsClean
<1>1. IInv => IdleIsClean
  <2> SUFFICES ASSUME IInv, NEW e \in Encoders, ~enc[e].dirty PROVE Clean(enc[e])
    BY DEF IdleIsClean, Clean
  <2>1. PICK en : Sound(en, stack) /\ (enc = en \/ (object = "early" /\ Robbed(en)))
    BY Fitting
  <2>2. enc[e] \in {en[e], Zeroed}
    BY <2>1, FittingStructs
  <2> QED
    BY <2>1, <2>2, ZeroedFacts DEF Sound, Clean
<1> QED
  BY <1>1, Invariance, PTL

\* The structs, the stack and the counters keep their types.
THEOREM EncoderTypes == Spec => []TypeOK
<1>1. IInv => TypeOK
  <2> SUFFICES ASSUME IInv PROVE TypeOK
    OBVIOUS
  <2>1. PICK en : Sound(en, stack) /\ (enc = en \/ (object = "early" /\ Robbed(en)))
    BY Fitting
  <2>2. enc \in [Encoders -> Encoder] /\ stack \in Seq(Item)
    BY <2>1, FittingStructs, UserAssumption DEF Sound, Shape
  <2> QED
    BY <2>2 DEF IInv, TypeOK
<1> QED
  BY <1>1, Invariance, PTL
=============================================================================
