----------------------- MODULE DecoderLifecycleProofs -----------------------
(* For any number of decoders, documents and calls, nested to any depth: no   *)
(* two decode calls share a struct, cleaning up neither frees what is in use  *)
(* nor leaks a clone, no call meets another document's offsets, no struct     *)
(* keeps its input, and a call reports the bytes of its own document.         *)
EXTENDS DecoderLifecycle, NatLemmas, FiniteSetTheorems, TLAPS

\* A call with its hook, and nothing but a perl scope above the two.
Frame(s, i) ==
  IF s[i].xsub
  THEN /\ i + 1 <= Len(s) /\ s[i + 1].t = "hook" /\ s[i + 1].d = s[i].d
       /\ i + 2 <= Len(s) => s[i + 2].t = "block"
  ELSE /\ i > 1 /\ s[i - 1].t = "hook" /\ s[i - 1].d = s[i].d
       /\ i + 1 <= Len(s) => s[i + 1].t = "block"

\* The call at c is what the perl scope at i was entered from.
Entered(s, i, c) ==
  /\ c \in 1 .. i - 1 /\ s[c].t = "call" /\ s[c].phase \in Parts
  /\ \/ c = i - 1
     \/ c = i - 2 /\ s[i - 1].t = "hook"

\* A stack as the calls build it.  The object's own decoder may have several
\* pending hooks, for it is free again when a call ends, but while it is in use
\* none above the call but the call's own.
Shape(s) ==
  /\ s \in Seq(Item) /\ Len(s) >= 1 /\ s[1] = Block
  /\ \A i \in 1 .. Len(s) : s[i].t = "call" => Frame(s, i)
  /\ \A i \in 2 .. Len(s) : s[i].t = "block" => \E c \in 1 .. i - 1 : Entered(s, i, c)
  /\ \A i, j \in 1 .. Len(s) :
       s[i].t = "hook" /\ s[j].t = "hook" /\ s[i].d = s[j].d /\ s[i].d # User => i = j
  /\ \A i, j \in 1 .. Len(s) :
       i < j /\ s[i].t = "call" /\ s[i].d = User /\ s[j].t = "hook" /\ s[j].d = User => j = i + 1
  /\ \A i, j \in 1 .. Len(s) : i < j /\ s[i].t = "call" /\ s[j].t = "call" => s[i].id < s[j].id

HasHook(s, d) == \E i \in 1 .. Len(s) : s[i].t = "hook" /\ s[i].d = d
HookAbove(s, k, d) == \E i \in k + 1 .. Len(s) : s[i].t = "hook" /\ s[i].d = d

\* A clone lives as long as its hook is pending, the object's decoder until the
\* object is released; entries are only kept together with a buffer, and a buffer
\* only while a hook is pending that clears it.
Owned(de, s, d) ==
  /\ de[d].live => (de[d].reuse <=> d = User)
  /\ de[d].live <=> IF d = User THEN object # "released" ELSE HasHook(s, d)
  /\ HasHook(s, d) => de[d].live
  /\ ~de[d].live => de[d] = Zeroed
  /\ de[d].loaded => de[d].dirty /\ HasHook(s, d)
  /\ de[d].seen # None => de[d].loaded
  /\ d = User /\ de[d].live => de[d].flags_readonly = ReadOnly

\* What call c, one of n so far, meets in its struct and in the object's, which is
\* there; the last call that was made finds its count or nothing.
Reads(de, c, n) ==
  /\ object # "released"
  /\ de[c.d].dirty /\ c.id <= n
  /\ c.phase \in Parts =>
       /\ de[c.d].loaded /\ de[c.d].seen \in {None, <<c.id, c.phase>>}
       /\ c.id = n => de[c.d].consumed = 0 \/ de[User].consumed = c.doc.len

\* The structs de, the stack s and the number n of calls fit each other.
Sound(de, s, n) ==
  /\ de \in [Decoders -> Decoder] /\ n \in Nat /\ Shape(s)
  /\ \A d \in Decoders : Owned(de, s, d)
  /\ \A i \in 1 .. Len(s) : s[i].t = "call" => Reads(de, s[i], n)

Results == [len : Nat, consumed : Nat, readonly : BOOLEAN, alone : BOOLEAN, own : BOOLEAN]

\* After an early release everything but the object's struct is as it was.
Robbed(de) == dec = [de EXCEPT ![User] = Zeroed]

IInv ==
  /\ ReportsOwnBytes /\ result \in Results /\ object \in {"held", "released", "early"}
  /\ object # "early" => Sound(dec, stack, calls)
  /\ object = "early" => \E de : Sound(de, stack, calls) /\ Robbed(de)

-----------------------------------------------------------------------------
(* Records *)

LEMMA ItemFacts ==
  /\ Block \in Item /\ Block.t = "block"
  /\ \A d \in Decoders : Hook(d) \in Item /\ Hook(d).t = "hook" /\ Hook(d).d = d
<1>1. AnyDoc \in Docs
  BY DocsAssumption DEF AnyDoc
<1> QED
  BY <1>1, UserAssumption DEF Block, Hook, Item, Parts

LEMMA ZeroedFacts ==
  /\ Zeroed \in Decoder /\ ~Zeroed.live /\ ~Zeroed.dirty /\ ~Zeroed.reuse /\ ~Zeroed.loaded
  /\ Zeroed.seen = None /\ None \in Nat \X Parts
BY DEF Zeroed, Decoder, None, Parts

\* What srl_clear_decoder leaves; a struct without a buffer stays as it is.
LEMMA ClearFacts ==
  ASSUME NEW r \in Decoder, r.seen # None => r.loaded
  PROVE  LET h == srl_clear_decoder(r)
         IN  /\ h \in Decoder /\ ~h.loaded /\ h.seen = None
             /\ h.reuse = r.reuse /\ h.live = r.live /\ h.flags_readonly = r.flags_readonly
             /\ h.consumed = r.consumed
<1>1. CASE r.loaded
  <2>1. srl_clear_decoder(r) = [r EXCEPT !.seen = None, !.dirty = FALSE, !.loaded = FALSE]
    BY <1>1 DEF srl_clear_decoder, srl_clear_decoder_body_state
  <2> QED
    BY <2>1, ZeroedFacts DEF Decoder
<1>2. CASE ~r.loaded
  BY <1>2 DEF srl_clear_decoder
<1> QED
  BY <1>1, <1>2

-----------------------------------------------------------------------------
(* The stack *)

\* There is a topmost block or call.
LEMMA RunningSpec ==
  ASSUME Shape(stack)
  PROVE  /\ Running \in 1 .. Len(stack) /\ stack[Running].t # "hook"
         /\ \A j \in Running + 1 .. Len(stack) : stack[j].t = "hook"
<1> DEFINE S == {i \in 1 .. Len(stack) : stack[i].t # "hook"}
<1>1. Len(stack) \in Nat /\ S \subseteq 0 .. Len(stack) /\ 1 \in S
  BY ItemFacts DEF Shape
<1>2. PICK x \in S : \A y \in S : x >= y
  BY <1>1, GreatestExists
<1>3. DOMAIN stack = 1 .. Len(stack)
  BY DEF Shape
<1>4. \A j \in x + 1 .. Len(stack) : stack[j].t = "hook"
  BY <1>1, <1>2
<1>5. \E i \in DOMAIN stack : /\ stack[i].t # "hook"
                              /\ \A j \in i + 1 .. Len(stack) : stack[j].t = "hook"
  BY <1>2, <1>3, <1>4
<1> QED
  BY <1>3, <1>5 DEF Running

\* A call that runs has nothing on it but its own hook.
LEMMA TopCall ==
  ASSUME Shape(stack), call.t = "call"
  PROVE  /\ Running \in 2 .. Len(stack) /\ Frame(stack, Running) /\ call \in Item
         /\ Len(stack) = IF call.xsub THEN Running + 1 ELSE Running
         /\ \A j \in Running + 1 .. Len(stack) : stack[j].t = "hook"
<1>1. /\ Running \in 1 .. Len(stack) /\ stack[Running].t = "call" /\ Len(stack) \in Nat
      /\ \A j \in Running + 1 .. Len(stack) : stack[j].t = "hook"
      /\ stack[1].t = "block"
  BY RunningSpec, ItemFacts DEF call, Shape
<1>2. Frame(stack, Running) /\ stack[Running] \in Item
  BY <1>1 DEF Shape
<1>3. Running \in 2 .. Len(stack)
  BY <1>1
<1>4. CASE call.xsub
  <2>1. Running + 1 <= Len(stack)
        /\ (Running + 2 <= Len(stack) => stack[Running + 2].t = "block")
    BY <1>2, <1>4 DEF Frame, call
  <2> QED
    BY <1>1, <1>2, <1>3, <1>4, <2>1 DEF call
<1>5. CASE ~call.xsub
  <2>1. Running + 1 <= Len(stack) => stack[Running + 1].t = "block"
    BY <1>2, <1>5 DEF Frame, call
  <2> QED
    BY <1>1, <1>2, <1>3, <1>5, <2>1 DEF call
<1> QED
  BY <1>4, <1>5

\* Where the hook of the call at i is.
HookOf(s, i) == IF s[i].xsub THEN i + 1 ELSE i - 1

LEMMA CallHook ==
  ASSUME NEW s, Shape(s), NEW i \in 1 .. Len(s), s[i].t = "call"
  PROVE  /\ HookOf(s, i) \in 1 .. Len(s) /\ s[HookOf(s, i)].t = "hook" /\ s[HookOf(s, i)].d = s[i].d
         /\ HasHook(s, s[i].d) /\ s[i].d \in Decoders
<1>1. Frame(s, i) /\ Len(s) \in Nat /\ s[i] \in Item
  BY DEF Shape
<1>2. HookOf(s, i) \in 1 .. Len(s) /\ s[HookOf(s, i)].t = "hook" /\ s[HookOf(s, i)].d = s[i].d
  BY <1>1 DEF Frame, HookOf
<1> QED
  BY <1>1, <1>2 DEF HasHook, Item

\* Two calls have two structs.  A clone's two calls would need two hooks, or meet
\* without a perl scope between them; the object's second one would have its
\* hook above the first.
LEMMA ShapeExclusive ==
  ASSUME NEW s, Shape(s), NEW i \in 1 .. Len(s), NEW j \in 1 .. Len(s),
         s[i].t = "call", s[j].t = "call", s[i].d = s[j].d
  PROVE  i = j
<1>1. ASSUME NEW a \in 1 .. Len(s), NEW b \in 1 .. Len(s), a < b,
             s[a].t = "call", s[b].t = "call", s[a].d = s[b].d
      PROVE  FALSE
  <2>1. Frame(s, a) /\ Frame(s, b) /\ Len(s) \in Nat
    BY <1>1 DEF Shape
  <2>2. HookOf(s, b) = a + 1
    <3>1. /\ HookOf(s, a) \in 1 .. Len(s) /\ s[HookOf(s, a)].t = "hook" /\ s[HookOf(s, a)].d = s[a].d
          /\ HookOf(s, b) \in 1 .. Len(s) /\ s[HookOf(s, b)].t = "hook" /\ s[HookOf(s, b)].d = s[b].d
      BY <1>1, CallHook
    <3>2. CASE s[a].d = User
      <4>1. HookOf(s, b) > a
        <5>1. HookOf(s, b) # a /\ HookOf(s, b) >= b - 1
          BY <1>1, <3>1 DEF HookOf
        <5> QED
          BY <1>1, <3>1, <5>1
      <4> QED
        BY <1>1, <3>1, <3>2, <4>1 DEF Shape
    <3>3. CASE s[a].d # User
      <4>1. HookOf(s, a) = HookOf(s, b)
        BY <1>1, <3>1, <3>3 DEF Shape
      <4> QED
        BY <1>1, <4>1 DEF HookOf
    <3> QED
      BY <3>2, <3>3
  <2>3. b = a + 2 /\ ~s[b].xsub
    BY <1>1, <2>2 DEF HookOf
  <2>4. s[a + 1].t = "hook"
    BY <2>1, <2>3 DEF Frame
  <2> QED
    BY <1>1, <2>1, <2>3, <2>4 DEF Frame
<1> QED
  BY <1>1

\* No hook above a cut that splits no frame is for the struct of a call below.
LEMMA CutSpares ==
  ASSUME NEW s, Shape(s), NEW k \in 1 .. Len(s), ~(s[k].t = "call" /\ s[k].xsub),
         NEW i \in 1 .. k, s[i].t = "call"
  PROVE  ~HookAbove(s, k, s[i].d)
<1>0. Len(s) \in Nat /\ i \in 1 .. Len(s) /\ Frame(s, i)
  BY DEF Shape
<1>1. /\ HookOf(s, i) \in 1 .. Len(s) /\ s[HookOf(s, i)].t = "hook" /\ s[HookOf(s, i)].d = s[i].d
  BY <1>0, CallHook
<1>2. HookOf(s, i) <= k
  BY <1>0 DEF HookOf
<1> SUFFICES ASSUME NEW j \in k + 1 .. Len(s), s[j].t = "hook", s[j].d = s[i].d PROVE FALSE
  BY DEF HookAbove
<1>3. j \in 1 .. Len(s) /\ j > k
  BY <1>0
<1>4. CASE s[i].d = User
  <2>1. j = i + 1
    BY <1>0, <1>3, <1>4 DEF Shape
  <2>2. i = k /\ ~s[i].xsub
    BY <1>3, <2>1
  <2> QED
    BY <1>0, <1>3, <2>1, <2>2 DEF Frame
<1>5. CASE s[i].d # User
  <2>1. j = HookOf(s, i)
    BY <1>1, <1>3, <1>5 DEF Shape
  <2> QED
    BY <1>2, <1>3, <2>1
<1> QED
  BY <1>4, <1>5

\* Cutting a stack leaves the frames below whole unless it cuts an XSUB's call
\* from its hook.
LEMMA CutShape ==
  ASSUME NEW s, Shape(s), NEW k \in 1 .. Len(s), ~(s[k].t = "call" /\ s[k].xsub)
  PROVE  LET c == SubSeq(s, 1, k)
         IN  Shape(c) /\ Len(c) = k /\ \A i \in 1 .. k : c[i] = s[i]
<1> DEFINE c == SubSeq(s, 1, k)
<1>1. c \in Seq(Item) /\ Len(c) = k /\ \A i \in 1 .. k : c[i] = s[i]
  BY DEF Shape
<1> HIDE DEF c
<1>0. Len(s) \in Nat /\ k \in Nat /\ k <= Len(s) /\ k >= 1
  BY DEF Shape
<1>2. ASSUME NEW i \in 1 .. Len(c), c[i].t = "call" PROVE Frame(c, i)
  <2>1. Frame(s, i) /\ c[i] = s[i] /\ i \in 1 .. k
    BY <1>1, <1>2 DEF Shape
  <2>2. CASE s[i].xsub
    <3>1. i # k
      BY <1>2, <2>1, <2>2
    <3> QED
      BY <1>1, <2>1, <2>2, <3>1 DEF Frame
  <2>3. CASE ~s[i].xsub
    BY <1>1, <2>1, <2>3 DEF Frame
  <2> QED
    BY <2>2, <2>3
<1>3. ASSUME NEW i \in 2 .. Len(c), c[i].t = "block" PROVE \E b \in 1 .. i - 1 : Entered(c, i, b)
  <2>1. i \in 2 .. Len(s) /\ s[i].t = "block"
    BY <1>0, <1>1, <1>3
  <2>2. PICK b \in 1 .. i - 1 : Entered(s, i, b)
    BY <2>1 DEF Shape
  <2>3. b \in 1 .. k /\ i - 1 \in 1 .. k
    BY <1>0, <1>1
  <2>4. Entered(c, i, b)
    BY <1>1, <2>2, <2>3 DEF Entered
  <2> QED
    BY <2>4
<1>4. \A i, j \in 1 .. Len(c) :
        c[i].t = "hook" /\ c[j].t = "hook" /\ c[i].d = c[j].d /\ c[i].d # User => i = j
  BY <1>0, <1>1 DEF Shape
<1>5. \A i, j \in 1 .. Len(c) :
        i < j /\ c[i].t = "call" /\ c[i].d = User /\ c[j].t = "hook" /\ c[j].d = User => j = i + 1
  BY <1>0, <1>1 DEF Shape
<1>6. \A i, j \in 1 .. Len(c) : i < j /\ c[i].t = "call" /\ c[j].t = "call" => c[i].id < c[j].id
  BY <1>0, <1>1 DEF Shape
<1>7. Len(c) >= 1 /\ c[1] = Block
  BY <1>0, <1>1 DEF Shape
<1> QED
  BY <1>1, <1>2, <1>3, <1>4, <1>5, <1>6, <1>7 DEF Shape, c

-----------------------------------------------------------------------------
(* Steps on structs and stack *)

\* Leaving scopes: the hooks that run are for structs no remaining call uses.
LEMMA CutSound ==
  ASSUME NEW de, NEW s, NEW n, Sound(de, s, n), NEW k \in 1 .. Len(s), ~(s[k].t = "call" /\ s[k].xsub),
         NEW cut, cut = [d \in Decoders |->
                           IF HookAbove(s, k, d) THEN srl_decoder_destructor_hook(de[d]) ELSE de[d]]
  PROVE  Sound(cut, SubSeq(s, 1, k), n)
<1> DEFINE c == SubSeq(s, 1, k)
<1>1. Shape(s) /\ Shape(c) /\ Len(c) = k /\ (\A i \in 1 .. k : c[i] = s[i]) /\ Len(s) \in Nat
  <2>1. Shape(s)
    BY DEF Sound
  <2>2. Len(s) \in Nat
    BY <2>1 DEF Shape
  <2> QED
    BY <2>1, <2>2, CutShape
<1> HIDE DEF c
<1>2. \A d \in Decoders : /\ HookAbove(s, k, d) => cut[d] = srl_decoder_destructor_hook(de[d])
                          /\ ~HookAbove(s, k, d) => cut[d] = de[d]
  OBVIOUS
<1>3. ASSUME NEW d \in Decoders \ {User}, HookAbove(s, k, d) PROVE ~HasHook(c, d)
  <2>1. PICK i \in k + 1 .. Len(s) : s[i].t = "hook" /\ s[i].d = d
    BY <1>3 DEF HookAbove
  <2>2. i \in 1 .. Len(s) /\ i > k
    BY <1>1
  <2>3. ASSUME NEW j \in 1 .. k, c[j].t = "hook", c[j].d = d PROVE FALSE
    <3>1. j \in 1 .. Len(s) /\ s[j].t = "hook" /\ s[j].d = d
      BY <1>1, <2>3
    <3>2. i = j
      BY <1>1, <1>3, <2>1, <2>2, <3>1 DEF Shape
    <3> QED
      BY <2>2, <3>2
  <2> QED
    BY <1>1, <2>3 DEF HasHook
<1>4. \A d \in Decoders : ~HookAbove(s, k, d) => (HasHook(s, d) <=> HasHook(c, d))
  BY <1>1 DEF HasHook, HookAbove
<1>5. ASSUME NEW d \in Decoders PROVE cut[d] \in Decoder /\ Owned(cut, c, d) /\ (d = User => cut[d].consumed = de[d].consumed)
  <2>1. de[d] \in Decoder /\ Owned(de, s, d)
    BY DEF Sound
  <2>0. HookAbove(s, k, d) => de[d].live
    <3>1. HookAbove(s, k, d) => HasHook(s, d)
      BY <1>1 DEF HookAbove, HasHook
    <3> QED
      BY <2>1, <3>1 DEF Owned
  <2>2. CASE HookAbove(s, k, d) /\ d = User
    <3>1. cut[d] = srl_clear_decoder(de[d])
      BY <1>2, <2>0, <2>1, <2>2 DEF Owned, srl_decoder_destructor_hook
    <3> QED
      BY <2>0, <2>1, <2>2, <3>1, ClearFacts DEF Owned
  <2>3. CASE HookAbove(s, k, d) /\ d # User
    <3>1. cut[d] = Zeroed /\ ~HasHook(c, d)
      BY <1>2, <1>3, <2>0, <2>1, <2>3 DEF Owned, srl_decoder_destructor_hook
    <3> QED
      BY <2>3, <3>1, ZeroedFacts DEF Owned
  <2>4. CASE ~HookAbove(s, k, d)
    BY <1>2, <1>4, <2>1, <2>4 DEF Owned
  <2> QED
    BY <2>2, <2>3, <2>4
<1>6. ASSUME NEW i \in 1 .. Len(c), c[i].t = "call" PROVE Reads(cut, c[i], n)
  <2>1. i \in 1 .. k /\ i \in 1 .. Len(s) /\ c[i] = s[i] /\ Reads(de, s[i], n)
    BY <1>1, <1>6 DEF Sound
  <2>2. ~HookAbove(s, k, c[i].d) /\ c[i].d \in Decoders
    BY <1>1, <1>6, <2>1, CutSpares, CallHook
  <2>3. cut[c[i].d] = de[c[i].d]
    BY <1>2, <2>2
  <2> QED
    BY <1>5, <2>1, <2>3, UserAssumption DEF Reads
<1>7. cut \in [Decoders -> Decoder]
  BY <1>5
<1> QED
  BY <1>1, <1>5, <1>6, <1>7 DEF Sound, c

\* The fields of a struct that a call does not change while it reads.
Kept(r, q) == /\ q.live = r.live /\ q.reuse = r.reuse /\ q.dirty = r.dirty
              /\ q.loaded = r.loaded /\ q.flags_readonly = r.flags_readonly

\* The call at p may change its own struct, and with it the object's count if no
\* call was made after it.
Updates(de, s, p, new) ==
  /\ new \in [Decoders -> Decoder]
  /\ \A d \in Decoders : Kept(de[d], new[d])
  /\ \A d \in Decoders \ {s[p].d} : new[d].seen = de[d].seen
  /\ \A d \in Decoders \ {s[p].d, User} : new[d] = de[d]
  /\ \/ \A d \in Decoders : new[d].consumed = de[d].consumed
     \/ \A j \in p + 1 .. Len(s) : s[j].t # "call"

LEMMA UpdateSound ==
  ASSUME NEW de, NEW s, NEW n, Sound(de, s, n), NEW p \in 1 .. Len(s), s[p].t = "call", s[p].phase \in Parts,
         NEW new, Updates(de, s, p, new), Reads(new, s[p], n)
  PROVE  Sound(new, s, n)
<1>1. /\ Shape(s) /\ Len(s) \in Nat /\ n \in Nat /\ s \in Seq(Item)
  BY DEF Sound, Shape
<1>2. s[p].d \in Decoders /\ HasHook(s, s[p].d)
  BY <1>1, CallHook
<1>3. ASSUME NEW d \in Decoders PROVE Owned(new, s, d)
  <2>1. Owned(de, s, d) /\ Kept(de[d], new[d])
    BY <1>3 DEF Sound, Updates
  <2>2. CASE d = s[p].d
    <3>1. de[d].live /\ new[d].loaded
      BY <1>2, <2>1, <2>2 DEF Owned, Reads
    <3> QED
      BY <2>1, <3>1 DEF Owned, Kept
  <2>3. CASE d = User /\ d # s[p].d
    <3>1. new[d].seen = de[d].seen /\ object # "released"
      BY <2>3 DEF Updates, Reads
    <3> QED
      BY <2>1, <2>3, <3>1 DEF Owned, Kept
  <2>4. CASE d # User /\ d # s[p].d
    <3>1. new[d] = de[d]
      BY <2>4 DEF Updates
    <3> QED
      BY <2>1, <3>1 DEF Owned
  <2> QED
    BY <2>2, <2>3, <2>4
<1>4. ASSUME NEW i \in 1 .. Len(s), s[i].t = "call" PROVE Reads(new, s[i], n)
  <2>1. CASE i = p
    BY <2>1
  <2>2. CASE i # p
    <3>1. s[i].d # s[p].d /\ s[i].d \in Decoders
      BY <1>1, <1>4, <2>2, ShapeExclusive, CallHook
    <3>2. /\ Reads(de, s[i], n) /\ Kept(de[s[i].d], new[s[i].d]) /\ new[s[i].d].seen = de[s[i].d].seen
      BY <1>4, <3>1 DEF Sound, Updates
    <3>3. CASE \A d \in Decoders : new[d].consumed = de[d].consumed
      BY <3>1, <3>2, <3>3, UserAssumption DEF Reads, Kept
    <3>4. CASE \A j \in p + 1 .. Len(s) : s[j].t # "call"
      <4>1. i < p
        BY <1>1, <1>4, <2>2, <3>4
      <4>2. s[i].id < s[p].id /\ s[p].id <= n /\ s[i].id \in Nat /\ s[p].id \in Nat
        <5>1. s[i].id < s[p].id
          BY <1>1, <1>4, <4>1 DEF Shape
        <5>2. s[p].id <= n
          BY DEF Reads
        <5>3. s[i] \in Item /\ s[p] \in Item
          BY <1>1, <1>4
        <5> QED
          BY <5>1, <5>2, <5>3 DEF Item
      <4>3. s[i].id # n
        BY <1>1, <4>2
      <4> QED
        BY <3>2, <4>3 DEF Reads, Kept
    <3> QED
      BY <3>3, <3>4 DEF Updates
  <2> QED
    BY <2>1, <2>2
<1> QED
  BY <1>1, <1>3, <1>4 DEF Sound, Updates

\* A struct that no call uses may be cleared.
LEMMA IdleSound ==
  ASSUME NEW de, NEW s, NEW n, Sound(de, s, n), NEW d \in Decoders,
         \A i \in 1 .. Len(s) : s[i].t = "call" => s[i].d # d
  PROVE  Sound([de EXCEPT ![d] = srl_clear_decoder(de[d])], s, n)
<1> DEFINE r == srl_clear_decoder(de[d])
           new == [de EXCEPT ![d] = r]
<1>1. de \in [Decoders -> Decoder] /\ Shape(s) /\ n \in Nat /\ (\A f \in Decoders : Owned(de, s, f))
  BY DEF Sound
<1>2. /\ r \in Decoder /\ ~r.loaded /\ r.seen = None
      /\ r.reuse = de[d].reuse /\ r.live = de[d].live /\ r.flags_readonly = de[d].flags_readonly
      /\ r.consumed = de[d].consumed
  BY <1>1, ClearFacts DEF Owned
<1>3. ~de[d].live => r = de[d]
  BY <1>1, ZeroedFacts DEF Owned, srl_clear_decoder
<1> HIDE DEF r
<1>4. new \in [Decoders -> Decoder] /\ new[d] = r /\ \A f \in Decoders : f # d => new[f] = de[f]
  BY <1>1, <1>2
<1> HIDE DEF new
<1>5. ASSUME NEW f \in Decoders PROVE Owned(new, s, f)
  <2>1. CASE f = d
    BY <1>1, <1>2, <1>3, <1>4, <2>1 DEF Owned
  <2>2. CASE f # d
    BY <1>1, <1>4, <2>2 DEF Owned
  <2> QED
    BY <2>1, <2>2
<1>6. ASSUME NEW i \in 1 .. Len(s), s[i].t = "call" PROVE Reads(new, s[i], n)
  <2>1. Reads(de, s[i], n) /\ s[i].d # d /\ s[i].d \in Decoders
    BY <1>1, <1>6, CallHook DEF Sound
  <2>2. new[s[i].d] = de[s[i].d] /\ new[User].consumed = de[User].consumed
    BY <1>2, <1>4, <2>1, UserAssumption
  <2> QED
    BY <2>1, <2>2 DEF Reads
<1> QED
  BY <1>1, <1>4, <1>5, <1>6 DEF Sound, new, r

\* A running call that reads may enter a perl scope, for THAW.
LEMMA PushBlockSound ==
  ASSUME Sound(dec, stack, calls), InCall(Parts)
  PROVE  Sound(dec, Append(stack, Block), calls)
<1> DEFINE c == Append(stack, Block)
           n == Len(stack)
<1>1. Shape(stack) /\ stack \in Seq(Item) /\ n \in Nat /\ n >= 1 /\ stack[1] = Block
  BY DEF Sound, Shape
<1>2. c \in Seq(Item) /\ Len(c) = n + 1 /\ (\A i \in 1 .. n : c[i] = stack[i]) /\ c[n + 1] = Block
  BY <1>1, ItemFacts
<1> HIDE DEF c
<1>3. \A i \in 1 .. Len(c) : i \in 1 .. n \/ (i = n + 1 /\ c[i].t = "block")
  BY <1>1, <1>2, ItemFacts
<1>4. ASSUME NEW i \in 1 .. Len(c), c[i].t = "call" PROVE Frame(c, i)
  <2>1. i \in 1 .. n /\ stack[i].t = "call" /\ c[i] = stack[i]
    BY <1>2, <1>3, <1>4
  <2>2. Frame(stack, i)
    BY <1>1, <2>1 DEF Shape
  <2> QED
    BY <1>1, <1>2, <2>1, <2>2, ItemFacts DEF Frame
<1>5. ASSUME NEW i \in 2 .. Len(c), c[i].t = "block" PROVE \E b \in 1 .. i - 1 : Entered(c, i, b)
  <2>1. CASE i \in 1 .. n
    <3>1. i \in 2 .. n /\ stack[i].t = "block"
      BY <1>1, <1>2, <1>5, <2>1
    <3>2. PICK b \in 1 .. i - 1 : Entered(stack, i, b)
      BY <1>1, <3>1 DEF Shape
    <3>3. b \in 1 .. n /\ i - 1 \in 1 .. n
      BY <1>1, <3>1
    <3>4. Entered(c, i, b)
      BY <1>2, <3>2, <3>3 DEF Entered
    <3> QED
      BY <3>4
  <2>2. CASE i \notin 1 .. n
    <3>1. i = n + 1
      BY <1>1, <1>2, <2>2
    <3>2. /\ Running \in 2 .. n /\ stack[Running].t = "call" /\ stack[Running].phase \in Parts
          /\ Frame(stack, Running) /\ n = IF stack[Running].xsub THEN Running + 1 ELSE Running
      BY <1>1, TopCall DEF InCall, call
    <3>3. Running \in 1 .. i - 1 /\ Running \in 1 .. n /\ n \in 1 .. n
      BY <1>1, <3>1, <3>2
    <3>4. Running = i - 1 \/ (Running = i - 2 /\ stack[n].t = "hook")
      BY <1>1, <3>1, <3>2 DEF Frame
    <3>5. Entered(c, i, Running)
      BY <1>1, <1>2, <3>1, <3>2, <3>3, <3>4 DEF Entered
    <3> QED
      BY <3>3, <3>5
  <2> QED
    BY <2>1, <2>2
<1>6. \A i \in 1 .. Len(c) : c[i].t # "block" => i \in 1 .. n /\ c[i] = stack[i]
  BY <1>2, <1>3
<1>7. \A i, j \in 1 .. Len(c) :
        c[i].t = "hook" /\ c[j].t = "hook" /\ c[i].d = c[j].d /\ c[i].d # User => i = j
  BY <1>1, <1>6 DEF Shape
<1>8. \A i, j \in 1 .. Len(c) :
        i < j /\ c[i].t = "call" /\ c[i].d = User /\ c[j].t = "hook" /\ c[j].d = User => j = i + 1
  BY <1>1, <1>6 DEF Shape
<1>9. \A i, j \in 1 .. Len(c) : i < j /\ c[i].t = "call" /\ c[j].t = "call" => c[i].id < c[j].id
  BY <1>1, <1>6 DEF Shape
<1>10. Len(c) >= 1 /\ c[1] = Block
  BY <1>1, <1>2
<1>11. Shape(c)
  BY <1>2, <1>4, <1>5, <1>7, <1>8, <1>9, <1>10 DEF Shape
<1>12. \A d \in Decoders : HasHook(c, d) <=> HasHook(stack, d)
  BY <1>1, <1>2, <1>6 DEF HasHook
<1>13. \A d \in Decoders : Owned(dec, c, d)
  BY <1>12 DEF Sound, Owned
<1>14. \A i \in 1 .. Len(c) : c[i].t = "call" => Reads(dec, c[i], calls)
  BY <1>6 DEF Sound
<1> QED
  BY <1>11, <1>13, <1>14 DEF Sound, c

\* A running call without entries may go on to the body.
LEMMA PhaseSound ==
  ASSUME NEW de, Sound(de, stack, calls), InCall(Parts), de[call.d].seen = None
  PROVE  Sound(de, [stack EXCEPT ![Running].phase = "body"], calls)
<1> DEFINE c == [stack EXCEPT ![Running].phase = "body"]
           b == [stack[Running] EXCEPT !.phase = "body"]
           n == Len(stack)
<1>1. /\ Shape(stack) /\ Running \in 2 .. n /\ call.t = "call" /\ call.phase \in Parts
      /\ stack \in Seq(Item) /\ n \in Nat /\ stack[Running] \in Item
  <2>1. Shape(stack) /\ call.t = "call" /\ call.phase \in Parts
    BY DEF Sound, InCall, call
  <2>2. Running \in 2 .. n /\ call \in Item
    BY <2>1, TopCall
  <2> QED
    BY <2>1, <2>2 DEF Shape, call
<1>0. /\ b \in Item /\ b.t = call.t /\ b.d = call.d /\ b.xsub = call.xsub /\ b.id = call.id
      /\ b.doc = call.doc /\ b.phase = "body" /\ c = [stack EXCEPT ![Running] = b]
  BY <1>1 DEF Item, Parts, call
<1> HIDE DEF b, c
<1>2. /\ c \in Seq(Item) /\ Len(c) = n /\ c[Running] = b
      /\ \A i \in 1 .. n : i # Running => c[i] = stack[i]
  BY <1>0, <1>1
<1>3. \A i \in 1 .. n : /\ c[i].t = stack[i].t /\ c[i].d = stack[i].d /\ c[i].xsub = stack[i].xsub
                        /\ c[i].id = stack[i].id
                        /\ stack[i].phase \in Parts => c[i].phase \in Parts
  BY <1>0, <1>1, <1>2 DEF call, Parts
<1>4. ASSUME NEW i \in 1 .. Len(c), c[i].t = "call" PROVE Frame(c, i)
  <2>1. Frame(stack, i)
    BY <1>1, <1>2, <1>3, <1>4 DEF Shape
  <2> QED
    BY <1>1, <1>2, <1>3, <2>1 DEF Frame
<1>5. ASSUME NEW i \in 2 .. Len(c), c[i].t = "block" PROVE \E a \in 1 .. i - 1 : Entered(c, i, a)
  <2>1. i \in 2 .. n /\ stack[i].t = "block"
    BY <1>1, <1>2, <1>3, <1>5
  <2>2. PICK a \in 1 .. i - 1 : Entered(stack, i, a)
    BY <1>1, <2>1 DEF Shape
  <2>3. a \in 1 .. n /\ i - 1 \in 1 .. n
    BY <1>1, <2>1
  <2>4. Entered(c, i, a)
    BY <1>3, <2>2, <2>3 DEF Entered
  <2> QED
    BY <2>4
<1>6. \A i, j \in 1 .. Len(c) :
        c[i].t = "hook" /\ c[j].t = "hook" /\ c[i].d = c[j].d /\ c[i].d # User => i = j
  BY <1>1, <1>2, <1>3 DEF Shape
<1>7. \A i, j \in 1 .. Len(c) :
        i < j /\ c[i].t = "call" /\ c[i].d = User /\ c[j].t = "hook" /\ c[j].d = User => j = i + 1
  BY <1>1, <1>2, <1>3 DEF Shape
<1>8. \A i, j \in 1 .. Len(c) : i < j /\ c[i].t = "call" /\ c[j].t = "call" => c[i].id < c[j].id
  BY <1>1, <1>2, <1>3 DEF Shape
<1>9. Len(c) >= 1 /\ c[1] = Block
  BY <1>1, <1>2 DEF Shape
<1>10. Shape(c)
  BY <1>2, <1>4, <1>5, <1>6, <1>7, <1>8, <1>9 DEF Shape
<1>11. \A d \in Decoders : HasHook(c, d) <=> HasHook(stack, d)
  BY <1>2, <1>3 DEF HasHook
<1>12. \A d \in Decoders : Owned(de, c, d)
  BY <1>11 DEF Sound, Owned
<1>13. ASSUME NEW i \in 1 .. Len(c), c[i].t = "call" PROVE Reads(de, c[i], calls)
  <2>1. Reads(de, stack[i], calls)
    BY <1>2, <1>3, <1>13 DEF Sound
  <2>2. CASE i = Running
    BY <1>0, <1>1, <1>2, <2>1, <2>2 DEF Reads, call
  <2>3. CASE i # Running
    BY <1>2, <2>1, <2>3
  <2> QED
    BY <2>2, <2>3
<1> QED
  BY <1>10, <1>12, <1>13 DEF Sound, c

\* Above every call of the stack there is a perl scope.
Covered(s) == \A i \in 1 .. Len(s) : s[i].t = "call" =>
                IF s[i].xsub THEN i + 2 <= Len(s) ELSE i + 1 <= Len(s)

\* Stack c is stack s with a call for d at pn and its hook at ph on top.
Pushed(s, c, d, pn, ph) ==
  /\ c \in Seq(Item) /\ Len(c) = Len(s) + 2 /\ \A i \in 1 .. Len(s) : c[i] = s[i]
  /\ \/ pn = Len(s) + 1 /\ ph = Len(s) + 2
     \/ pn = Len(s) + 2 /\ ph = Len(s) + 1
  /\ c[pn].t = "call" /\ c[pn].d = d /\ (c[pn].xsub <=> pn < ph)
  /\ c[ph].t = "hook" /\ c[ph].d = d

\* Struct d is in no call of s whose number is below id, and a clone has no hook.
Free(s, d, id) ==
  /\ \A i \in 1 .. Len(s) : s[i].t = "call" => s[i].d # d /\ s[i].id < id
  /\ d # User => ~HasHook(s, d)

\* The hooks of c are those of s and one for d, its calls those of s and pn.
OnlyNew(s, c, d, pn) ==
  /\ HasHook(c, d)
  /\ \A f \in Decoders : f # d => (HasHook(c, f) <=> HasHook(s, f))
  /\ \A i \in 1 .. Len(c) : c[i].t = "call" => i \in 1 .. Len(s) \/ i = pn

\* In perl code no call is on top.
LEMMA InPerlCovered ==
  ASSUME Shape(stack), InPerl
  PROVE  Covered(stack)
<1> SUFFICES ASSUME NEW i \in 1 .. Len(stack), stack[i].t = "call"
             PROVE  IF stack[i].xsub THEN i + 2 <= Len(stack) ELSE i + 1 <= Len(stack)
  BY DEF Covered
<1>1. /\ Running \in 1 .. Len(stack) /\ stack[Running].t = "block" /\ Len(stack) \in Nat
      /\ \A j \in Running + 1 .. Len(stack) : stack[j].t = "hook"
  BY RunningSpec DEF InPerl, Shape
<1>2. i < Running
  BY <1>1
<1>3. Frame(stack, i)
  BY DEF Shape
<1> QED
  BY <1>1, <1>2, <1>3 DEF Frame

\* A call may be put on a stack whose calls are all covered by a perl scope, for
\* a struct that is free.
LEMMA PushCallShape ==
  ASSUME NEW s, Shape(s), NEW d \in Decoders, NEW c, NEW pn, NEW ph,
         Covered(s), Pushed(s, c, d, pn, ph), Free(s, d, c[pn].id)
  PROVE  Shape(c) /\ OnlyNew(s, c, d, pn)
<1> DEFINE n == Len(s)
<1>0. /\ c \in Seq(Item) /\ Len(c) = n + 2 /\ \A i \in 1 .. n : c[i] = s[i]
      /\ \/ pn = n + 1 /\ ph = n + 2
         \/ pn = n + 2 /\ ph = n + 1
      /\ c[pn].t = "call" /\ c[pn].d = d /\ (c[pn].xsub <=> pn < ph)
      /\ c[ph].t = "hook" /\ c[ph].d = d
  BY DEF Pushed
<1>1. /\ s \in Seq(Item) /\ n \in Nat /\ n >= 1 /\ s[1] = Block
      /\ pn \in 1 .. n + 2 /\ ph \in 1 .. n + 2 /\ pn > n /\ ph > n
      /\ \A i \in 1 .. n + 2 : i \in 1 .. n \/ i = pn \/ i = ph
  BY <1>0 DEF Shape
<1>2. \A i \in 1 .. Len(c) : c[i].t = "call" => i \in 1 .. n \/ i = pn
  BY <1>0, <1>1
<1>3. \A i \in 1 .. Len(c) : c[i].t = "hook" => i \in 1 .. n \/ i = ph
  BY <1>0, <1>1
<1>4. ASSUME NEW i \in 1 .. Len(c), c[i].t = "call" PROVE Frame(c, i)
  <2>1. CASE i \in 1 .. n
    <3>1. Frame(s, i) /\ s[i].t = "call" /\ c[i] = s[i]
      BY <1>0, <1>4, <2>1 DEF Shape
    <3>2. IF s[i].xsub THEN i + 2 <= n ELSE i + 1 <= n
      BY <2>1, <3>1 DEF Covered
    <3>3. CASE s[i].xsub
      <4>1. i + 1 \in 1 .. n /\ i + 2 \in 1 .. n
        BY <1>1, <2>1, <3>2, <3>3
      <4> QED
        BY <1>0, <1>1, <3>1, <3>3, <4>1 DEF Frame
    <3>4. CASE ~s[i].xsub
      <4>1. i > 1
        BY <3>1, <3>4 DEF Frame
      <4>2. i - 1 \in 1 .. n /\ i + 1 \in 1 .. n
        BY <1>1, <2>1, <3>2, <3>4, <4>1
      <4> QED
        BY <1>0, <1>1, <3>1, <3>4, <4>2 DEF Frame
    <3> QED
      BY <3>3, <3>4
  <2>2. CASE i \notin 1 .. n
    <3>1. i = pn
      BY <1>2, <1>4, <2>2
    <3> QED
      BY <1>0, <1>1, <3>1 DEF Frame
  <2> QED
    BY <2>1, <2>2
<1>5. ASSUME NEW i \in 2 .. Len(c), c[i].t = "block" PROVE \E b \in 1 .. i - 1 : Entered(c, i, b)
  <2>1. i \in 2 .. n /\ s[i].t = "block"
    BY <1>0, <1>1, <1>5
  <2>2. PICK b \in 1 .. i - 1 : Entered(s, i, b)
    BY <2>1 DEF Shape
  <2>3. b \in 1 .. n /\ i - 1 \in 1 .. n
    BY <1>1, <2>1
  <2>4. Entered(c, i, b)
    BY <1>0, <2>2, <2>3 DEF Entered
  <2> QED
    BY <2>4
<1>6. ASSUME NEW i \in 1 .. Len(c), NEW j \in 1 .. Len(c),
             c[i].t = "hook", c[j].t = "hook", c[i].d = c[j].d, c[i].d # User
      PROVE  i = j
  <2>1. CASE i \in 1 .. n /\ j \in 1 .. n
    BY <1>0, <1>6, <2>1 DEF Shape
  <2>2. CASE i = ph /\ j = ph
    BY <2>2
  <2>3. ASSUME NEW h \in 1 .. n, c[h].t = "hook", c[h].d = d, d # User PROVE FALSE
    BY <1>0, <2>3 DEF Free, HasHook
  <2> QED
    BY <1>0, <1>3, <1>6, <2>1, <2>2, <2>3
<1>7. ASSUME NEW i \in 1 .. Len(c), NEW j \in 1 .. Len(c),
             i < j, c[i].t = "call", c[i].d = User, c[j].t = "hook", c[j].d = User
      PROVE  j = i + 1
  <2>1. CASE i = pn
    BY <1>0, <1>1, <1>3, <1>7, <2>1
  <2>2. CASE i \in 1 .. n /\ j \in 1 .. n
    BY <1>0, <1>7, <2>2 DEF Shape
  <2>3. CASE i \in 1 .. n /\ j = ph
    BY <1>0, <1>7, <2>3 DEF Free
  <2> QED
    BY <1>2, <1>3, <1>7, <2>1, <2>2, <2>3
<1>8. ASSUME NEW i \in 1 .. Len(c), NEW j \in 1 .. Len(c), i < j, c[i].t = "call", c[j].t = "call"
      PROVE  c[i].id < c[j].id
  <2>1. i \in 1 .. n
    BY <1>0, <1>1, <1>2, <1>8
  <2>2. CASE j \in 1 .. n
    BY <1>0, <1>8, <2>1, <2>2 DEF Shape
  <2>3. CASE j = pn
    BY <1>0, <1>8, <2>1, <2>3 DEF Free
  <2> QED
    BY <1>2, <1>8, <2>2, <2>3
<1>9. Len(c) >= 1 /\ c[1] = Block
  BY <1>0, <1>1
<1>10. Shape(c)
  BY <1>0, <1>4, <1>5, <1>6, <1>7, <1>8, <1>9 DEF Shape
<1>11. HasHook(c, d)
  <2>1. ph \in 1 .. Len(c)
    BY <1>0, <1>1
  <2> QED
    BY <1>0, <2>1 DEF HasHook
<1>12. ASSUME NEW f \in Decoders, f # d PROVE HasHook(c, f) <=> HasHook(s, f)
  <2>1. HasHook(c, f) => HasHook(s, f)
    BY <1>0, <1>3, <1>12 DEF HasHook
  <2>2. HasHook(s, f) => HasHook(c, f)
    BY <1>0, <1>1 DEF HasHook
  <2> QED
    BY <2>1, <2>2
<1> QED
  BY <1>2, <1>10, <1>11, <1>12 DEF OnlyNew

\* srl_begin_decoding takes a struct that is free, and starts from a clean one.
LEMMA BeginSound ==
  ASSUME Sound(dec, stack, calls), InPerl, object = "held", NEW d \in Decoders, NEW doc \in Docs,
         NEW only_header \in BOOLEAN, NEW xsub \in BOOLEAN, Chosen(d),
         srl_begin_decoding(d, doc, only_header, xsub)
  PROVE  Sound(dec', stack', calls + 1)
<1> DEFINE fresh == IF d = User THEN dec[d] ELSE srl_build_decoder_struct_alike(d)
           r == Start(fresh, doc)
           new == [t |-> "call", d |-> d, id |-> calls + 1, doc |-> doc,
                   phase |-> IF doc.bad \/ doc.len = 0 THEN "failed" ELSE "header",
                   only_header |-> only_header, xsub |-> xsub]
           n == Len(stack)
<1>1. /\ dec \in [Decoders -> Decoder] /\ Shape(stack) /\ calls \in Nat
      /\ \A f \in Decoders : Owned(dec, stack, f)
  BY DEF Sound
<1>2. /\ stack \in Seq(Item) /\ n \in Nat
      /\ dec' = [dec EXCEPT ![d] = r]
      /\ stack' = stack \o (IF xsub THEN <<new, Hook(d)>> ELSE <<Hook(d), new>>)
  BY <1>1 DEF srl_begin_decoding, Shape
<1>3. /\ fresh \in Decoder /\ ~fresh.loaded /\ fresh.seen = None /\ fresh.live
      /\ (fresh.reuse <=> d = User) /\ (d = User => fresh.flags_readonly = ReadOnly)
  <2>1. CASE d = User
    <3>1. ~dec[User].dirty
      BY <2>1, ZeroedFacts, <1>1, UserAssumption DEF Chosen, Owned
    <3> QED
      BY <1>1, <2>1, <3>1 DEF Owned
  <2>2. CASE d # User
    <3>1. fresh = [Zeroed EXCEPT !.live = TRUE]
      BY <2>2 DEF srl_build_decoder_struct_alike
    <3> QED
      BY <2>2, <3>1, ZeroedFacts DEF Decoder
  <2> QED
    BY <2>1, <2>2
<1>4. Free(stack, d, calls + 1)
  <2>1. ~dec[d].dirty /\ (d # User => ~dec[d].live)
    <3>1. CASE dec[User].dirty
      BY <1>1, <3>1, ZeroedFacts DEF Chosen, Owned
    <3>2. CASE ~dec[User].dirty
      BY <3>2 DEF Chosen
    <3> QED
      BY <3>1, <3>2
  <2>2. ASSUME NEW i \in 1 .. n, stack[i].t = "call" PROVE stack[i].d # d /\ stack[i].id < calls + 1
    <3>1. Reads(dec, stack[i], calls) /\ stack[i] \in Item
      BY <1>2, <2>2 DEF Sound
    <3>2. stack[i].id \in Nat /\ stack[i].id <= calls /\ dec[stack[i].d].dirty
      BY <3>1 DEF Item, Reads
    <3> QED
      BY <1>1, <2>1, <3>2
  <2>3. d # User => ~HasHook(stack, d)
    BY <1>1, <2>1 DEF Owned
  <2> QED
    BY <2>2, <2>3 DEF Free
<1>5. /\ new \in Item /\ new.t = "call" /\ new.d = d /\ new.xsub = xsub /\ new.id = calls + 1
      /\ new.phase = (IF doc.bad \/ doc.len = 0 THEN "failed" ELSE "header") /\ new.doc = doc
  BY <1>1 DEF Item, Parts
<1>6. Hook(d) \in Item /\ Hook(d).t = "hook" /\ Hook(d).d = d
  BY ItemFacts
<1>7. /\ r \in Decoder /\ r.live /\ r.dirty /\ r.reuse = fresh.reuse /\ r.seen = None
      /\ r.flags_readonly = fresh.flags_readonly
      /\ new.phase \in Parts => r.loaded /\ r.consumed = 0
  <2>1. doc.len \in Nat /\ doc.bad \in BOOLEAN
    BY DocsAssumption
  <2> HIDE DEF fresh
  <2>2. CASE doc.bad
    <3>1. r = [fresh EXCEPT !.dirty = TRUE, !.loaded = fresh.loaded, !.consumed = fresh.consumed]
      BY <2>2 DEF Start
    <3>2. new.phase \notin Parts
      BY <1>5, <2>2 DEF Parts
    <3> HIDE DEF r, new
    <3> QED
      BY <1>3, <3>1, <3>2 DEF Decoder
  <2>3. CASE ~doc.bad
    <3>1. r = [fresh EXCEPT !.dirty = TRUE, !.loaded = (doc.len > 0), !.consumed = 0]
      BY <2>3 DEF Start
    <3>2. new.phase \in Parts => doc.len > 0
      BY <1>5, <2>1, <2>3 DEF Parts
    <3>3. (doc.len > 0) \in BOOLEAN
      BY <2>1
    <3> HIDE DEF r, new
    <3> QED
      BY <1>3, <3>1, <3>2, <3>3 DEF Decoder
  <2> QED
    BY <2>2, <2>3
<1> HIDE DEF fresh, r, new
<1>8. dec' \in [Decoders -> Decoder] /\ dec'[d] = r /\ \A f \in Decoders : f # d => dec'[f] = dec[f]
  BY <1>1, <1>2, <1>7
<1>9. /\ stack' \in Seq(Item) /\ Len(stack') = n + 2
      /\ \A i \in 1 .. n : stack'[i] = stack[i]
      /\ xsub => stack'[n + 1] = new /\ stack'[n + 2] = Hook(d)
      /\ ~xsub => stack'[n + 1] = Hook(d) /\ stack'[n + 2] = new
  BY <1>2, <1>5, <1>6
<1> DEFINE pn == IF xsub THEN n + 1 ELSE n + 2
           ph == IF xsub THEN n + 2 ELSE n + 1
<1>10. /\ stack'[pn] = new /\ stack'[ph] = Hook(d) /\ (xsub <=> pn < ph)
       /\ \/ pn = n + 1 /\ ph = n + 2
          \/ pn = n + 2 /\ ph = n + 1
  BY <1>2, <1>9
<1> HIDE DEF pn, ph
<1>11. Shape(stack') /\ OnlyNew(stack, stack', d, pn)
  <2>1. Pushed(stack, stack', d, pn, ph)
    BY <1>5, <1>6, <1>9, <1>10 DEF Pushed
  <2>2. Free(stack, d, stack'[pn].id)
    BY <1>4, <1>5, <1>10
  <2>3. Covered(stack)
    BY <1>1, InPerlCovered
  <2> QED
    BY <1>1, <2>1, <2>2, <2>3, PushCallShape
<1>12. ASSUME NEW f \in Decoders PROVE Owned(dec', stack', f)
  <2>1. CASE f = d
    BY <1>3, <1>7, <1>8, <1>11, <2>1 DEF Owned, OnlyNew
  <2>2. CASE f # d
    BY <1>1, <1>8, <1>11, <2>2 DEF Owned, OnlyNew
  <2> QED
    BY <2>1, <2>2
<1>13. ASSUME NEW i \in 1 .. Len(stack'), stack'[i].t = "call" PROVE Reads(dec', stack'[i], calls + 1)
  <2>1. CASE i \in 1 .. n
    <3>1. stack[i].t = "call" /\ stack'[i] = stack[i] /\ Reads(dec, stack[i], calls)
      BY <1>9, <1>13, <2>1 DEF Sound
    <3>2. stack[i].d # d /\ stack[i].d \in Decoders /\ stack[i] \in Item
      BY <1>1, <1>2, <1>4, <2>1, <3>1, CallHook DEF Free
    <3>3. stack[i].id \in Nat /\ stack[i].id <= calls
      BY <3>1, <3>2 DEF Reads, Item
    <3>4. stack[i].id <= calls + 1 /\ stack[i].id # calls + 1
      BY <1>1, <3>3
    <3>5. dec'[stack[i].d] = dec[stack[i].d]
      BY <1>8, <3>2
    <3> QED
      BY <3>1, <3>4, <3>5 DEF Reads
  <2>2. CASE i \notin 1 .. n
    <3>1. stack'[i] = new
      BY <1>10, <1>11, <1>13, <2>2 DEF OnlyNew
    <3>2. calls + 1 <= calls + 1
      BY <1>1
    <3> QED
      BY <1>5, <1>7, <1>8, <3>1, <3>2 DEF Reads
  <2> QED
    BY <2>1, <2>2
<1>14. calls + 1 \in Nat
  BY <1>1
<1> QED
  BY <1>8, <1>11, <1>12, <1>13, <1>14 DEF Sound

-----------------------------------------------------------------------------
(* The invariant *)

LEMMA InitIInv == Init => IInv
<1> SUFFICES ASSUME Init PROVE IInv
  OBVIOUS
<1>1. /\ stack = <<Block>> /\ calls \in Nat /\ object = "held"
      /\ dec = [d \in Decoders |-> IF d = User THEN [Zeroed EXCEPT !.live = TRUE, !.reuse = TRUE, !.flags_readonly = ReadOnly]
                                   ELSE Zeroed]
  BY DEF Init
<1>2. stack \in Seq(Item) /\ Len(stack) = 1 /\ stack[1] = Block /\ Block.t = "block"
  BY <1>1, ItemFacts
<1>3. Shape(stack) /\ \A d \in Decoders : ~HasHook(stack, d)
  BY <1>2 DEF Shape, HasHook
<1>4. ASSUME NEW d \in Decoders PROVE dec[d] \in Decoder /\ Owned(dec, stack, d)
  <2>1. CASE d = User
    <3>1. dec[d] = [Zeroed EXCEPT !.live = TRUE, !.reuse = TRUE, !.flags_readonly = ReadOnly]
      BY <1>1, <2>1
    <3> QED
      BY <1>1, <1>3, <2>1, <3>1, ZeroedFacts, ReadOnlyAssumption DEF Owned, Decoder
  <2>2. CASE d # User
    <3>1. dec[d] = Zeroed
      BY <1>1, <2>2
    <3> QED
      BY <1>3, <2>2, <3>1, ZeroedFacts DEF Owned
  <2> QED
    BY <2>1, <2>2
<1>5. dec \in [Decoders -> Decoder]
  <2>1. dec = [d \in Decoders |-> dec[d]]
    BY <1>1
  <2> QED
    BY <1>4, <2>1
<1>6. \A i \in 1 .. Len(stack) : stack[i].t = "call" => Reads(dec, stack[i], calls)
  BY <1>2
<1>7. ReportsOwnBytes /\ result \in Results
  BY ReadOnlyAssumption DEF Init, ReportsOwnBytes, Results
<1> QED
  BY <1>1, <1>3, <1>4, <1>5, <1>6, <1>7 DEF IInv, Sound

\* Scopes are left by cutting the stack at a place that splits no frame.
LEMMA UnwoundSound ==
  ASSUME Sound(dec, stack, calls), NEW k \in 1 .. Len(stack), ~(stack[k].t = "call" /\ stack[k].xsub)
  PROVE  Sound(Unwound(k), SubSeq(stack, 1, k), calls)
<1>1. Unwound(k) = [d \in Decoders |->
                      IF HookAbove(stack, k, d) THEN srl_decoder_destructor_hook(dec[d]) ELSE dec[d]]
  BY DEF Unwound, HookAbove
<1> QED
  BY <1>1, CutSound

\* A call that returns takes its hook with it if it is an XSUB's.
LEMMA ReturnSound ==
  ASSUME NEW de, Sound(de, stack, calls), call.t = "call",
         NEW new, new = [d \in Decoders |->
                           IF call.xsub /\ d = call.d THEN srl_decoder_destructor_hook(de[d]) ELSE de[d]]
  PROVE  /\ Sound(new, SubSeq(stack, 1, Running - 1), calls)
         /\ \A i \in 1 .. Running - 1 : SubSeq(stack, 1, Running - 1)[i] = stack[i]
         /\ Len(SubSeq(stack, 1, Running - 1)) = Running - 1
<1>1. Shape(stack) /\ Len(stack) \in Nat
  BY DEF Sound, Shape
<1>2. /\ Running \in 2 .. Len(stack) /\ Frame(stack, Running)
      /\ Len(stack) = IF call.xsub THEN Running + 1 ELSE Running
  BY <1>1, TopCall
<1>3. Running - 1 \in 1 .. Len(stack) /\ ~(stack[Running - 1].t = "call" /\ stack[Running - 1].xsub)
  BY <1>1, <1>2 DEF Shape, Frame, call
<1>4. \A d \in Decoders : HookAbove(stack, Running - 1, d) <=> call.xsub /\ d = call.d
  BY <1>1, <1>2 DEF HookAbove, Frame, call
<1>5. new = [d \in Decoders |->
               IF HookAbove(stack, Running - 1, d) THEN srl_decoder_destructor_hook(de[d]) ELSE de[d]]
  BY <1>4
<1> QED
  BY <1>1, <1>3, <1>5, CutSound, CutShape

\* THAW was called from the call below its scope, which is what ThawReturns picks.
LEMMA ThawCaller ==
  ASSUME Shape(stack), InPerl, Running > 1
  PROVE  LET c == CHOOSE i \in 1 .. Running - 1 : /\ stack[i].t = "call"
                                                  /\ \A j \in i + 1 .. Running - 1 : stack[j].t # "call"
         IN  c \in 1 .. Running - 1 /\ stack[c].t = "call" /\ stack[c].phase \in Parts
<1> DEFINE c == CHOOSE i \in 1 .. Running - 1 : /\ stack[i].t = "call"
                                                /\ \A j \in i + 1 .. Running - 1 : stack[j].t # "call"
<1>1. Running \in 2 .. Len(stack) /\ stack[Running].t = "block" /\ Len(stack) \in Nat
  BY RunningSpec DEF InPerl, Shape
<1>2. PICK b \in 1 .. Running - 1 : Entered(stack, Running, b)
  BY <1>1 DEF Shape
<1>3. stack[b].t = "call" /\ stack[b].phase \in Parts /\ \A j \in b + 1 .. Running - 1 : stack[j].t # "call"
  BY <1>1, <1>2 DEF Entered
<1>4. /\ c \in 1 .. Running - 1 /\ stack[c].t = "call"
      /\ \A j \in c + 1 .. Running - 1 : stack[j].t # "call"
  BY <1>3
<1> HIDE DEF c
<1>5. c = b
  BY <1>1, <1>3, <1>4
<1> QED
  BY <1>3, <1>4, <1>5 DEF c

\* THAW's scope is left; what it returned is recorded for the call it was made from.
LEMMA ThawReturnsSound ==
  ASSUME Sound(dec, stack, calls), ThawReturns
  PROVE  Sound(dec', stack', calls)
<1> DEFINE c == CHOOSE i \in 1 .. Running - 1 : /\ stack[i].t = "call"
                                                /\ \A j \in i + 1 .. Running - 1 : stack[j].t # "call"
           k == Running - 1
           s == SubSeq(stack, 1, k)
           after == Unwound(Running)
<1>1. /\ InPerl /\ Running > 1 /\ stack' = s
      /\ \/ dec' = after
         \/ dec' = [after EXCEPT ![stack[c].d].seen = <<stack[c].id, stack[c].phase>>]
         \/ dec' = [after EXCEPT ![stack[c].d].thawed = stack[c].id]
  BY DEF ThawReturns
<1>2. Shape(stack) /\ Len(stack) \in Nat /\ stack \in Seq(Item)
  BY DEF Sound, Shape
<1>3. c \in 1 .. k /\ stack[c].t = "call" /\ stack[c].phase \in Parts
  BY <1>1, <1>2, ThawCaller
<1> HIDE DEF c
<1>4. Running \in 1 .. Len(stack) /\ stack[Running].t = "block"
  BY <1>1, <1>2, RunningSpec DEF InPerl
<1>5. k \in 1 .. Len(stack) /\ ~(stack[k].t = "call" /\ stack[k].xsub) /\ c \in 1 .. Len(stack)
  BY <1>1, <1>2, <1>3, <1>4 DEF Shape, Frame
<1>6. Sound(after, s, calls)
  <2>1. \A d \in Decoders : HookAbove(stack, k, d) <=> HookAbove(stack, Running, d)
    BY <1>2, <1>4 DEF HookAbove
  <2>2. Unwound(k) = after
    BY <2>1 DEF Unwound, HookAbove
  <2> QED
    BY <1>5, <2>2, UnwoundSound
<1> HIDE DEF after
<1>7. /\ Len(s) = k /\ \A i \in 1 .. k : s[i] = stack[i]
      /\ stack[c] \in Item
  BY <1>2, <1>5, CutShape
<1> HIDE DEF s
<1> DEFINE d == stack[c].d
           own == <<stack[c].id, stack[c].phase>>
<1>8. /\ d \in Decoders /\ stack[c].id \in Nat /\ own \in Nat \X Parts
      /\ c \in 1 .. Len(s) /\ s[c] = stack[c] /\ Reads(after, s[c], calls)
      /\ after \in [Decoders -> Decoder] /\ after[d] \in Decoder
  <2>1. c \in 1 .. Len(s) /\ s[c] = stack[c]
    BY <1>3, <1>7
  <2>2. Reads(after, s[c], calls) /\ after \in [Decoders -> Decoder]
    BY <1>3, <1>6, <2>1 DEF Sound
  <2>3. d \in Decoders /\ stack[c].id \in Nat /\ own \in Nat \X Parts
    BY <1>3, <1>7 DEF Item
  <2> QED
    BY <2>1, <2>2, <2>3
<1>9. ASSUME NEW r \in Decoder, Kept(after[d], r), r.consumed = after[d].consumed,
             r.seen \in {after[d].seen, own}
      PROVE  Sound([after EXCEPT ![d] = r], s, calls)
  <2> DEFINE new == [after EXCEPT ![d] = r]
  <2>1. new \in [Decoders -> Decoder] /\ new[d] = r /\ \A f \in Decoders : f # d => new[f] = after[f]
    BY <1>8
  <2> HIDE DEF new
  <2>2. Updates(after, s, c, new)
    BY <1>8, <1>9, <2>1 DEF Updates, Kept
  <2>3. new[User].consumed = after[User].consumed
    BY <1>9, <2>1, UserAssumption
  <2>4. Reads(new, s[c], calls)
    BY <1>8, <1>9, <2>1, <2>3 DEF Reads, Kept
  <2> QED
    BY <1>3, <1>6, <1>8, <2>2, <2>4, UpdateSound DEF new
<1>10. CASE dec' = after
  BY <1>1, <1>6, <1>10
<1>11. CASE dec' = [after EXCEPT ![d].seen = own]
  <2> DEFINE r == [after[d] EXCEPT !.seen = own]
  <2>1. r \in Decoder /\ Kept(after[d], r) /\ r.consumed = after[d].consumed /\ r.seen = own
    <3> HIDE DEF own
    <3> QED
      BY <1>8 DEF Decoder, Kept
  <2>2. dec' = [after EXCEPT ![d] = r]
    BY <1>11
  <2> HIDE DEF r, d, own
  <2> QED
    BY <1>1, <1>9, <2>1, <2>2
<1>12. CASE dec' = [after EXCEPT ![d].thawed = stack[c].id]
  <2> DEFINE r == [after[d] EXCEPT !.thawed = stack[c].id]
  <2>1. r \in Decoder /\ Kept(after[d], r) /\ r.consumed = after[d].consumed /\ r.seen = after[d].seen
    BY <1>8 DEF Decoder, Kept
  <2>2. dec' = [after EXCEPT ![d] = r]
    BY <1>12
  <2> HIDE DEF r, d, own
  <2> QED
    BY <1>1, <1>9, <2>1, <2>2
<1> QED
  BY <1>1, <1>10, <1>11, <1>12

\* The facts about a call that runs and reads, used by all its steps.
LEMMA ReadingCall ==
  ASSUME Sound(dec, stack, calls), InCall(Parts)
  PROVE  /\ Running \in 1 .. Len(stack) /\ stack[Running] = call /\ call \in Item
         /\ call.t = "call" /\ call.phase \in Parts /\ call.d \in Decoders
         /\ call.id \in Nat /\ call.doc.len \in Nat
         /\ Reads(dec, call, calls) /\ dec \in [Decoders -> Decoder]
         /\ \A j \in Running + 1 .. Len(stack) : stack[j].t # "call"
<1>1. Shape(stack) /\ dec \in [Decoders -> Decoder] /\ call = stack[Running]
      /\ call.t = "call" /\ call.phase \in Parts
  BY DEF Sound, InCall, call
<1>2. /\ Running \in 2 .. Len(stack) /\ call \in Item /\ Len(stack) \in Nat
      /\ \A j \in Running + 1 .. Len(stack) : stack[j].t = "hook"
  BY <1>1, TopCall DEF Shape
<1>3. Running \in 1 .. Len(stack)
  BY <1>2
<1>4. Reads(dec, call, calls)
  BY <1>1, <1>3 DEF Sound
<1>5. call.d \in Decoders /\ call.id \in Nat /\ call.doc.len \in Nat
  BY <1>2, DocsAssumption DEF Item
<1> QED
  BY <1>1, <1>2, <1>3, <1>4, <1>5

\* A reading call enters what it has read into its own table.
LEMMA TrackSound ==
  ASSUME Sound(dec, stack, calls), srl_track_sv
  PROVE  Sound(dec', stack, calls)
<1> DEFINE own == <<call.id, call.phase>>
           r == [dec[call.d] EXCEPT !.seen = own]
<1>1. InCall(Parts) /\ dec' = [dec EXCEPT ![call.d] = r]
  BY DEF srl_track_sv
<1>2. /\ Running \in 1 .. Len(stack) /\ stack[Running] = call
      /\ call.t = "call" /\ call.phase \in Parts /\ call.d \in Decoders
      /\ call.id \in Nat /\ Reads(dec, call, calls) /\ dec \in [Decoders -> Decoder]
  BY <1>1, ReadingCall
<1>3. own \in Nat \X Parts /\ dec[call.d] \in Decoder
  BY <1>2
<1>4. r \in Decoder /\ Kept(dec[call.d], r) /\ r.consumed = dec[call.d].consumed /\ r.seen = own
  <2> HIDE DEF own
  <2> QED
    BY <1>3 DEF Decoder, Kept
<1> HIDE DEF r
<1>5. dec' \in [Decoders -> Decoder] /\ dec'[call.d] = r /\ \A f \in Decoders : f # call.d => dec'[f] = dec[f]
  BY <1>1, <1>2, <1>4
<1>6. Updates(dec, stack, Running, dec')
  BY <1>2, <1>4, <1>5 DEF Updates, Kept
<1>7. dec'[User].consumed = dec[User].consumed
  BY <1>4, <1>5, UserAssumption
<1>8. Reads(dec', call, calls)
  BY <1>2, <1>4, <1>5, <1>7 DEF Reads, Kept
<1> QED
  BY <1>2, <1>6, <1>8, UpdateSound

\* Between header and body the call's table is emptied, and a decompressed
\* document is counted.
LEMMA HeaderSound ==
  ASSUME Sound(dec, stack, calls), srl_read_header
  PROVE  Sound(dec', stack', calls)
<1> DEFINE r(d) == IF d = call.d THEN srl_clear_decoder_body_state(dec[d]) ELSE dec[d]
           q(d) == IF d \in {call.d, User} /\ call.doc.packed
                   THEN [r(d) EXCEPT !.consumed = call.doc.len] ELSE r(d)
<1>1. /\ InCall(Parts) /\ dec' = [d \in Decoders |-> q(d)]
      /\ stack' = [stack EXCEPT ![Running].phase = "body"]
  BY DEF srl_read_header, InCall, Parts
<1>2. /\ Running \in 1 .. Len(stack) /\ stack[Running] = call /\ call.doc.len \in Nat
      /\ call.t = "call" /\ call.phase \in Parts /\ call.d \in Decoders
      /\ Reads(dec, call, calls) /\ dec \in [Decoders -> Decoder]
      /\ \A j \in Running + 1 .. Len(stack) : stack[j].t # "call"
  BY <1>1, ReadingCall
<1>3. ASSUME NEW d \in Decoders
      PROVE  /\ r(d) \in Decoder /\ Kept(dec[d], r(d)) /\ r(d).consumed = dec[d].consumed
             /\ d = call.d => r(d).seen = None
             /\ d # call.d => r(d) = dec[d]
  <2>1. dec[d] \in Decoder
    BY <1>2
  <2>2. CASE d = call.d
    BY <2>1, <2>2, ZeroedFacts DEF srl_clear_decoder_body_state, Decoder, Kept
  <2>3. CASE d # call.d
    BY <2>1, <2>3 DEF Kept
  <2> QED
    BY <2>2, <2>3
<1>4. ASSUME NEW d \in Decoders
      PROVE  /\ q(d) \in Decoder /\ Kept(dec[d], q(d)) /\ q(d).seen = r(d).seen
             /\ d \in {call.d, User} /\ call.doc.packed => q(d).consumed = call.doc.len
             /\ ~(d \in {call.d, User} /\ call.doc.packed) => q(d) = r(d)
  <2> HIDE DEF r
  <2>1. CASE d \in {call.d, User} /\ call.doc.packed
    <3>1. q(d) = [r(d) EXCEPT !.consumed = call.doc.len]
      BY <2>1
    <3>2. r(d) \in Decoder /\ Kept(dec[d], r(d))
      BY <1>3
    <3> HIDE DEF q
    <3>3. /\ q(d) \in Decoder /\ Kept(r(d), q(d)) /\ q(d).seen = r(d).seen
          /\ q(d).consumed = call.doc.len
      BY <1>2, <3>1, <3>2 DEF Decoder, Kept
    <3> QED
      BY <2>1, <3>2, <3>3 DEF Kept
  <2>2. CASE ~(d \in {call.d, User} /\ call.doc.packed)
    BY <1>3, <2>2
  <2> QED
    BY <2>1, <2>2
<1>5. \A d \in Decoders : dec'[d] = q(d)
  BY <1>1
<1>6. dec' \in [Decoders -> Decoder]
  <2> HIDE DEF q
  <2> QED
    BY <1>1, <1>4
<1> HIDE DEF q, r
<1>7. Updates(dec, stack, Running, dec')
  BY <1>2, <1>3, <1>4, <1>5, <1>6 DEF Updates
<1>8. Reads(dec', call, calls) /\ dec'[call.d].seen = None
  BY <1>2, <1>3, <1>4, <1>5, UserAssumption DEF Reads, Kept
<1>9. Sound(dec', stack, calls)
  BY <1>2, <1>7, <1>8, UpdateSound
<1> QED
  BY <1>1, <1>8, <1>9, PhaseSound

\* Both decoders are counted if the call's own has no count yet.
LEMMA CountedSound ==
  ASSUME Sound(dec, stack, calls), InCall(Parts), NEW de, de = [d \in Decoders |-> Counted(d)]
  PROVE  /\ Sound(de, stack, calls)
         /\ call.id = calls => de[User].consumed = call.doc.len
         /\ de[call.d].loaded /\ de[call.d].reuse = dec[call.d].reuse
<1>2. /\ Running \in 1 .. Len(stack) /\ stack[Running] = call /\ call.doc.len \in Nat
      /\ call.t = "call" /\ call.phase \in Parts /\ call.d \in Decoders
      /\ Reads(dec, call, calls) /\ dec \in [Decoders -> Decoder]
      /\ \A j \in Running + 1 .. Len(stack) : stack[j].t # "call"
  BY ReadingCall
<1>3. ASSUME NEW d \in Decoders
      PROVE  /\ Counted(d) \in Decoder /\ Kept(dec[d], Counted(d)) /\ Counted(d).seen = dec[d].seen
             /\ d \notin {call.d, User} => Counted(d) = dec[d]
             /\ dec[call.d].consumed # 0 => Counted(d) = dec[d]
             /\ dec[call.d].consumed = 0 /\ d \in {call.d, User} => Counted(d).consumed = call.doc.len
  <2>1. dec[d] \in Decoder
    BY <1>2
  <2>2. CASE dec[call.d].consumed = 0 /\ d \in {call.d, User}
    <3>1. Counted(d) = [dec[d] EXCEPT !.consumed = call.doc.len]
      BY <2>2 DEF Counted
    <3> QED
      BY <1>2, <2>1, <2>2, <3>1 DEF Decoder, Kept
  <2>3. CASE ~(dec[call.d].consumed = 0 /\ d \in {call.d, User})
    <3>1. Counted(d) = dec[d]
      BY <2>3 DEF Counted
    <3> QED
      BY <2>1, <2>3, <3>1 DEF Kept
  <2> QED
    BY <2>2, <2>3
<1>4. \A d \in Decoders : de[d] = Counted(d)
  OBVIOUS
<1>5. de \in [Decoders -> Decoder]
  BY <1>3
<1>6. Updates(dec, stack, Running, de)
  BY <1>2, <1>3, <1>4, <1>5 DEF Updates
<1>7. Reads(de, call, calls) /\ (call.id = calls => de[User].consumed = call.doc.len)
  BY <1>2, <1>3, <1>4, UserAssumption DEF Reads, Kept
<1>8. Sound(de, stack, calls)
  BY <1>2, <1>6, <1>7, UpdateSound
<1> QED
  BY <1>2, <1>3, <1>4, <1>7, <1>8 DEF Reads, Kept

\* Clearing twice, or clearing what is then freed, is running the hook.
LEMMA HookAfterClear ==
  ASSUME NEW r \in Decoder, r.seen # None => r.loaded
  PROVE  srl_decoder_destructor_hook(srl_clear_decoder(r)) = srl_decoder_destructor_hook(r)
<1> DEFINE h == srl_clear_decoder(r)
<1>1. ~h.loaded /\ h.reuse = r.reuse
  BY ClearFacts
<1> HIDE DEF h
<1>2. srl_clear_decoder(h) = h
  BY <1>1 DEF srl_clear_decoder
<1>3. srl_decoder_destructor_hook(h) = srl_decoder_destructor_hook(r)
  <2>1. CASE r.reuse
    BY <1>1, <1>2, <2>1 DEF srl_decoder_destructor_hook, h
  <2>2. CASE ~r.reuse
    BY <1>1, <2>2 DEF srl_decoder_destructor_hook
  <2> QED
    BY <2>1, <2>2
<1> QED
  BY <1>3 DEF h

\* The call at the top is over and its struct cleared; an XSUB's hook has run.
LEMMA DecodedSound ==
  ASSUME Sound(dec, stack, calls), srl_decode_into_internal
  PROVE  /\ Sound(dec', stack', calls)
         /\ call.id = calls => Cleared(User).consumed = call.doc.len
         /\ Cleared(User).consumed \in Nat
<1> DEFINE de == [d \in Decoders |-> Counted(d)]
           s == SubSeq(stack, 1, Running - 1)
<1>1. /\ InCall(Parts) /\ stack' = s
      /\ dec' = [d \in Decoders |-> AfterReturn(Cleared(d), d)]
  BY DEF srl_decode_into_internal, InCall, Parts, Return
<1>2. /\ Sound(de, stack, calls) /\ de[call.d].loaded /\ de[call.d].reuse = dec[call.d].reuse
      /\ call.id = calls => de[User].consumed = call.doc.len
  BY <1>1, CountedSound
<1>3. /\ Running \in 1 .. Len(stack) /\ stack[Running] = call
      /\ call.t = "call" /\ call.d \in Decoders
  BY <1>1, ReadingCall
<1>4. \A d \in Decoders : de[d] = Counted(d)
  OBVIOUS
<1> HIDE DEF de
<1>5. \A d \in Decoders : de[d] \in Decoder /\ (de[d].seen # None => de[d].loaded)
  BY <1>2 DEF Sound, Owned
<1>6. \A d \in Decoders : Cleared(d) = IF d = call.d THEN srl_clear_decoder(de[d]) ELSE de[d]
  BY <1>4 DEF Cleared
<1>7. Cleared(User).consumed = de[User].consumed /\ de[User].consumed \in Nat
  <2>1. de[User].consumed \in Nat
    BY <1>5, UserAssumption DEF Decoder
  <2>2. srl_clear_decoder(de[User]).consumed = de[User].consumed
    BY <1>5, ClearFacts, UserAssumption
  <2> QED
    BY <1>6, <2>1, <2>2, UserAssumption
<1>8. CASE call.xsub
  <2>1. dec' = [d \in Decoders |->
                  IF call.xsub /\ d = call.d THEN srl_decoder_destructor_hook(de[d]) ELSE de[d]]
    <3>1. ASSUME NEW d \in Decoders
          PROVE  AfterReturn(Cleared(d), d)
                   = IF call.xsub /\ d = call.d THEN srl_decoder_destructor_hook(de[d]) ELSE de[d]
      <4>1. srl_decoder_destructor_hook(srl_clear_decoder(de[d])) = srl_decoder_destructor_hook(de[d])
        BY <1>5, HookAfterClear
      <4> QED
        BY <1>6, <1>8, <4>1 DEF AfterReturn
    <3> QED
      BY <1>1, <3>1
  <2> QED
    BY <1>1, <1>2, <1>3, <1>7, <2>1, ReturnSound
<1>9. CASE ~call.xsub
  <2>1. /\ de \in [Decoders -> Decoder] /\ Shape(stack) /\ Len(stack) \in Nat
    BY <1>2 DEF Sound, Shape
  <2>2. de = [d \in Decoders |->
                IF call.xsub /\ d = call.d THEN srl_decoder_destructor_hook(de[d]) ELSE de[d]]
    BY <1>9, <2>1
  <2>3. /\ Sound(de, s, calls) /\ Len(s) = Running - 1 /\ \A i \in 1 .. Running - 1 : s[i] = stack[i]
    BY <1>2, <1>3, <2>2, ReturnSound
  <2> HIDE DEF s
  <2>4. ASSUME NEW i \in 1 .. Len(s), s[i].t = "call" PROVE s[i].d # call.d
    <3>1. i \in 1 .. Len(stack) /\ i # Running /\ stack[i] = s[i]
      BY <1>3, <2>1, <2>3
    <3> QED
      BY <1>3, <2>1, <2>4, <3>1, ShapeExclusive
  <2>5. Sound([de EXCEPT ![call.d] = srl_clear_decoder(de[call.d])], s, calls)
    BY <1>3, <2>3, <2>4, IdleSound
  <2>6. dec' = [de EXCEPT ![call.d] = srl_clear_decoder(de[call.d])]
    <3>1. ASSUME NEW d \in Decoders PROVE AfterReturn(Cleared(d), d) = Cleared(d)
      BY <1>9 DEF AfterReturn
    <3> QED
      BY <1>1, <1>3, <1>6, <2>1, <3>1
  <2> QED
    BY <1>1, <1>2, <1>7, <2>5, <2>6
<1> QED
  BY <1>8, <1>9

\* Every step of a call and every scope left keeps all in agreement.
LEMMA StepSound ==
  ASSUME Sound(dec, stack, calls), ReportsOwnBytes, result \in Results, Steps
  PROVE  Sound(dec', stack', calls') /\ ReportsOwnBytes' /\ result' \in Results
<1>0. /\ Sound(dec, stack, calls) /\ ReportsOwnBytes /\ result \in Results
      /\ Shape(stack) /\ Len(stack) \in Nat /\ calls \in Nat
  BY DEF Sound, Shape
<1>1. ASSUME result' = result PROVE ReportsOwnBytes' /\ result' \in Results
  BY <1>0, <1>1 DEF ReportsOwnBytes
<1>3. CASE Decode
  <2>1. InPerl /\ object = "held" /\ calls' = calls + 1 /\ result' = result
    BY <1>3 DEF Decode
  <2>2. PICK d \in Decoders, doc \in Docs, only_header \in BOOLEAN, xsub \in BOOLEAN :
           Chosen(d) /\ srl_begin_decoding(d, doc, only_header, xsub)
    BY <1>3 DEF Decode
  <2>3. Sound(dec', stack', calls + 1)
    BY <1>0, <2>1, <2>2, BeginSound
  <2> QED
    BY <1>1, <2>1, <2>3
<1>4. CASE srl_track_sv
  <2>1. stack' = stack /\ calls' = calls /\ result' = result
    BY <1>4 DEF srl_track_sv
  <2> QED
    BY <1>0, <1>1, <1>4, <2>1, TrackSound
<1>5. CASE srl_read_header
  <2>1. calls' = calls /\ result' = result
    BY <1>5 DEF srl_read_header
  <2> QED
    BY <1>0, <1>1, <1>5, <2>1, HeaderSound
<1>6. CASE Thaw
  <2>1. InCall(Parts) /\ stack' = Append(stack, Block) /\ dec' = dec /\ calls' = calls /\ result' = result
    BY <1>6 DEF Thaw
  <2> QED
    BY <1>0, <1>1, <2>1, PushBlockSound
<1>7. CASE ThawReturns
  <2>1. calls' = calls /\ result' = result
    BY <1>7 DEF ThawReturns
  <2> QED
    BY <1>0, <1>1, <1>7, <2>1, ThawReturnsSound
<1>8. CASE srl_decode_into_internal
  <2>1. /\ InCall(Parts) /\ calls' = calls
        /\ result' = [len |-> call.doc.len, consumed |-> Cleared(User).consumed,
                      readonly |-> dec[call.d].flags_readonly,
                      alone |-> calls = call.id, own |-> call.d = User]
    BY <1>8 DEF srl_decode_into_internal, InCall, Parts, Return
  <2>2. /\ Sound(dec', stack', calls) /\ Cleared(User).consumed \in Nat
        /\ call.id = calls => Cleared(User).consumed = call.doc.len
    BY <1>0, <1>8, DecodedSound
  <2>3. call.d \in Decoders /\ call.doc.len \in Nat /\ dec[call.d] \in Decoder /\ object # "released"
    BY <1>0, <2>1, ReadingCall DEF Reads
  <2>4. /\ dec[call.d].flags_readonly \in BOOLEAN
        /\ call.d = User => dec[call.d].flags_readonly = ReadOnly
    <3>1. Owned(dec, stack, call.d)
      BY <1>0, <2>3 DEF Sound
    <3> QED
      BY <2>3, <3>1 DEF Decoder, Owned
  <2>5. result' \in Results
    BY <2>1, <2>2, <2>3, <2>4 DEF Results
  <2>6. ReportsOwnBytes'
    BY <2>1, <2>2, <2>4, ReadOnlyAssumption DEF ReportsOwnBytes
  <2> QED
    BY <2>1, <2>2, <2>5, <2>6
<1>9. CASE srl_decode_header_into
  <2>1. /\ call.t = "call" /\ calls' = calls /\ result' = result
        /\ stack' = SubSeq(stack, 1, Running - 1)
        /\ dec' = [d \in Decoders |-> IF call.xsub /\ d = call.d THEN srl_decoder_destructor_hook(dec[d]) ELSE dec[d]]
    BY <1>9 DEF srl_decode_header_into, InCall, call, Return, AfterReturn
  <2>2. Sound(dec', stack', calls)
    BY <1>0, <2>1, ReturnSound
  <2> QED
    BY <1>1, <2>1, <2>2
<1>10. CASE Die
  <2>1. calls' = calls /\ result' = result
    BY <1>10 DEF Die
  <2>2. PICK k \in 1 .. Running - 1 : /\ stack[k].t = "block" /\ dec' = Unwound(k)
                                      /\ stack' = SubSeq(stack, 1, k)
    BY <1>10 DEF Die
  <2>3. Running \in 1 .. Len(stack)
    BY <1>0, RunningSpec
  <2>4. k \in 1 .. Len(stack)
    BY <1>0, <2>3
  <2>5. Sound(dec', stack', calls)
    BY <1>0, <2>2, <2>4, UnwoundSound
  <2> QED
    BY <1>1, <2>1, <2>5
<1>11. CASE LeaveBlock
  <2>1. dec' = Unwound(1) /\ stack' = <<Block>> /\ calls' = calls /\ result' = result
    BY <1>11 DEF LeaveBlock
  <2>2. 1 \in 1 .. Len(stack) /\ stack[1] = Block /\ stack[1].t = "block" /\ stack \in Seq(Item)
    BY <1>0, ItemFacts DEF Shape
  <2>3. SubSeq(stack, 1, 1) = <<Block>>
    <3> DEFINE c == SubSeq(stack, 1, 1)
    <3>1. c \in Seq(Item) /\ Len(c) = 1 /\ c[1] = Block
      BY <2>2
    <3> HIDE DEF c
    <3>2. c = <<Block>>
      BY <3>1
    <3> QED
      BY <3>2 DEF c
  <2>4. Sound(dec', stack', calls)
    BY <1>0, <2>1, <2>2, <2>3, UnwoundSound
  <2> QED
    BY <1>1, <2>1, <2>4
<1> QED
  BY <1>3, <1>4, <1>5, <1>6, <1>7, <1>8, <1>9, <1>10, <1>11 DEF Steps

\* An object whose struct no call and no hook will use may be released.
LEMMA ReleaseSound ==
  ASSUME Sound(dec, stack, calls), object = "held", ~HasHook(stack, User),
         \A i \in 1 .. Len(stack) : stack[i].t # "call",
         dec' = [dec EXCEPT ![User] = Zeroed], stack' = stack, calls' = calls, object' = "released"
  PROVE  Sound(dec, stack, calls)'
<1>1. /\ dec \in [Decoders -> Decoder] /\ Shape(stack) /\ calls \in Nat
      /\ \A d \in Decoders : Owned(dec, stack, d)
  BY DEF Sound
<1>2. /\ dec' \in [Decoders -> Decoder] /\ dec'[User] = Zeroed
      /\ \A d \in Decoders : d # User => dec'[d] = dec[d]
  BY <1>1, UserAssumption, ZeroedFacts
<1>3. ASSUME NEW d \in Decoders PROVE Owned(dec, stack, d)'
  <2>1. HasHook(stack, d)' <=> HasHook(stack, d)
    BY DEF HasHook
  <2>2. CASE d = User
    BY <1>2, <2>1, <2>2, ZeroedFacts DEF Owned
  <2>3. CASE d # User
    <3>1. Owned(dec, stack, d) /\ dec'[d] = dec[d]
      BY <1>1, <1>2, <2>3
    <3> QED
      BY <2>1, <2>3, <3>1 DEF Owned
  <2> QED
    BY <2>2, <2>3
<1>4. Shape(stack)'
  BY <1>1 DEF Shape, Frame, Entered
<1> QED
  BY <1>1, <1>2, <1>3, <1>4 DEF Sound

\* Every step keeps all in agreement, but for an early release, after which there
\* are no more.
LEMMA NextIInv == IInv /\ [Next]_vars => IInv'
<1> SUFFICES ASSUME IInv, [Next]_vars PROVE IInv'
  OBVIOUS
<1>0. ReportsOwnBytes /\ result \in Results /\ object \in {"held", "released", "early"}
  BY DEF IInv
<1>1. CASE object # "early" /\ Steps /\ UNCHANGED object
  <2>1. Sound(dec', stack', calls') /\ ReportsOwnBytes' /\ result' \in Results
    BY <1>0, <1>1, StepSound DEF IInv
  <2>2. Sound(dec, stack, calls)'
    BY <1>1, <2>1 DEF Sound, Owned, Reads
  <2> QED
    BY <1>0, <1>1, <2>1, <2>2 DEF IInv
<1>2. CASE DESTROY
  <2>1. /\ object = "held" /\ dec' = [dec EXCEPT ![User] = Zeroed]
        /\ stack' = stack /\ calls' = calls /\ result' = result /\ object' \in {"early", "released"}
    BY <1>2 DEF DESTROY
  <2>2. Sound(dec, stack, calls) /\ ReportsOwnBytes' /\ result' \in Results
    BY <1>0, <2>1 DEF IInv, ReportsOwnBytes
  <2>3. CASE object' = "early"
    <3>1. PICK de : de = dec
      OBVIOUS
    <3>2. Sound(de, stack, calls)
      BY <2>2, <3>1
    <3>3. Sound(de, stack, calls)'
      BY <2>1, <2>3, <3>2 DEF Sound, Owned, Reads
    <3>4. Robbed(de)'
      BY <2>1, <3>1 DEF Robbed
    <3> QED
      BY <2>1, <2>2, <2>3, <3>3, <3>4 DEF IInv
  <2>4. CASE object' = "released"
    <3>1. DOMAIN stack = 1 .. Len(stack)
      BY <2>2 DEF Sound, Shape
    <3>2. \A i \in 1 .. Len(stack) : stack[i].t # "call" /\ ~(stack[i].t = "hook" /\ stack[i].d = User)
      BY <1>2, <2>4, <3>1 DEF DESTROY
    <3>3. ~HasHook(stack, User)
      BY <3>2 DEF HasHook
    <3>4. Sound(dec, stack, calls)'
      BY <2>1, <2>2, <2>4, <3>2, <3>3, ReleaseSound
    <3> QED
      BY <2>2, <2>4, <3>4 DEF IInv
  <2> QED
    BY <2>1, <2>3, <2>4
<1>3. CASE Done \/ UNCHANGED vars
  <2>1. dec' = dec /\ stack' = stack /\ calls' = calls /\ result' = result /\ object' = object
    BY <1>3 DEF Done, vars
  <2> QED
    BY <2>1 DEF IInv, ReportsOwnBytes, Sound, Owned, Reads, Robbed
<1> QED
  BY <1>1, <1>2, <1>3 DEF Next

\* Structs, stack, number of calls and report agree in every state that an
\* object's decode calls reach.
THEOREM Invariance == Spec => []IInv
<1>1. Init => IInv
  BY InitIInv
<1>2. IInv /\ [Next]_vars => IInv'
  BY NextIInv
<1> QED
  BY <1>1, <1>2, PTL DEF Spec

-----------------------------------------------------------------------------
(* What follows *)

\* Before an early release the structs fit the stack; after it those fit that the
\* object's was taken from.
Fits(de) == Sound(de, stack, calls) /\ (dec = de \/ (object = "early" /\ Robbed(de)))

LEMMA Fitting ==
  ASSUME IInv
  PROVE  \E de : Fits(de)
<1>1. CASE object = "early"
  BY <1>1 DEF IInv, Fits
<1>2. CASE object # "early"
  BY <1>2 DEF IInv, Fits
<1> QED
  BY <1>1, <1>2

\* A struct is what it is in de, or the object's and gone.
LEMMA FittingStructs ==
  ASSUME NEW de, Fits(de), NEW d \in Decoders
  PROVE  /\ dec \in [Decoders -> Decoder]
         /\ dec[d] = de[d] \/ (object = "early" /\ d = User /\ dec[d] = Zeroed)
<1>1. de \in [Decoders -> Decoder]
  BY DEF Fits, Sound
<1>2. CASE dec = de
  BY <1>1, <1>2
<1>3. CASE object = "early" /\ dec = [de EXCEPT ![User] = Zeroed]
  BY <1>1, <1>3, ZeroedFacts, UserAssumption
<1> QED
  BY <1>2, <1>3 DEF Fits, Robbed

\* A decode call made by a THAW method works on a struct of its own, however deep
\* the calls nest and whatever was abandoned by an exception before.
THEOREM DecoderExclusive == Spec => []ExclusiveUse
<1>1. IInv => ExclusiveUse
  <2> SUFFICES ASSUME IInv, NEW i \in Calls, NEW j \in Calls, stack[i].d = stack[j].d PROVE i = j
    BY DEF ExclusiveUse
  <2>1. Shape(stack)
    BY Fitting DEF Fits, Sound
  <2>2. DOMAIN stack = 1 .. Len(stack)
    BY <2>1 DEF Shape
  <2> QED
    BY <2>1, <2>2, ShapeExclusive DEF Calls
<1> QED
  BY <1>1, Invariance, PTL

\* srl_decoder_destructor_hook frees a clone once and only when no call uses it,
\* never the object's own decoder, and every clone has a hook that will free it; a
\* struct that a call or a hook has still to use is only ever freed by DESTROY, for
\* the object's own, and only when perl runs it under a call or a pending hook.
THEOREM DecoderNotDangling == Spec => []NoDanglingDecoder
<1>1. IInv => NoDanglingDecoder
  <2> SUFFICES ASSUME IInv PROVE NoDanglingDecoder
    OBVIOUS
  <2>1. PICK de : Fits(de)
    BY Fitting
  <2>2. /\ Shape(stack) /\ DOMAIN stack = 1 .. Len(stack) /\ stack \in Seq(Item)
        /\ \A d \in Decoders : Owned(de, stack, d)
    BY <2>1 DEF Fits, Sound, Shape
  <2>3. object # "early" => dec = de
    BY <2>1 DEF Fits
  <2>4. object = "held" => dec[User].live
    BY <2>2, <2>3, UserAssumption DEF Owned
  <2>5. ASSUME NEW i \in Calls \cup Hooks
        PROVE  dec[stack[i].d].live \/ (object = "early" /\ stack[i].d = User)
    <3>1. i \in 1 .. Len(stack) /\ stack[i].d \in Decoders
      <4>1. i \in 1 .. Len(stack)
        BY <2>2 DEF Calls, Hooks
      <4>2. stack[i] \in Item
        BY <2>2, <4>1
      <4> QED
        BY <4>1, <4>2 DEF Item
    <3>2. HasHook(stack, stack[i].d)
      <4>1. CASE i \in Calls
        BY <2>2, <3>1, <4>1, CallHook DEF Calls
      <4>2. CASE i \in Hooks
        BY <3>1, <4>2 DEF Hooks, HasHook
      <4> QED
        BY <4>1, <4>2
    <3>3. de[stack[i].d].live
      BY <2>2, <3>1, <3>2 DEF Owned
    <3> QED
      BY <2>1, <3>1, <3>3, FittingStructs
  <2>6. ASSUME NEW i \in Calls PROVE dec[User].live \/ object = "early"
    <3>1. i \in 1 .. Len(stack) /\ stack[i].t = "call"
      BY <2>2 DEF Calls
    <3>2. object # "released"
      BY <2>1, <3>1 DEF Fits, Sound, Reads
    <3> QED
      BY <2>2, <2>3, <3>2, UserAssumption DEF Owned
  <2>7. ASSUME NEW d \in Decoders \ {User}, dec[d].live
        PROVE  Cardinality({i \in Hooks : stack[i].d = d}) = 1
    <3>0. de[d].live
      BY <2>1, <2>7, FittingStructs
    <3>1. HasHook(stack, d)
      BY <2>2, <2>7, <3>0 DEF Owned
    <3>2. PICK h \in 1 .. Len(stack) : stack[h].t = "hook" /\ stack[h].d = d
      BY <3>1 DEF HasHook
    <3>3. {i \in Hooks : stack[i].d = d} = {h}
      BY <2>2, <3>2 DEF Hooks, Shape
    <3> QED
      BY <3>3, FS_Singleton
  <2> QED
    BY <2>4, <2>5, <2>6, <2>7 DEF NoDanglingDecoder
<1> QED
  BY <1>1, Invariance, PTL

\* The offsets a reading call finds in ref_seenhash are those of its own document,
\* and of its body alone while it reads the body.
THEOREM DecoderOwnEntries == Spec => []OnlyOwnEntries
<1>1. IInv => OnlyOwnEntries
  <2> SUFFICES ASSUME IInv, NEW i \in Calls, stack[i].phase \in Parts
               PROVE  dec[stack[i].d].seen \in {None, <<stack[i].id, stack[i].phase>>}
    BY DEF OnlyOwnEntries
  <2>1. PICK de : Fits(de)
    BY Fitting
  <2>2. Shape(stack) /\ i \in 1 .. Len(stack) /\ stack[i].t = "call"
    BY <2>1 DEF Fits, Sound, Shape, Calls
  <2>3. Reads(de, stack[i], calls) /\ stack[i].d \in Decoders
    BY <2>1, <2>2, CallHook DEF Fits, Sound
  <2>4. dec[stack[i].d] \in {de[stack[i].d], Zeroed}
    BY <2>1, <2>3, FittingStructs
  <2> QED
    BY <2>3, <2>4, ZeroedFacts DEF Reads
<1> QED
  BY <1>1, Invariance, PTL

\* When the outermost scope has been left no struct points into an input or holds
\* an offset of one, and every clone is gone: the hooks have seen to what the calls
\* have not cleared themselves.  It says nothing of the object's ref_thawhash.
THEOREM DecoderNoInputKept == Spec => []NoInputKept
<1>1. IInv => NoInputKept
  <2> SUFFICES ASSUME IInv, stack = <<Block>>, NEW d \in Decoders
               PROVE  /\ dec[d].seen = None /\ ~dec[d].loaded
                      /\ d # User \/ object = "released" => dec[d] = Zeroed
    BY UserAssumption DEF NoInputKept
  <2>1. ~HasHook(stack, d)
    BY ItemFacts DEF HasHook
  <2>2. PICK de : Fits(de)
    BY Fitting
  <2>3. Owned(de, stack, d) /\ (dec[d] = de[d] \/ dec[d] = Zeroed)
    BY <2>2, FittingStructs DEF Fits, Sound
  <2> QED
    BY <2>1, <2>3, ZeroedFacts DEF Owned
<1> QED
  BY <1>1, Invariance, PTL

\* What bytes_consumed says after a call in which no other was made is the length
\* of the call's document, packed or not, whatever was decoded before.
THEOREM DecoderReportsOwnBytes == Spec => []ReportsOwnBytes
<1>1. IInv => ReportsOwnBytes
  BY DEF IInv
<1> QED
  BY <1>1, Invariance, PTL

\* The structs, the stack, the counter and the report keep their types.
THEOREM DecoderTypes == Spec => []TypeOK
<1>1. IInv => TypeOK
  <2> SUFFICES ASSUME IInv PROVE TypeOK
    OBVIOUS
  <2>1. PICK de : Fits(de)
    BY Fitting
  <2>2. dec \in [Decoders -> Decoder] /\ stack \in Seq(Item) /\ calls \in Nat
    BY <2>1, FittingStructs, UserAssumption DEF Fits, Sound, Shape
  <2> QED
    BY <2>2 DEF IInv, TypeOK, Results
<1> QED
  BY <1>1, Invariance, PTL
=============================================================================
