------------------------------ MODULE RoundTrip ------------------------------
(***************************************************************************)
(* The encoder and the decoder of the Perl implementation back to back:    *)
(* the document SrlEncoder writes is what SrlDecoder reads, whole or with  *)
(* its last tokens missing.                                                *)
(***************************************************************************)
EXTENDS SrlEncoder

CONSTANTS Cuts,       \* numbers of tokens that may be missing at the end
          MaxDepth,   \* the decoder's recursion limit
          Long        \* strings too long for SHORT_BINARY, or with the UTF-8 flag
ASSUME CutsAssumption == Cuts \subseteq Nat
ASSUME LongAssumption == Long \subseteq Strings

VARIABLES cut, pos, save_pos, sv, work, tracked, ref_stashes, ref_bless_av, weakref_av,
          level, state

Received == SubSeq(out, 1, Len(out) - cut)
D == INSTANCE SrlDecoder WITH doc <- Received

dvars == <<pos, save_pos, sv, work, tracked, ref_stashes, ref_bless_av, weakref_av, level, state>>
rtvars == <<vars, cut, dvars>>

RTInit == Init /\ cut \in Cuts /\ D!DecoderInit

Encode == DumpNext /\ UNCHANGED <<cut, dvars>>
Decode == ctl = "done" /\ D!DecoderNext /\ UNCHANGED <<cut, vars>>
Over == ctl = "croak" \/ state \in {"done", "error"}
Idle == Over /\ UNCHANGED rtvars

RTNext == Encode \/ Decode \/ Idle
RTSpec == RTInit /\ [][RTNext]_rtvars /\ WF_rtvars(Encode \/ Decode)

-----------------------------------------------------------------------------
(* When are the source structure and the decoded one the same?             *)

\* References to things Sereal cannot represent end as the option says.
Unrepresentable(x) == heap[x].k = "rv" /\ heap[heap[x].to[1]].k = "code"

\* Walking both structures in step pairs each source SV with the SVs that
\* stand for it.
Twins ==
  LET kids(p) == IF Unrepresentable(p[1]) THEN {}
                 ELSE {<<heap[p[1]].to[i], sv[p[2]].to[i]>> :
                         i \in DOMAIN heap[p[1]].to \cap DOMAIN sv[p[2]].to}
      f[n \in 0 .. Cardinality(Node)] ==
        IF n = 0 THEN {<<Root, D!Into>>}
        ELSE LET S == f[n - 1] IN S \cup UNION {kids(p) : p \in S}
  IN  f[Cardinality(Node)]

SameValue(x, y) ==
  CASE Unrepresentable(x) ->
         sv[y] = [(IF opt.unknown = "undef" THEN Blank ELSE Scalar("str", heap[heap[x].to[1]].v))
                    EXCEPT !.ext = sv[y].ext, !.class = sv[y].class]
    [] heap[x].k = "imm" ->
         \/ sv[y].k = "imm" /\ sv[y].v = heap[x].v
         \/ sv[y].k = "bool" /\ sv[y].v = heap[x].v
         \/ sv[y].k = "undef" /\ heap[x].v = "CANONICAL_UNDEF"
    [] OTHER ->
         /\ sv[y].k = heap[x].k /\ sv[y].v = heap[x].v
         /\ sv[y].keys = heap[x].keys /\ Len(sv[y].to) = Len(heap[x].to)

\* A bless operator is written where a reference to the object is.
SameClass(x, y) ==
  (\E r \in Node : heap[r].k = "rv" /\ heap[r].to[1] = x) =>
     sv[y].class = IF opt.bless = "yes" THEN heap[x].class ELSE ""

\* Copies of an immortal lose their identity, as do aliased equal strings.
SameIdentity(p, q) ==
  /\ p[1] = q[1] => p[2] = q[2] \/ heap[p[1]].k = "imm"
  /\ p[2] = q[2] => \/ p[1] = q[1]
                    \/ /\ opt.dedupe = "alias" /\ heap[p[1]].k = "str"
                       /\ heap[p[1]].v = heap[q[1]].v

\* Weak references stay weak, except that one of them has to keep a referent
\* that nothing else in the document owns.
SameWeakness(twins) ==
  LET StillWeak(x) == \A p \in twins : p[1] = x => sv[p[2]].weak
  IN  \A z \in Node :
        LET w == {x \in WeakHolders(heap, z) : ~Unrepresentable(x)}
        IN  IF StrongHolders(heap, z) # {} THEN \A x \in w : StillWeak(x)
            ELSE w # {} => \E x \in w : \A v \in w : StillWeak(v) <=> v # x

SameStructure ==
  LET twins == Twins
  IN  /\ \A p \in twins : SameValue(p[1], p[2]) /\ SameClass(p[1], p[2])
      /\ \A p, q \in twins : SameIdentity(p, q)
      /\ SameWeakness(twins)

-----------------------------------------------------------------------------
(* Properties *)

\* Every whole document the encoder produces is accepted by the decoder: no
\* offset points forward, at an untracked tag or at the wrong kind of tag, no
\* ALIAS stands where there is no container, no COPY meets another COPY.  And no
\* hash has a key twice, which srl_read_hash would only notice if the value it
\* read for the first one is defined.
KeysNew == D!Doing("pair") /\ D!KeyOk => D!OldSlot = {}
NoReject == (cut = 0 => state # "error") /\ KeysNew

\* What is decoded from a whole document is the structure that was encoded:
\* equal values, the same sharing and cycles, the same classes, and weak
\* references that do not lose their referents.
RoundTripIso == state = "done" /\ cut = 0 => SameStructure

\* The decoder stops exactly behind the document (bytes_consumed, which
\* incremental decoding relies on), with no COPY or recursion level pending.
ConsumesDocument ==
  state = "done" => pos = Len(Received) + 1 /\ save_pos = 0 /\ level = 0

\* ref_seenhash holds pointers it does not count: until the document has been
\* read, an SV some REFP or ALIAS may still name has an owner, although WEAKEN
\* gives up references and ALIAS releases SVs on the way.
TrackedAlive == state = "reading" => \A ofs \in DOMAIN tracked : D!Owners(tracked[ofs]) >= 1

\* A document that lost its end is never taken for a complete one.
TruncationDetected == cut > 0 => state # "done"

\* Every document is encoded and then decoded or refused in finitely many steps.
RoundTripEnds == <>Over
=============================================================================
