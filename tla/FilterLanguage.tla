--------------------------- MODULE FilterLanguage ---------------------------
(***************************************************************************)
(* The traffic filters of the addon SDK (bitahoy_sdk/filter).  A filter is *)
(* an expression over comparisons of packet fields.  It has two meanings:  *)
(* the SDK's own evaluator (filter/eval.py), by which addons are tested in *)
(* the emulator, and the kernel's, when the filter was printed as an       *)
(* expression of tcpdump (filter/ast.py), compiled (bpf_building) and      *)
(* attached to a socket.                                                   *)
(*                                                                         *)
(* A behaviour builds one filter, as an addon does; packet is any packet.  *)
(***************************************************************************)
EXTENDS Naturals, Sequences, SequencesExt

CONSTANTS
    ByteBase,           \* number of values of a byte
    Fields,         \* fields: pairs of start and stop
    Numbers,        \* numbers that fields are compared with
    MaxLength,      \* bound: length of packets
    MaxOps          \* bound: operations that build a filter

ASSUME FilterAssumption ==
    /\ ByteBase \in Nat \ {0, 1} /\ MaxLength \in Nat /\ MaxOps \in Nat
    /\ \A f \in Fields : f \in Nat \X Nat /\ f[1] < f[2]
    /\ Numbers \subseteq Nat \ {0}

VARIABLES filter, packet, ops

filterVars == <<filter, packet, ops>>

Bytes  == 0 .. ByteBase - 1
Size(f) == f[2] - f[1]

-----------------------------------------------------------------------------
(* Expressions.                                                            *)

True      == [op |-> "TRUE"]
Load(f)   == [op |-> "LD", field |-> f]
Value(n)  == [op |-> "VALUE", number |-> n]
Equals(a, b) == [op |-> "EQ", l |-> a, r |-> b]
Not(e)    == [op |-> "NOT", l |-> e]
And(a, b) == [op |-> "AND", l |-> a, r |-> b]
Or(a, b)  == [op |-> "OR", l |-> a, r |-> b]

\* unpack: the number that bytes are, most significant first.
Unpack(bytes) == FoldLeft(LAMBDA n, b : ByteBase * n + b, 0, bytes)

\* A field is compared with a field or with bytes of its size, or with a number.
Comparisons ==
    UNION {
      {Equals(Load(f), Load(g)) : g \in {h \in Fields : Size(h) = Size(f)}}
      \cup {Equals(Load(f), Value(Unpack(b))) : b \in [1 .. Size(f) -> Bytes]}
      \cup {Equals(Load(f), Value(n)) : n \in Numbers} : f \in Fields}

FilterInit ==
    /\ filter \in Comparisons \cup {True}
    /\ packet \in UNION {[1 .. n -> Bytes] : n \in 0 .. MaxLength}
    /\ ops = 0

\* TrafficFilter's methods: each makes a new filter of the old.
Builds(e) == ops < MaxOps /\ ops' = ops + 1 /\ filter' = e /\ UNCHANGED packet

Add         == \E c \in Comparisons : Builds(And(filter, c))
AddOrFilter == \E c \in Comparisons : Builds(Or(filter, c)) \/ Builds(Or(Not(c), filter))
Negate      == Builds(Not(filter))

FilterNext == Add \/ AddOrFilter \/ Negate

FilterSpec == FilterInit /\ [][FilterNext]_filterVars

-----------------------------------------------------------------------------
(* The evaluator.                                                          *)

\* What is left of the field's bytes after the packet's end counts as nothing
\* rather than zero, unless the packet is shorter than the field is long.
Read(p, f) ==
    LET padded == p \o [i \in 1 .. (Size(f) - Min({Size(f), Len(p)})) |-> 0]
    IN Unpack(SubSeq(padded, f[1] + 1, Min({f[2], Len(padded)})))

RECURSIVE Evaluate(_, _)
Evaluate(e, p) ==
    CASE e.op = "TRUE"  -> TRUE
      [] e.op = "LD"    -> Read(p, e.field)
      [] e.op = "VALUE" -> e.number
      [] e.op = "EQ"    -> Evaluate(e.l, p) = Evaluate(e.r, p)
      [] e.op = "NOT"   -> ~Evaluate(e.l, p)
      [] e.op = "AND"   -> Evaluate(e.l, p) /\ Evaluate(e.r, p)
      [] e.op = "OR"    -> Evaluate(e.l, p) \/ Evaluate(e.r, p)

-----------------------------------------------------------------------------
(* The kernel's program.  to_tcpdump_expr writes a field as ether[l:n], and *)
(* "not" right before its operand.                                         *)

StopForLength(f) == f[2]                                             \* mutant
LoadLength(f) == Size(f)

RECURSIVE LoadsOf(_)
LoadsOf(e) ==
    CASE e.op \in {"TRUE", "VALUE"} -> {}
      [] e.op = "LD"  -> {e.field}
      [] e.op = "NOT" -> LoadsOf(e.l)
      [] OTHER -> LoadsOf(e.l) \cup LoadsOf(e.r)

\* "notnot" is no word of tcpdump's.
RECURSIVE TwiceNegated(_)
TwiceNegated(e) ==
    CASE e.op \in {"TRUE", "VALUE", "LD"} -> FALSE
      [] e.op = "NOT" -> e.l.op = "NOT" \/ TwiceNegated(e.l)
      [] OTHER -> TwiceNegated(e.l) \/ TwiceNegated(e.r)

\* Its optimizer knows constants; a filter that accepts nothing is an error.
RECURSIVE Constantly(_, _)
Constantly(truth, e) ==
    CASE e.op = "TRUE" -> truth
      [] e.op = "EQ"   -> FALSE
      [] e.op = "NOT"  -> Constantly(~truth, e.l)
      [] (e.op = "AND" /\ truth) \/ (e.op = "OR" /\ ~truth) -> Constantly(truth, e.l) /\ Constantly(truth, e.r)
      [] OTHER -> Constantly(truth, e.l) \/ Constantly(truth, e.r)

\* A load is one, two or four bytes long.
Compiles(e) ==
    /\ \A f \in LoadsOf(e) : LoadLength(f) \in {1, 2, 4}
    /\ ~TwiceNegated(e) /\ ~Constantly(FALSE, e)

LoadedStop(f) == f[1] + LoadLength(f)
Number(p, e) == IF e.op = "LD" THEN Unpack(SubSeq(p, e.field[1] + 1, LoadedStop(e.field))) ELSE e.number

\* A load behind the packet's end rejects the packet, whatever was to be done
\* with the result; operands are evaluated from the left as far as needed.
RECURSIVE Kernel(_, _)
Kernel(e, p) ==
    CASE e.op = "TRUE" -> "yes"
      [] e.op = "EQ" ->
           IF \E f \in LoadsOf(e) : LoadedStop(f) > Len(p) THEN "reject"
           ELSE IF Number(p, e.l) = Number(p, e.r) THEN "yes" ELSE "no"
      [] e.op = "NOT" ->
           LET k == Kernel(e.l, p) IN CASE k = "yes" -> "no" [] k = "no" -> "yes" [] OTHER -> k
      [] e.op = "AND" -> LET k == Kernel(e.l, p) IN IF k = "yes" THEN Kernel(e.r, p) ELSE k
      [] e.op = "OR" -> LET k == Kernel(e.l, p) IN IF k = "no" THEN Kernel(e.r, p) ELSE k

-----------------------------------------------------------------------------
(* Properties.                                                             *)

LongEnough(p, e) == \A f \in LoadsOf(e) : f[2] <= Len(p)

\* An addon that was tested in the emulator gets the same packets from the
\* kernel, if its filter compiles: as far as they have all the fields it names.
\* The forwarder, which negates the filter, keeps exactly these from passing.
EvaluatorIsKernel ==
    LongEnough(packet, filter) =>
        /\ Compiles(filter) => (Kernel(filter, packet) = "yes") = Evaluate(filter, packet)
        /\ Compiles(Not(filter)) => (Kernel(Not(filter), packet) = "yes") = ~Evaluate(filter, packet)

=============================================================================
