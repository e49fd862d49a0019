------------------------- MODULE MethodLockstepProofs -------------------------
(***************************************************************************)
(* step() and execute() compute the same, for every set of plans whose     *)
(* kernels are deterministic and whose jumps stay in their chains, however *)
(* the two runs are interleaved.  Both follow one path of configurations,  *)
(* which grows when the run that is ahead takes an instruction.            *)
(***************************************************************************)
EXTENDS MethodLockstep, SequenceTheorems, TLAPS

\* MethodExec of plan p where step() stands before an instruction.
At(p, x) == INSTANCE MethodExec WITH
       plan <- p, chain_idx <- x.chain, instr_idx <- x.instr, values <- x.values,
       tensors <- x.tensors, input_set <- FALSE, temp <- FALSE,
       running <- FALSE, count <- 0, last <- FALSE, begun <- FALSE

-----------------------------------------------------------------------------
(* Configurations *)

Values(p) == [0 .. p.nv - 1 -> A!EValue(p.nt)]
Tensors(p) == [0 .. p.nt - 1 -> A!Tensor]

Start(p) == [chain |-> 0, instr |-> 0, values |-> p.values, tensors |-> p.tensors]
Code(p, x) == p.chains[x.chain + 1]
Ends(p, x) == x.chain = Len(p.chains)

\* Where step() may be between two calls.
Good(p, x) ==
    /\ x \in [chain : 0 .. Len(p.chains), instr : Nat, values : Values(p), tensors : Tensors(p)]
    /\ Ends(p, x) => x.instr = 0
    /\ ~Ends(p, x) => x.instr < Len(Code(p, x)) \/ (x.instr = 0 /\ Len(Code(p, x)) = 0)

\* What an instruction may yield there.
ResultOK(p, x, o) ==
    /\ o.err # "EndOfMethod"
    /\ o.err = "Ok" => /\ o.next \in 0 .. Len(Code(p, x))
                       /\ o.values \in Values(p) /\ o.tensors \in Tensors(p)
    /\ o.err # "Ok" => o.values = x.values /\ o.tensors = x.tensors

LEMMA PlanIs ==
  ASSUME NEW p \in Plans
  PROVE  /\ p.nv \in Nat /\ p.nt \in Nat /\ Len(p.chains) \in Nat \ {0}
         /\ p.chains \in Seq(Seq(A!Instr(p.nv))) /\ DOMAIN p.chains = 1 .. Len(p.chains)
         /\ p.values \in Values(p) /\ p.tensors \in Tensors(p)
<1>1. A!IsPlan(p)
  BY LockstepAssumption
<1>2. /\ p.nv \in Nat /\ p.nt \in Nat /\ p.chains \in Seq(Seq(A!Instr(p.nv))) /\ p.chains # <<>>
      /\ p.values \in Values(p) /\ p.tensors \in Tensors(p)
  BY <1>1 DEF A!IsPlan, Values, Tensors
<1>3. Len(p.chains) \in Nat \ {0} /\ DOMAIN p.chains = 1 .. Len(p.chains)
  BY <1>2, LenProperties, EmptySeq
<1> QED
  BY <1>2, <1>3

LEMMA CodeIs ==
  ASSUME NEW p \in Plans, NEW c \in 0 .. Len(p.chains), c # Len(p.chains)
  PROVE  /\ c + 1 \in DOMAIN p.chains
         /\ p.chains[c + 1] \in Seq(A!Instr(p.nv)) /\ Len(p.chains[c + 1]) \in Nat
         /\ DOMAIN p.chains[c + 1] = 1 .. Len(p.chains[c + 1])
         /\ p.chains[c + 1] = <<>> <=> Len(p.chains[c + 1]) = 0
<1>1. c + 1 \in 1 .. Len(p.chains) /\ p.chains \in Seq(Seq(A!Instr(p.nv)))
      /\ DOMAIN p.chains = 1 .. Len(p.chains)
  BY PlanIs
<1>2. p.chains[c + 1] \in Seq(A!Instr(p.nv))
  BY <1>1, ElementOfSeq
<1> QED
  BY <1>1, <1>2, LenProperties, EmptySeq

LEMMA StartIsGood ==
  ASSUME NEW p \in Plans
  PROVE  Good(p, Start(p))
<1>1. /\ Start(p).chain = 0 /\ Start(p).instr = 0
      /\ Start(p) \in [chain : 0 .. Len(p.chains), instr : Nat, values : Values(p), tensors : Tensors(p)]
  BY PlanIs DEF Start
<1>2. ~Ends(p, Start(p))
  BY <1>1, PlanIs DEF Ends
<1>3. Len(Code(p, Start(p))) \in Nat
  BY <1>1, <1>2, CodeIs DEF Code, Ends
<1> QED
  BY <1>1, <1>2, <1>3 DEF Good

-----------------------------------------------------------------------------
(* An instruction has one outcome *)

\* A kernel or a delegate that computes has one effect on its output.
LEMMA OneWrite ==
  ASSUME NEW p \in Plans, NEW x, Good(p, x), NEW out \in 0 .. p.nv - 1, NEW fn \in {"not", "id"}
  PROVE  \E ts \in Tensors(p) : At(p, x)!Writes(out, fn) = {ts}
<1> DEFINE e == x.values[out]
           old == x.tensors[e.impl].data
<1>1. p.nv \in Nat /\ p.nt \in Nat /\ x.values \in Values(p) /\ x.tensors \in Tensors(p)
  BY PlanIs DEF Good
<1>2. e \in A!EValue(p.nt)
  BY <1>1 DEF Values
<1>3. CASE e.tag # "Tensor"
  <2>1. At(p, x)!Writes(out, fn) = {x.tensors}
    BY <1>3 DEF At!Writes
  <2> QED
    BY <1>1, <2>1
<1>4. CASE e.tag = "Tensor"
  <2>1. e.impl \in 0 .. p.nt - 1
    BY <1>2, <1>4 DEF A!EValue
  <2>2. old \in {"true", "false", "null"}
    BY <1>1, <2>1 DEF Tensors, A!Tensor, A!Data
  <2>3. ASSUME NEW d \in {"true", "false", "null"}
        PROVE  [x.tensors EXCEPT ![e.impl].data = d] \in Tensors(p)
    BY <1>1, <2>1 DEF Tensors, A!Tensor, A!Data
  <2> DEFINE new == CASE old = "null" -> {"null"}
                      [] old # "null" /\ fn = "not" -> At(p, x)!Writable \ {old}
                      [] old # "null" /\ fn = "id" -> {old}
                      [] old # "null" /\ fn = "any" -> At(p, x)!Writable
  <2>4. At(p, x)!Writes(out, fn) = {[x.tensors EXCEPT ![e.impl].data = d] : d \in new}
    BY <1>4 DEF At!Writes
  <2>5. PICK d \in {"true", "false", "null"} : new = {d}
    <3>1. At(p, x)!Writable = {"true", "false"}
      BY DEF At!Writable
    <3>2. CASE old = "null"
      BY <3>2
    <3>3. CASE old # "null" /\ fn = "id"
      BY <2>2, <3>3
    <3>4. CASE old = "true" /\ fn = "not"
      <4>1. new = {"false"}
        BY <3>1, <3>4
      <4> QED
        BY <4>1
    <3>5. CASE old = "false" /\ fn = "not"
      <4>1. new = {"true"}
        BY <3>1, <3>5
      <4> QED
        BY <4>1
    <3> QED
      BY <2>2, <3>2, <3>3, <3>4, <3>5
  <2> HIDE DEF new
  <2>6. At(p, x)!Writes(out, fn) = {[x.tensors EXCEPT ![e.impl].data = d]}
    BY <2>4, <2>5
  <2> QED
    BY <2>3, <2>6
<1> QED
  BY <1>3, <1>4

LEMMA OneOutcome ==
  ASSUME NEW p \in Plans, Deterministic(p), A!JumpsInside(p), NEW x, Good(p, x), ~Ends(p, x),
         Len(Code(p, x)) # 0
  PROVE  \E o : At(p, x)!InstrOutcomes = {o} /\ ResultOK(p, x, o)
<1> DEFINE code == Code(p, x)
           ins == code[x.instr + 1]
           O == At(p, x)!InstrOutcomes
           next == x.instr + 1
<1>1. /\ x.chain \in 0 .. Len(p.chains) /\ x.chain # Len(p.chains) /\ x.instr \in Nat
      /\ x.values \in Values(p) /\ x.tensors \in Tensors(p) /\ x.instr < Len(code)
  BY DEF Good, Ends
<1>2. /\ x.chain + 1 \in DOMAIN p.chains /\ code \in Seq(A!Instr(p.nv)) /\ Len(code) \in Nat
      /\ DOMAIN code = 1 .. Len(code)
  BY <1>1, CodeIs DEF Code
<1>3. next \in 1 .. Len(code) /\ next \in DOMAIN code /\ next \in 0 .. Len(code)
  BY <1>1, <1>2
<1>4. ins \in A!Instr(p.nv)
  BY <1>2, <1>3, ElementOfSeq
<1>5. At(p, x)!Instructions = code /\ At(p, x)!Next1 = next
  BY DEF At!Instructions, At!Next1, Code
<1>6. ~(x.instr >= Len(At(p, x)!Instructions))
  BY <1>1, <1>2, <1>5
<1>7. ASSUME NEW err, NEW n, NEW vs, NEW ts
      PROVE  LET o == At(p, x)!Outcome(err, n, vs, ts)
             IN o.err = err /\ o.next = n /\ o.values = vs /\ o.tensors = ts
  BY DEF At!Outcome
<1>8. ASSUME NEW out \in 0 .. p.nv - 1, NEW fn \in {"not", "id"}, O = At(p, x)!CallOutcomes(out, fn)
      PROVE  \E o : O = {o} /\ ResultOK(p, x, o)
  <2>1. PICK ts \in Tensors(p) : At(p, x)!Writes(out, fn) = {ts}
    BY OneWrite
  <2> DEFINE o == [At(p, x)!Outcome("Ok", At(p, x)!Next1, x.values, ts) EXCEPT !.alloc = TRUE]
  <2>2. O = {o}
    BY <1>8, <2>1 DEF At!CallOutcomes
  <2>3. o.err = "Ok" /\ o.next = next /\ o.values = x.values /\ o.tensors = ts
    BY <1>5 DEF At!Outcome
  <2> HIDE DEF o
  <2>4. ResultOK(p, x, o)
    BY <1>1, <1>3, <2>1, <2>3 DEF ResultOK
  <2> QED
    BY <2>2, <2>4
<1>9. ASSUME NEW err \in {"Internal", "InvalidProgram", "InvalidState", "InvalidType"},
             NEW o, O = {o}, o.err = err, o.values = x.values, o.tensors = x.tensors
      PROVE  \E q : O = {q} /\ ResultOK(p, x, q)
  <2>1. ResultOK(p, x, o)
    BY <1>9 DEF ResultOK
  <2> QED
    BY <1>9, <2>1
<1>10. ASSUME NEW n \in 0 .. Len(code), NEW vs \in Values(p), NEW ts \in Tensors(p),
              O = {At(p, x)!Outcome("Ok", n, vs, ts)}
       PROVE  \E q : O = {q} /\ ResultOK(p, x, q)
  <2> DEFINE o == At(p, x)!Outcome("Ok", n, vs, ts)
  <2>1. o.err = "Ok" /\ o.next = n /\ o.values = vs /\ o.tensors = ts
    BY DEF At!Outcome
  <2> HIDE DEF o
  <2>2. ResultOK(p, x, o)
    BY <2>1 DEF ResultOK
  <2> QED
    BY <1>10, <2>2 DEF o
<1>11. \A c \in DOMAIN p.chains : \A i \in DOMAIN p.chains[c] :
         p.chains[c][i].op \in {"KernelCall", "DelegateCall"} => p.chains[c][i].fn # "any"
  BY DEF Deterministic
<1>12. ins.op \in {"KernelCall", "DelegateCall"} => ins.fn # "any"
  BY <1>2, <1>3, <1>11 DEF Code
<1>13. CASE ins.op = "KernelCall"
  <2>1. ins.out \in 0 .. p.nv - 1 /\ ins.fn \in {"not", "id"}
    BY <1>4, <1>12, <1>13 DEF A!Instr, A!Behaviours
  <2>2. O = At(p, x)!CallOutcomes(ins.out, ins.fn)
    BY <1>5, <1>6, <1>13 DEF At!InstrOutcomes
  <2> QED
    BY <1>8, <2>1, <2>2
<1>14. CASE ins.op = "DelegateCall"
  <2>1. ins.out \in 0 .. p.nv - 1 /\ ins.fn \in {"not", "id"}
    BY <1>4, <1>12, <1>14 DEF A!Instr, A!Behaviours
  <2>2. O = {At(p, x)!Early("Internal")} \/ O = At(p, x)!CallOutcomes(ins.out, ins.fn)
    BY <1>5, <1>6, <1>14 DEF At!InstrOutcomes
  <2>3. LET o == At(p, x)!Early("Internal")
        IN  o.err = "Internal" /\ o.values = x.values /\ o.tensors = x.tensors
    BY DEF At!Early, At!Outcome
  <2> QED
    BY <1>8, <1>9, <2>1, <2>2, <2>3
<1>15. CASE ins.op = "JumpFalseCall"
  <2>1. ins.dest \in Nat /\ ins.dest <= Len(code)
    <3>1. next \in A!Jumps(p, x.chain + 1)
      BY <1>3, <1>15 DEF A!Jumps, Code
    <3>2. p.chains[x.chain + 1][next].dest <= Len(p.chains[x.chain + 1])
      BY <1>2, <3>1 DEF A!JumpsInside
    <3>3. ins.dest \in Nat
      BY <1>4, <1>15 DEF A!Instr
    <3> QED
      BY <3>2, <3>3 DEF Code
  <2> DEFINE err == At(p, x)!CondError(ins.cond)
             n == IF err = "Ok" /\ ~At(p, x)!CondValue(ins.cond) THEN ins.dest ELSE At(p, x)!Next1
  <2>2. O = {At(p, x)!Outcome(err, n, x.values, x.tensors)}
    BY <1>5, <1>6, <1>15 DEF At!InstrOutcomes
  <2>3. err \in {"Ok", "InvalidProgram", "InvalidState"}
    BY DEF At!CondError
  <2>4. n \in 0 .. Len(code)
    BY <1>2, <1>3, <1>5, <2>1
  <2> HIDE DEF err, n
  <2>5. CASE err = "Ok"
    BY <1>1, <1>10, <2>2, <2>4, <2>5
  <2>6. CASE err # "Ok"
    BY <1>7, <1>9, <2>2, <2>3, <2>6
  <2> QED
    BY <2>5, <2>6
<1>16. CASE ins.op = "MoveCall"
  <2>1. ins.from \in 0 .. p.nv - 1 /\ ins.to \in 0 .. p.nv - 1
    BY <1>4, <1>16 DEF A!Instr
  <2> DEFINE vs == [x.values EXCEPT ![ins.to] = x.values[ins.from]]
  <2>2. vs \in Values(p)
    BY <1>1, <2>1 DEF Values
  <2>3. O = {At(p, x)!Outcome("Ok", At(p, x)!Next1, vs, x.tensors)}
    BY <1>5, <1>6, <1>16 DEF At!InstrOutcomes
  <2> HIDE DEF vs
  <2> QED
    BY <1>1, <1>3, <1>5, <1>10, <2>2, <2>3
<1>17. CASE ins.op = "FreeCall"
  <2>1. ins.value \in 0 .. p.nv - 1
    BY <1>4, <1>17 DEF A!Instr
  <2> DEFINE e == x.values[ins.value]
             ts == [x.tensors EXCEPT ![e.impl].data = "null"]
  <2>2. e \in A!EValue(p.nt)
    BY <1>1, <2>1 DEF Values
  <2>3. CASE e.tag # "Tensor"
    <3>1. O = {At(p, x)!Outcome("InvalidType", At(p, x)!Next1, x.values, x.tensors)}
      BY <1>5, <1>6, <1>17, <2>3 DEF At!InstrOutcomes
    <3> QED
      BY <1>7, <1>9, <3>1
  <2>4. CASE e.tag = "Tensor"
    <3>1. e.impl \in 0 .. p.nt - 1
      BY <2>2, <2>4, PlanIs DEF A!EValue
    <3>2. ts \in Tensors(p)
      BY <1>1, <3>1 DEF Tensors, A!Tensor, A!Data
    <3>3. O = {At(p, x)!Outcome("Ok", At(p, x)!Next1, x.values, ts)}
      BY <1>5, <1>6, <1>17, <2>4 DEF At!InstrOutcomes
    <3> HIDE DEF ts
    <3> QED
      BY <1>1, <1>3, <1>5, <1>10, <3>2, <3>3
  <2> QED
    BY <2>3, <2>4
<1> QED
  BY <1>4, <1>13, <1>14, <1>15, <1>16, <1>17 DEF A!Instr

-----------------------------------------------------------------------------
(* The path that both runs follow *)

Result(p, x) == CHOOSE o : o \in At(p, x)!InstrOutcomes

\* step() is at its end, fails, or goes on.
Fails(p, x, err) == /\ ~Ends(p, x) /\ Len(Code(p, x)) # 0
                    /\ Result(p, x).err # "Ok" /\ err = Result(p, x).err
Goes(p, x) == ~Ends(p, x) /\ (Len(Code(p, x)) = 0 \/ Result(p, x).err = "Ok")

NextChain(x, vs, ts) == [chain |-> x.chain + 1, instr |-> 0, values |-> vs, tensors |-> ts]
InChain(x, next, vs, ts) == [chain |-> x.chain, instr |-> next, values |-> vs, tensors |-> ts]
After(p, x) ==
    IF Len(Code(p, x)) = 0 THEN NextChain(x, x.values, x.tensors)
    ELSE LET o == Result(p, x) IN
         IF o.next = Len(Code(p, x)) THEN NextChain(x, o.values, o.tensors)
         ELSE InChain(x, o.next, o.values, o.tensors)

LEMMA ResultIs ==
  ASSUME NEW p \in Plans, Deterministic(p), A!JumpsInside(p), NEW x, Good(p, x), ~Ends(p, x),
         Len(Code(p, x)) # 0
  PROVE  At(p, x)!InstrOutcomes = {Result(p, x)} /\ ResultOK(p, x, Result(p, x))
<1>1. PICK o : At(p, x)!InstrOutcomes = {o} /\ ResultOK(p, x, o)
  BY OneOutcome
<1>2. Result(p, x) = o
  BY <1>1 DEF Result
<1> QED
  BY <1>1, <1>2

LEMMA AfterIsGood ==
  ASSUME NEW p \in Plans, Deterministic(p), A!JumpsInside(p), NEW x, Good(p, x), Goes(p, x)
  PROVE  Good(p, After(p, x))
<1> DEFINE y == After(p, x)
<1>1. /\ x.chain \in 0 .. Len(p.chains) /\ x.chain # Len(p.chains) /\ x.instr \in Nat
      /\ x.values \in Values(p) /\ x.tensors \in Tensors(p) /\ Len(p.chains) \in Nat
  BY PlanIs DEF Good, Goes, Ends
<1>2. ASSUME NEW vs \in Values(p), NEW ts \in Tensors(p), y = NextChain(x, vs, ts)
      PROVE  Good(p, y)
  <2>1. /\ y.chain = x.chain + 1 /\ y.instr = 0
        /\ y \in [chain : 0 .. Len(p.chains), instr : Nat, values : Values(p), tensors : Tensors(p)]
    BY <1>1, <1>2 DEF NextChain
  <2> HIDE DEF y
  <2>2. ~Ends(p, y) => Len(Code(p, y)) \in Nat
    BY <2>1, CodeIs DEF Code, Ends
  <2> QED
    BY <2>1, <2>2 DEF Good
<1>3. CASE Len(Code(p, x)) = 0
  BY <1>1, <1>2, <1>3 DEF After
<1>4. CASE Len(Code(p, x)) # 0
  <2> DEFINE o == Result(p, x)
  <2>1. ResultOK(p, x, o) /\ o.err = "Ok"
    BY <1>4, ResultIs DEF Goes
  <2>2. o.next \in 0 .. Len(Code(p, x)) /\ o.values \in Values(p) /\ o.tensors \in Tensors(p)
    BY <2>1 DEF ResultOK
  <2>3. CASE o.next = Len(Code(p, x))
    BY <1>2, <1>4, <2>2, <2>3 DEF After
  <2>4. CASE o.next # Len(Code(p, x))
    <3>1. y = InChain(x, o.next, o.values, o.tensors)
      BY <1>4, <2>4 DEF After
    <3> HIDE DEF o, y
    <3>2. Len(Code(p, x)) \in Nat
      BY <1>1, CodeIs DEF Code
    <3>3. /\ y.chain = x.chain /\ y.instr = o.next
          /\ y \in [chain : 0 .. Len(p.chains), instr : Nat, values : Values(p), tensors : Tensors(p)]
      BY <1>1, <2>2, <3>1, <3>2 DEF InChain
    <3>4. y.instr < Len(Code(p, y)) /\ ~Ends(p, y)
      BY <1>1, <2>2, <2>4, <3>2, <3>3 DEF Code, Ends
    <3>5. Good(p, y)
      BY <3>3, <3>4 DEF Good
    <3> QED
      BY <3>5 DEF y
  <2> QED
    BY <2>3, <2>4
<1> QED
  BY <1>3, <1>4

Path(p, n, g) == /\ n \in Nat /\ g[0] = Start(p)
                 /\ \A k \in 0 .. n : Good(p, g[k])
                 /\ \A k \in 0 .. n - 1 : Goes(p, g[k]) /\ g[k + 1] = After(p, g[k])

\* The run that is ahead makes the path longer, the other one finds its next
\* configuration on it.
LEMMA PathGoesOn ==
  ASSUME NEW p \in Plans, Deterministic(p), A!JumpsInside(p), NEW n, NEW g, Path(p, n, g),
         NEW i \in 0 .. n, Goes(p, g[i])
  PROVE  \E n2, g2 : /\ Path(p, n2, g2) /\ 0 .. n \subseteq 0 .. n2 /\ i + 1 \in 0 .. n2
                     /\ \A k \in 0 .. n : g2[k] = g[k]
                     /\ g2[i + 1] = After(p, g[i])
<1>1. n \in Nat /\ i \in Nat
  BY DEF Path
<1>2. CASE i # n
  <2>1. i \in 0 .. n - 1 /\ i + 1 \in 0 .. n
    BY <1>1, <1>2
  <2>2. g[i + 1] = After(p, g[i])
    BY <2>1 DEF Path
  <2> QED
    BY <2>1, <2>2
<1>3. CASE i = n
  <2> DEFINE y == After(p, g[n])
             h == [k \in 0 .. n + 1 |-> IF k = n + 1 THEN y ELSE g[k]]
  <2>1. Good(p, g[n]) /\ Good(p, y)
    <3>1. Good(p, g[n])
      BY <1>1 DEF Path
    <3> QED
      BY <1>3, <3>1, AfterIsGood
  <2> HIDE DEF y
  <2>2. /\ \A k \in 0 .. n : h[k] = g[k] /\ k \in 0 .. n + 1
        /\ h[n + 1] = y /\ n + 1 \in 0 .. n + 1
    BY <1>1
  <2>3. \A k \in 0 .. n + 1 : k \in 0 .. n \/ k = n + 1
    BY <1>1
  <2>4. (n + 1) - 1 = n /\ n + 1 \in Nat /\ 0 \in 0 .. n
    BY <1>1
  <2> HIDE DEF h
  <2>5. \A k \in 0 .. n + 1 : Good(p, h[k])
    BY <2>1, <2>2, <2>3 DEF Path
  <2>6. ASSUME NEW k \in 0 .. n PROVE Goes(p, h[k]) /\ h[k + 1] = After(p, h[k])
    <3>1. CASE k = n
      BY <1>3, <2>2, <3>1 DEF y
    <3>2. CASE k # n
      <4>1. k \in 0 .. n - 1 /\ k + 1 \in 0 .. n
        BY <1>1, <3>2
      <4> QED
        BY <2>2, <4>1 DEF Path
    <3> QED
      BY <3>1, <3>2
  <2>7. Path(p, n + 1, h)
    <3>1. g[0] = Start(p)
      BY DEF Path
    <3>2. h[0] = Start(p)
      BY <2>2, <2>4, <3>1
    <3> QED
      BY <2>4, <2>5, <2>6, <3>2 DEF Path
  <2> QED
    BY <1>3, <2>2, <2>7 DEF y
<1> QED
  BY <1>2, <1>3

-----------------------------------------------------------------------------
(* The run by execute() *)

\* execute() stands at a configuration, or at the end of the chain before it.
ACursor(x) ==
    \/ a_chain = x.chain /\ (a_instr = x.instr \/ Ends(plan, x))
    \/ /\ a_chain \in 0 .. Len(plan.chains) - 1 /\ x.chain = a_chain + 1 /\ x.instr = 0
       /\ Len(plan.chains[a_chain + 1]) # 0 /\ a_instr = Len(plan.chains[a_chain + 1])

\* execute() has given up at the limit, or has failed in the last instruction
\* that it allows, which its error does not tell apart.
CutOff == ADone /\ a_last.err = "InvalidProgram" /\ ~(a_count < MaxInstructions)

\* What execute() has returned.  A run that was cut off has reported nothing.
AReport(x) == ~CutOff =>
                 IF a_last.err = "Ok" THEN Ends(plan, x) ELSE Fails(plan, x, a_last.err)

ARun(x) ==
    /\ a_values = x.values /\ a_tensors = x.tensors
    /\ \/ ~a_running /\ a_last.call \in {"load", "get_inputs"} /\ x = Start(plan)
       \/ a_running /\ a_last.call = "get_inputs" /\ ACursor(x)
       \/ ~a_running /\ a_last.call = "execute" /\ AReport(x)

LEMMA ASees ==
  ASSUME NEW p, plan = p, NEW x,
         a_chain = x.chain, a_instr = x.instr, a_values = x.values, a_tensors = x.tensors
  PROVE  A!InstrOutcomes = At(p, x)!InstrOutcomes
BY DEF A!InstrOutcomes, At!InstrOutcomes, A!Early, At!Early, A!Outcome, At!Outcome,
       A!Next1, At!Next1, A!Instructions, At!Instructions, A!CallOutcomes, At!CallOutcomes,
       A!Writes, At!Writes, A!CondError, At!CondError, A!CondValue, At!CondValue,
       A!Writable, At!Writable

LEMMA AInstruction ==
  ASSUME NEW p \in Plans, Deterministic(p), A!JumpsInside(p), plan = p, NEW x, Good(p, x), ARun(x),
         a_running, A!ExecuteInstruction
  PROVE  \/ plan' = plan /\ ARun(x)'
         \/ plan' = plan /\ Goes(p, x) /\ ARun(After(p, x))'
<1> DEFINE o == Result(p, x)
<1>1. a_values = x.values /\ a_tensors = x.tensors /\ a_last.call = "get_inputs" /\ ACursor(x)
  BY DEF ARun
<1>2. /\ a_chain < Len(p.chains) /\ a_instr < Len(p.chains[a_chain + 1]) /\ plan' = plan
  BY DEF A!ExecuteInstruction, A!InChain, A!n_chains, A!Instructions
<1>3. x.chain \in 0 .. Len(p.chains) /\ Len(p.chains) \in Nat /\ x.instr \in Nat
  BY PlanIs DEF Good
<1>4. /\ a_chain = x.chain /\ a_instr = x.instr /\ ~Ends(p, x)
      /\ Len(Code(p, x)) \in Nat /\ Len(Code(p, x)) # 0 /\ x.instr < Len(Code(p, x))
  <2>1. CASE a_chain = x.chain /\ (a_instr = x.instr \/ Ends(p, x))
    <3>1. ~Ends(p, x) /\ a_instr = x.instr
      BY <1>2, <1>3, <2>1 DEF Ends
    <3>2. Len(Code(p, x)) \in Nat
      BY <1>3, <3>1, CodeIs DEF Code, Ends
    <3> QED
      BY <1>2, <1>3, <2>1, <3>1, <3>2 DEF Code
  <2>2. CASE /\ a_chain \in 0 .. Len(p.chains) - 1
             /\ a_instr = Len(p.chains[a_chain + 1])
    <3>1. Len(p.chains[a_chain + 1]) \in Nat
      BY <1>3, <2>2, CodeIs
    <3> QED
      BY <1>2, <2>2, <3>1
  <2> QED
    BY <1>1, <2>1, <2>2 DEF ACursor
<1>5. A!InstrOutcomes = {o} /\ ResultOK(p, x, o)
  <2>1. A!InstrOutcomes = At(p, x)!InstrOutcomes
    BY <1>1, <1>4, ASees
  <2> QED
    BY <1>4, <2>1, ResultIs
<1> HIDE DEF o
<1>6. /\ a_values' = o.values /\ a_tensors' = o.tensors
      /\ IF o.err = "Ok"
         THEN a_instr' = o.next /\ a_chain' = a_chain /\ a_running' = a_running /\ a_last' = a_last
         ELSE A!ExecuteReturn(o.err)
  BY <1>5 DEF A!ExecuteInstruction, A!Commit
<1>7. CASE o.err = "Ok"
  <2> DEFINE y == After(p, x)
             len == Len(Code(p, x))
  <2>1. o.next \in 0 .. len /\ o.values \in Values(p) /\ o.tensors \in Tensors(p)
    BY <1>5, <1>7 DEF ResultOK
  <2>2. Goes(p, x)
    BY <1>4, <1>7 DEF Goes, o
  <2>3. y = IF o.next = len THEN NextChain(x, o.values, o.tensors)
            ELSE InChain(x, o.next, o.values, o.tensors)
    BY <1>4 DEF After, o
  <2>4. CASE o.next = len
    <3>1. y.chain = x.chain + 1 /\ y.instr = 0 /\ y.values = o.values /\ y.tensors = o.tensors
      BY <2>3, <2>4 DEF NextChain
    <3>2. a_chain' = x.chain /\ a_instr' = Len(p.chains[x.chain + 1])
      BY <1>4, <1>6, <1>7, <2>4 DEF Code
    <3>3. x.chain \in 0 .. Len(p.chains) - 1 /\ Len(p.chains[x.chain + 1]) # 0
      BY <1>3, <1>4 DEF Ends, Code
    <3> HIDE DEF y
    <3>4. ACursor(y)'
      BY <1>2, <3>1, <3>2, <3>3 DEF ACursor
    <3>5. ARun(y)'
      BY <1>1, <1>6, <1>7, <3>1, <3>4 DEF ARun
    <3> QED
      BY <1>2, <2>2, <3>5 DEF y
  <2>5. CASE o.next # len
    <3>1. y.chain = x.chain /\ y.instr = o.next /\ y.values = o.values /\ y.tensors = o.tensors
      BY <2>3, <2>5 DEF InChain
    <3> HIDE DEF y
    <3>2. ACursor(y)'
      BY <1>4, <1>6, <1>7, <3>1 DEF ACursor
    <3>3. ARun(y)'
      BY <1>1, <1>6, <1>7, <3>1, <3>2 DEF ARun
    <3> QED
      BY <1>2, <2>2, <3>3 DEF y
  <2> QED
    BY <2>4, <2>5
<1>8. CASE o.err # "Ok"
  <2>1. o.values = x.values /\ o.tensors = x.tensors
    BY <1>5, <1>8 DEF ResultOK
  <2>2. ~a_running' /\ a_last'.call = "execute" /\ a_last'.err = o.err
    BY <1>6, <1>8 DEF A!ExecuteReturn, A!Returns
  <2>3. Fails(p, x, o.err)
    BY <1>4, <1>8 DEF Fails, o
  <2>4. AReport(x)'
    BY <1>2, <1>8, <2>2, <2>3 DEF AReport
  <2> QED
    BY <1>2, <1>6, <2>1, <2>2, <2>4 DEF ARun
<1> QED
  BY <1>7, <1>8

LEMMA ANextChain ==
  ASSUME NEW p \in Plans, plan = p, NEW x, Good(p, x), ARun(x),
         a_running, A!ExecuteNextChain
  PROVE  \/ plan' = plan /\ ARun(x)'
         \/ plan' = plan /\ Goes(p, x) /\ ARun(After(p, x))'
<1>1. a_values = x.values /\ a_tensors = x.tensors /\ a_last.call = "get_inputs" /\ ACursor(x)
  BY DEF ARun
<1>2. /\ a_chain < Len(p.chains) /\ a_instr >= Len(p.chains[a_chain + 1]) /\ plan' = plan
      /\ a_chain' = a_chain + 1
      /\ a_instr' = IF a_chain + 1 < Len(p.chains) THEN 0 ELSE a_instr
      /\ a_values' = a_values /\ a_tensors' = a_tensors /\ a_running' = a_running /\ a_last' = a_last
  BY DEF A!ExecuteNextChain, A!n_chains, A!Instructions, A!data
<1>3. x.chain \in 0 .. Len(p.chains) /\ Len(p.chains) \in Nat /\ x.instr \in Nat
  BY PlanIs DEF Good
<1>4. CASE a_chain = x.chain /\ (a_instr = x.instr \/ Ends(p, x))
  <2>1. ~Ends(p, x) /\ a_instr = x.instr
    BY <1>2, <1>3, <1>4 DEF Ends
  <2>2. Len(Code(p, x)) \in Nat
    BY <1>3, <2>1, CodeIs DEF Code, Ends
  <2>3. Len(Code(p, x)) = 0 /\ x.instr = 0
    BY <1>2, <1>3, <1>4, <2>1, <2>2 DEF Good, Code
  <2> DEFINE y == After(p, x)
  <2>4. y.chain = x.chain + 1 /\ y.instr = 0 /\ y.values = x.values /\ y.tensors = x.tensors
    BY <2>3 DEF After, NextChain
  <2>5. Goes(p, x)
    BY <2>1, <2>3 DEF Goes
  <2> HIDE DEF y
  <2>6. ACursor(y)'
    BY <1>2, <1>4, <2>1, <2>3, <2>4 DEF ACursor
  <2>7. ARun(y)'
    BY <1>1, <1>2, <2>4, <2>6 DEF ARun
  <2> QED
    BY <1>2, <2>5, <2>7 DEF y
<1>5. CASE x.chain = a_chain + 1 /\ x.instr = 0
  <2>1. ACursor(x)'
    <3>1. a_chain + 1 < Len(p.chains) \/ Ends(p, x)
      BY <1>3, <1>5 DEF Ends
    <3> QED
      BY <1>2, <1>5, <3>1 DEF ACursor
  <2> QED
    BY <1>1, <1>2, <2>1 DEF ARun
<1> QED
  BY <1>1, <1>4, <1>5 DEF ACursor

LEMMA AStep ==
  ASSUME NEW p \in Plans, Deterministic(p), A!JumpsInside(p), plan = p, NEW x, Good(p, x), ARun(x),
         Execute
  PROVE  \/ plan' = plan /\ ARun(x)'
         \/ plan' = plan /\ Goes(p, x) /\ ARun(After(p, x))'
<1>1. CASE a_last.call = "load" /\ ~a_running /\ A!GetInputs(A!Ordinals)
  <2>1. /\ plan' = plan /\ a_values' = a_values /\ a_tensors' = a_tensors
        /\ a_running' = a_running /\ a_last'.call = "get_inputs"
    BY <1>1 DEF A!GetInputs, A!Returns, A!data
  <2>2. x = Start(plan) /\ a_values = x.values /\ a_tensors = x.tensors
    BY <1>1 DEF ARun
  <2> QED
    BY <1>1, <2>1, <2>2 DEF ARun
<1>2. CASE a_last.call = "get_inputs" /\ A!ExecuteBegin
  <2>1. /\ plan' = plan /\ a_values' = a_values /\ a_tensors' = a_tensors /\ ~a_running
        /\ a_running' = TRUE /\ a_last' = a_last /\ a_chain' = 0 /\ a_instr' = 0
    BY <1>2 DEF A!ExecuteBegin, A!data
  <2>2. x = Start(plan) /\ a_values = x.values /\ a_tensors = x.tensors
    BY <1>2, <2>1 DEF ARun
  <2>3. ACursor(x)'
    BY <2>1, <2>2 DEF ACursor, Start
  <2> QED
    BY <1>2, <2>1, <2>2, <2>3 DEF ARun
<1>3. CASE A!Executing
  <2>1. a_running
    BY <1>3 DEF A!Executing, A!ExecuteLimit, A!ExecuteInstruction, A!ExecuteNextChain,
                A!ExecuteEnd, A!InChain
  <2>2. a_values = x.values /\ a_tensors = x.tensors /\ ACursor(x)
    BY <2>1 DEF ARun
  <2>3. CASE A!ExecuteLimit
    <3>1. /\ plan' = plan /\ a_values' = a_values /\ a_tensors' = a_tensors
          /\ ~a_running' /\ a_last'.call = "execute"
          /\ a_last'.err = "InvalidProgram" /\ ~(a_count' < MaxInstructions)
      BY <2>3 DEF A!ExecuteLimit, A!ExecuteReturn, A!Returns, A!UnderLimit, A!data
    <3> QED
      BY <2>2, <3>1 DEF ARun, AReport, CutOff, ADone
  <2>4. CASE A!ExecuteInstruction
    BY <2>1, <2>4, AInstruction
  <2>5. CASE A!ExecuteNextChain
    BY <2>1, <2>5, ANextChain
  <2>6. CASE A!ExecuteEnd
    <3>1. /\ plan' = plan /\ a_values' = a_values /\ a_tensors' = a_tensors
          /\ ~a_running' /\ a_last'.call = "execute" /\ a_last'.err = "Ok"
          /\ a_chain = Len(p.chains)
      BY <2>6 DEF A!ExecuteEnd, A!ExecuteReturn, A!Returns, A!n_chains, A!data
    <3>2. Len(p.chains) \in Nat
      BY PlanIs
    <3>3. Ends(p, x)
      BY <2>2, <3>1, <3>2 DEF ACursor, Ends
    <3>4. AReport(x)'
      BY <3>1, <3>3 DEF AReport
    <3> QED
      BY <2>2, <3>1, <3>4 DEF ARun
  <2> QED
    BY <1>3, <2>3, <2>4, <2>5, <2>6 DEF A!Executing
<1> QED
  BY <1>1, <1>2, <1>3 DEF Execute

-----------------------------------------------------------------------------
(* The run by step() *)

BRun(x) ==
    /\ b_chain = x.chain /\ b_instr = x.instr /\ b_values = x.values /\ b_tensors = x.tensors
    /\ b_last.err = "EndOfMethod" => Ends(plan, x)
    /\ b_last.err \notin {"Ok", "EndOfMethod"} => Fails(plan, x, b_last.err)

LEMMA BSees ==
  ASSUME NEW p, plan = p, NEW x,
         b_chain = x.chain, b_instr = x.instr, b_values = x.values, b_tensors = x.tensors
  PROVE  B!InstrOutcomes = At(p, x)!InstrOutcomes
BY DEF B!InstrOutcomes, At!InstrOutcomes, B!Early, At!Early, B!Outcome, At!Outcome,
       B!Next1, At!Next1, B!Instructions, At!Instructions, B!CallOutcomes, At!CallOutcomes,
       B!Writes, At!Writes, B!CondError, At!CondError, B!CondValue, At!CondValue,
       B!Writable, At!Writable

LEMMA BInstruction ==
  ASSUME NEW p \in Plans, Deterministic(p), A!JumpsInside(p), plan = p, NEW x, Good(p, x), BRun(x),
         B!StepInstruction
  PROVE  \/ plan' = plan /\ BRun(x)'
         \/ plan' = plan /\ Goes(p, x) /\ BRun(After(p, x))'
<1> DEFINE o == Result(p, x)
           code == Code(p, x)
<1>1. b_chain = x.chain /\ b_instr = x.instr /\ b_values = x.values /\ b_tensors = x.tensors
  BY DEF BRun
<1>2. b_chain < Len(p.chains) /\ p.chains[b_chain + 1] # <<>> /\ plan' = plan
  BY DEF B!StepInstruction, B!n_chains, B!Instructions
<1>3. x.chain \in 0 .. Len(p.chains) /\ Len(p.chains) \in Nat /\ x.instr \in Nat
  BY PlanIs DEF Good
<1>4. ~Ends(p, x) /\ Len(code) \in Nat /\ Len(code) # 0 /\ x.instr < Len(code)
  <2>1. ~Ends(p, x)
    BY <1>1, <1>2, <1>3 DEF Ends
  <2>2. Len(code) \in Nat /\ Len(code) # 0
    BY <1>1, <1>2, <1>3, <2>1, CodeIs DEF Code, Ends
  <2> QED
    BY <2>1, <2>2 DEF Good
<1>5. B!InstrOutcomes = {o} /\ ResultOK(p, x, o)
  <2>1. B!InstrOutcomes = At(p, x)!InstrOutcomes
    BY <1>1, BSees
  <2> QED
    BY <1>4, <2>1, ResultIs
<1>6. B!Instructions = code
  BY <1>1 DEF B!Instructions, Code
<1> HIDE DEF o
<1>7. /\ b_values' = o.values /\ b_tensors' = o.tensors /\ B!StepCursor(o) /\ b_last'.err = o.err
  BY <1>5 DEF B!StepInstruction, B!Commit, B!Returns
<1>8. CASE o.err = "Ok"
  <2> DEFINE y == After(p, x)
  <2>1. o.next \in 0 .. Len(code) /\ o.values \in Values(p) /\ o.tensors \in Tensors(p)
    BY <1>5, <1>8 DEF ResultOK
  <2>2. Goes(p, x)
    BY <1>4, <1>8 DEF Goes, o
  <2>3. y = IF o.next = Len(code) THEN NextChain(x, o.values, o.tensors)
            ELSE InChain(x, o.next, o.values, o.tensors)
    BY <1>4 DEF After, o
  <2>4. B!Committed(o) = o.next
    BY <1>8 DEF B!Committed
  <2>5. /\ b_instr' = IF o.next = Len(code) THEN 0 ELSE o.next
        /\ b_chain' = IF o.next = Len(code) THEN b_chain + 1 ELSE b_chain
    BY <1>6, <1>7, <1>8, <2>4 DEF B!StepCursor, B!ChainDone
  <2>6. y.chain = b_chain' /\ y.instr = b_instr' /\ y.values = o.values /\ y.tensors = o.tensors
    BY <1>1, <2>3, <2>5 DEF NextChain, InChain
  <2> HIDE DEF y
  <2>7. BRun(y)'
    BY <1>7, <1>8, <2>6 DEF BRun
  <2> QED
    BY <1>2, <2>2, <2>7 DEF y
<1>9. CASE o.err # "Ok"
  <2>1. o.values = x.values /\ o.tensors = x.tensors /\ o.err # "EndOfMethod"
    BY <1>5, <1>9 DEF ResultOK
  <2>2. b_instr' = b_instr /\ b_chain' = b_chain
    BY <1>7, <1>9 DEF B!StepCursor, B!ChainDone, B!Committed
  <2>3. Fails(p, x, o.err)
    BY <1>4, <1>9 DEF Fails, o
  <2> QED
    BY <1>1, <1>2, <1>7, <2>1, <2>2, <2>3 DEF BRun
<1> QED
  BY <1>8, <1>9

LEMMA BStep ==
  ASSUME NEW p \in Plans, Deterministic(p), A!JumpsInside(p), plan = p, NEW x, Good(p, x), BRun(x),
         Step
  PROVE  \/ plan' = plan /\ BRun(x)'
         \/ plan' = plan /\ Goes(p, x) /\ BRun(After(p, x))'
<1>1. b_chain = x.chain /\ b_instr = x.instr /\ b_values = x.values /\ b_tensors = x.tensors
  BY DEF BRun
<1>2. CASE B!StepAtEnd
  <2>1. /\ plan' = plan /\ b_chain' = b_chain /\ b_instr' = b_instr /\ b_values' = b_values
        /\ b_tensors' = b_tensors /\ b_last'.err = "EndOfMethod" /\ b_chain = Len(p.chains)
    BY <1>2 DEF B!StepAtEnd, B!Returns, B!stepState, B!data, B!n_chains
  <2> QED
    BY <1>1, <2>1 DEF BRun, Ends
<1>3. CASE B!StepEmptyChain
  <2>1. /\ plan' = plan /\ b_chain' = b_chain + 1 /\ b_instr' = b_instr /\ b_values' = b_values
        /\ b_tensors' = b_tensors /\ b_last'.err = "Ok" /\ b_chain < Len(p.chains)
        /\ p.chains[b_chain + 1] = <<>>
    BY <1>3 DEF B!StepEmptyChain, B!Returns, B!data, B!n_chains, B!Instructions
  <2>2. x.chain \in 0 .. Len(p.chains) /\ Len(p.chains) \in Nat /\ x.instr \in Nat
    BY PlanIs DEF Good
  <2>3. ~Ends(p, x)
    BY <1>1, <2>1, <2>2 DEF Ends
  <2>4. Len(Code(p, x)) = 0
    BY <1>1, <2>1, <2>2, <2>3, CodeIs DEF Code, Ends
  <2>5. x.instr = 0
    BY <2>2, <2>3, <2>4 DEF Good
  <2> DEFINE y == After(p, x)
  <2>6. y.chain = x.chain + 1 /\ y.instr = 0 /\ y.values = x.values /\ y.tensors = x.tensors
    BY <2>4 DEF After, NextChain
  <2>7. Goes(p, x)
    BY <2>3, <2>4 DEF Goes
  <2> HIDE DEF y
  <2>8. BRun(y)'
    BY <1>1, <2>1, <2>5, <2>6 DEF BRun
  <2> QED
    BY <2>1, <2>7, <2>8 DEF y
<1>4. CASE B!StepInstruction
  BY <1>4, BInstruction
<1> QED
  BY <1>2, <1>3, <1>4 DEF Step, B!Step

-----------------------------------------------------------------------------
(* Both runs are on one path *)

OnPath(n, g, i, j) == /\ Path(plan, n, g)
                      /\ i \in 0 .. n /\ j \in 0 .. n
                      /\ ARun(g[i]) /\ BRun(g[j])

LockstepInv == plan \in Plans /\ \E n, g, i, j : OnPath(n, g, i, j)

LEMMA LockstepInit ==
  ASSUME Init
  PROVE  LockstepInv
<1> DEFINE x == Start(plan)
           g == [k \in 0 .. 0 |-> x]
<1>1. /\ plan \in Plans
      /\ a_chain = 0 /\ a_instr = 0 /\ a_values = plan.values /\ a_tensors = plan.tensors
      /\ ~a_running /\ a_last.call = "load"
      /\ b_chain = 0 /\ b_instr = 0 /\ b_values = plan.values /\ b_tensors = plan.tensors
      /\ b_last.err = "Ok"
  BY DEF Init, A!Init, B!Init
<1>2. Good(plan, x)
  BY <1>1, StartIsGood
<1>3. /\ x.chain = 0 /\ x.instr = 0 /\ x.values = plan.values /\ x.tensors = plan.tensors
  BY DEF Start
<1>4. ARun(x)
  BY <1>1, <1>3 DEF ARun
<1>5. BRun(x)
  BY <1>1, <1>3 DEF BRun
<1> HIDE DEF x
<1>6. g[0] = x /\ 0 \in 0 .. 0 /\ \A k \in 0 .. 0 : k = 0
  OBVIOUS
<1>7. \A k \in 0 .. 0 - 1 : FALSE
  OBVIOUS
<1> HIDE DEF g
<1>8. Path(plan, 0, g)
  BY <1>2, <1>6, <1>7 DEF Path, x
<1>9. OnPath(0, g, 0, 0)
  BY <1>4, <1>5, <1>6, <1>8 DEF OnPath
<1> QED
  BY <1>1, <1>9 DEF LockstepInv

LEMMA LockstepNext ==
  ASSUME \A p \in Plans : Deterministic(p) /\ A!JumpsInside(p), LockstepInv, [Next]_vars
  PROVE  LockstepInv'
<1>1. plan \in Plans /\ Deterministic(plan) /\ A!JumpsInside(plan)
  BY DEF LockstepInv
<1>2. PICK n, g, i, j : OnPath(n, g, i, j)
  BY DEF LockstepInv
<1>3. /\ Path(plan, n, g) /\ i \in 0 .. n /\ j \in 0 .. n /\ ARun(g[i]) /\ BRun(g[j])
      /\ Good(plan, g[i]) /\ Good(plan, g[j])
  BY <1>2 DEF OnPath, Path
<1>4. ASSUME plan' = plan, UNCHANGED aVars, NEW x, ARun(x) PROVE ARun(x)'
  BY <1>4 DEF aVars, ARun, ACursor, AReport, CutOff, ADone
<1>5. ASSUME plan' = plan, UNCHANGED bVars, NEW x, BRun(x) PROVE BRun(x)'
  BY <1>5 DEF bVars, BRun
<1>6. CASE Execute /\ UNCHANGED bVars
  <2>1. \/ plan' = plan /\ ARun(g[i])'
        \/ plan' = plan /\ Goes(plan, g[i]) /\ ARun(After(plan, g[i]))'
    BY <1>1, <1>3, <1>6, AStep
  <2>2. BRun(g[j])'
    BY <1>3, <1>5, <1>6, <2>1
  <2>3. CASE plan' = plan /\ ARun(g[i])'
    <3>1. OnPath(n, g, i, j)'
      BY <1>3, <2>2, <2>3 DEF OnPath
    <3> QED
      BY <1>1, <2>3, <3>1 DEF LockstepInv
  <2>4. CASE plan' = plan /\ Goes(plan, g[i]) /\ ARun(After(plan, g[i]))'
    <3>1. PICK n2, g2 : /\ Path(plan, n2, g2) /\ 0 .. n \subseteq 0 .. n2 /\ i + 1 \in 0 .. n2
                        /\ \A k \in 0 .. n : g2[k] = g[k]
                        /\ g2[i + 1] = After(plan, g[i])
      BY <1>1, <1>3, <2>4, PathGoesOn
    <3>2. j \in 0 .. n2 /\ g2[j] = g[j]
      BY <1>3, <3>1
    <3>3. OnPath(n2, g2, i + 1, j)'
      BY <2>2, <2>4, <3>1, <3>2 DEF OnPath
    <3> QED
      BY <1>1, <2>4, <3>3 DEF LockstepInv
  <2> QED
    BY <2>1, <2>3, <2>4
<1>7. CASE Step /\ UNCHANGED aVars
  <2>1. \/ plan' = plan /\ BRun(g[j])'
        \/ plan' = plan /\ Goes(plan, g[j]) /\ BRun(After(plan, g[j]))'
    BY <1>1, <1>3, <1>7, BStep
  <2>2. ARun(g[i])'
    BY <1>3, <1>4, <1>7, <2>1
  <2>3. CASE plan' = plan /\ BRun(g[j])'
    <3>1. OnPath(n, g, i, j)'
      BY <1>3, <2>2, <2>3 DEF OnPath
    <3> QED
      BY <1>1, <2>3, <3>1 DEF LockstepInv
  <2>4. CASE plan' = plan /\ Goes(plan, g[j]) /\ BRun(After(plan, g[j]))'
    <3>1. PICK n2, g2 : /\ Path(plan, n2, g2) /\ 0 .. n \subseteq 0 .. n2 /\ j + 1 \in 0 .. n2
                        /\ \A k \in 0 .. n : g2[k] = g[k]
                        /\ g2[j + 1] = After(plan, g[j])
      BY <1>1, <1>3, <2>4, PathGoesOn
    <3>2. i \in 0 .. n2 /\ g2[i] = g[i]
      BY <1>3, <3>1
    <3>3. OnPath(n2, g2, i, j + 1)'
      BY <2>2, <2>4, <3>1, <3>2 DEF OnPath
    <3> QED
      BY <1>1, <2>4, <3>3 DEF LockstepInv
  <2> QED
    BY <2>1, <2>3, <2>4
<1>8. CASE UNCHANGED vars
  <2>1. plan' = plan /\ UNCHANGED aVars /\ UNCHANGED bVars
    BY <1>8 DEF vars
  <2>2. OnPath(n, g, i, j)'
    BY <1>3, <1>4, <1>5, <2>1 DEF OnPath
  <2> QED
    BY <1>1, <2>1, <2>2 DEF LockstepInv
<1> QED
  BY <1>6, <1>7, <1>8 DEF Next

\* Two runs that are over stand at the end of the path, and one configuration
\* cannot be an end and a failure, nor two failures.
LEMMA LockstepAgrees ==
  ASSUME LockstepInv, ~CutOff
  PROVE  Agree
<1>1. PICK n, g, i, j : OnPath(n, g, i, j)
  BY DEF LockstepInv
<1>2. Path(plan, n, g) /\ i \in 0 .. n /\ j \in 0 .. n /\ ARun(g[i]) /\ BRun(g[j]) /\ n \in Nat
  BY <1>1 DEF OnPath, Path
<1>3. ASSUME ADone
      PROVE  /\ a_values = g[i].values /\ a_tensors = g[i].tensors
             /\ a_last.err = "Ok" => Ends(plan, g[i])
             /\ a_last.err # "Ok" => Fails(plan, g[i], a_last.err)
  BY <1>2, <1>3 DEF ADone, ARun, AReport
<1>4. /\ b_values = g[j].values /\ b_tensors = g[j].tensors
      /\ BEnded => Ends(plan, g[j])
      /\ BFailed => Fails(plan, g[j], b_last.err)
  BY <1>2 DEF BRun, BEnded, BFailed
<1>5. ASSUME NEW k \in 0 .. n, Ends(plan, g[k]) \/ \E err : Fails(plan, g[k], err)
      PROVE  k = n
  <2>1. ~Goes(plan, g[k])
    BY <1>5 DEF Goes, Fails
  <2>2. k \notin 0 .. n - 1
    BY <1>2, <2>1 DEF Path
  <2> QED
    BY <1>2, <2>2
<1>6. ASSUME ADone, BEnded \/ BFailed
      PROVE  i = j
  BY <1>2, <1>3, <1>4, <1>5, <1>6
<1>7. ADone /\ (BEnded \/ BFailed) => a_values = b_values /\ a_tensors = b_tensors
  BY <1>3, <1>4, <1>6
<1>8. ASSUME ADone, BFailed
      PROVE  a_last.err = b_last.err
  BY <1>3, <1>4, <1>6, <1>8 DEF Fails
<1>9. ASSUME ADone, BEnded
      PROVE  a_last.err = "Ok"
  BY <1>3, <1>4, <1>6, <1>9 DEF Fails
<1> QED
  BY <1>7, <1>8, <1>9 DEF Agree

\* "step() is the incremental counterpart to execute()": with kernels that
\* compute and jumps that stay in their chains, the two agree on the values, the
\* tensors and the error, for every plan and every interleaving.  A run that
\* execute() cuts off at the instruction limit is one that step() goes on with.
THEOREM StepAndExecuteAgree ==
  ASSUME \A p \in Plans : Deterministic(p) /\ A!JumpsInside(p)
  PROVE  Spec => [](~CutOff => Agree)
<1>1. Init => LockstepInv
  BY LockstepInit
<1>2. LockstepInv /\ [Next]_vars => LockstepInv'
  BY LockstepNext
<1>3. LockstepInv => (~CutOff => Agree)
  BY LockstepAgrees
<1> QED
  BY <1>1, <1>2, <1>3, PTL DEF Spec
=============================================================================
