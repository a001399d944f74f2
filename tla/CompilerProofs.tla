---------------------------- MODULE CompilerProofs ----------------------------
(***************************************************************************)
(* Proofs about RackCompiler, for all vocabularies, any depth of nesting   *)
(* and whatever expressions become when they are built. Parts 1 to 4 prove *)
(* the invariant of the reading actions; what is generated of it is all of *)
(* the assembler's set (parts 5 to 8) and its branches arrive (part 9) if  *)
(* the code of expressions is what ExpressionsFallThrough says.            *)
(***************************************************************************)
EXTENDS RackCompiler, SequenceProofs, FiniteSetTheorems

----------------------------------------------------------------------------
(* Part 1: sequences.                                                      *)

LEMMA SeqFacts ==
  ASSUME NEW s, IsSeq(s)
  PROVE  /\ s \in Seq({s[n] : n \in 1 .. Len(s)}) /\ DOMAIN s = 1 .. Len(s) /\ Len(s) \in Nat
<1>1. DOMAIN s = 1 .. Len(s) /\ Len(s) \in Nat
  BY DEF IsSeq
<1> DEFINE T == {s[n] : n \in 1 .. Len(s)}
           l == Len(s)
<1>2. s = [n \in 1 .. l |-> s[n]] /\ l \in Nat
  BY DEF IsSeq
<1>3. \A n \in 1 .. l : s[n] \in T
  OBVIOUS
<1> HIDE DEF T, l
<1>4. s \in [1 .. l -> T]
  BY <1>2, <1>3
<1>5. s \in Seq(T)
  BY <1>4, <1>2
<1> QED
  BY <1>1, <1>5 DEF T, l

LEMMA InSeq ==
  ASSUME NEW T, NEW s \in Seq(T)
  PROVE  IsSeq(s) /\ DOMAIN s = 1 .. Len(s)
BY DEF IsSeq

LEMMA AppendIsSeq ==
  ASSUME NEW s, IsSeq(s), NEW x
  PROVE  /\ IsSeq(Append(s, x)) /\ Len(Append(s, x)) = Len(s) + 1
         /\ \A n \in 1 .. Len(s) : Append(s, x)[n] = s[n]
         /\ Append(s, x)[Len(s) + 1] = x
<1> DEFINE T == {s[n] : n \in 1 .. Len(s)} \cup {x}
<1>1. s \in Seq(T)
  <2>1. \A n \in 1 .. Len(s) : s[n] \in T
    OBVIOUS
  <2>2. s \in Seq({s[n] : n \in 1 .. Len(s)})
    BY SeqFacts
  <2> QED
    BY <2>1, <2>2
<1>2. x \in T
  OBVIOUS
<1> HIDE DEF T
<1>3. Append(s, x) \in Seq(T)
  BY <1>1, <1>2
<1>4. /\ Len(Append(s, x)) = Len(s) + 1 /\ Append(s, x)[Len(s) + 1] = x
      /\ \A n \in 1 .. Len(s) : Append(s, x)[n] = s[n]
  BY <1>1, <1>2, AppendProperties
<1> QED
  BY <1>3, <1>4, InSeq

LEMMA FrontIsSeq ==
  ASSUME NEW s, IsSeq(s), s # <<>>
  PROVE  /\ IsSeq(Front(s)) /\ Len(Front(s)) = Len(s) - 1 /\ Len(s) > 0
         /\ \A n \in 1 .. Len(s) - 1 : Front(s)[n] = s[n]
<1> DEFINE T == {s[n] : n \in 1 .. Len(s)}
<1>1. s \in Seq(T)
  BY SeqFacts
<1> HIDE DEF T
<1>2. Len(s) > 0
  BY <1>1
<1> DEFINE l == Len(s) - 1
<1>4. l \in Nat /\ \A i \in 1 .. l : s[i] \in T
  BY <1>1, <1>2
<1> HIDE DEF l
<1>5. /\ SubSeq(s, 1, l) \in Seq(T) /\ Len(SubSeq(s, 1, l)) = IF 1 <= l THEN l - 1 + 1 ELSE 0
      /\ \A n \in 1 .. l - 1 + 1 : SubSeq(s, 1, l)[n] = s[1 + n - 1]
  BY <1>4, SubSeqProperties
<1>6. Front(s) = SubSeq(s, 1, l)
  BY DEF Front, l
<1>7. Len(Front(s)) = l /\ \A n \in 1 .. l : n \in 1 .. l - 1 + 1 /\ 1 + n - 1 = n
  BY <1>4, <1>5, <1>6
<1>3. Front(s) \in Seq(T) /\ Len(Front(s)) = Len(s) - 1
      /\ \A n \in 1 .. Len(s) - 1 : Front(s)[n] = s[n]
  BY <1>5, <1>6, <1>7 DEF l
<1> QED
  BY <1>2, <1>3, InSeq

LEMMA ExceptIsSeq ==
  ASSUME NEW s, IsSeq(s), NEW m \in 1 .. Len(s), NEW x
  PROVE  /\ IsSeq([s EXCEPT ![m] = x]) /\ Len([s EXCEPT ![m] = x]) = Len(s)
         /\ \A n \in 1 .. Len(s) : [s EXCEPT ![m] = x][n] = IF n = m THEN x ELSE s[n]
<1> DEFINE T == {s[n] : n \in 1 .. Len(s)} \cup {x}
           l == Len(s)
           r == [s EXCEPT ![m] = x]
<1>1. s \in Seq(T) /\ l \in Nat /\ DOMAIN s = 1 .. l
  <2>1. \A n \in 1 .. Len(s) : s[n] \in T
    OBVIOUS
  <2>2. s \in Seq({s[n] : n \in 1 .. Len(s)}) /\ DOMAIN s = 1 .. l /\ l \in Nat
    BY SeqFacts
  <2> QED
    BY <2>1, <2>2
<1>2. x \in T /\ m \in 1 .. l
  OBVIOUS
<1>3. \A n \in 1 .. l : r[n] = IF n = m THEN x ELSE s[n]
  BY <1>1
<1> HIDE DEF T, l
<1>4. r \in Seq(T) /\ Len(r) = l
  BY <1>1, <1>2
<1> QED
  BY <1>3, <1>4, InSeq DEF l

LEMMA EmptyIsSeq == IsSeq(<<>>) /\ Len(<<>>) = 0 /\ \A s : IsSeq(s) /\ Len(s) = 0 => s = <<>>
<1>1. \A s : IsSeq(s) /\ Len(s) = 0 => s = <<>>
  <2> TAKE s
  <2> SUFFICES ASSUME IsSeq(s), Len(s) = 0 PROVE s = <<>>
    OBVIOUS
  <2>1. s \in Seq({s[n] : n \in 1 .. Len(s)})
    BY SeqFacts
  <2> QED
    BY <2>1
<1> QED
  BY <1>1 DEF IsSeq

----------------------------------------------------------------------------
(* Part 2: scopes and positions.                                           *)

VarTypes == {"LOCAL_VAR", "ARG_VAR"}

IdentifierOK(id, x) == id.id = x /\ id.type \in VarTypes /\ id.position \in Nat

ScopesOK(scs) ==
    /\ IsSeq(scs)
    /\ \A k \in 1 .. Len(scs) : \A x \in DOMAIN scs[k] : IdentifierOK(scs[k][x], x)

\* f counts its variables and has arguments.
Counts(f) ==
    /\ {"localVarCnt", "argVarCnt", "args", "statements"} \subseteq DOMAIN f
    /\ f.localVarCnt \in Nat /\ f.argVarCnt \in Nat /\ IsSeq(f.args)

CountOf(f, type) == IF type = "ARG_VAR" THEN f.argVarCnt ELSE f.localVarCnt

\* Every variable was counted by f.
CountedIn(scs, f) ==
    \A k \in 1 .. Len(scs) : \A x \in DOMAIN scs[k] :
        scs[k][x].position < CountOf(f, scs[k][x].type)

Apart(scs) ==
    \A k, n \in 1 .. Len(scs) : \A x \in DOMAIN scs[k], y \in DOMAIN scs[n] :
        /\ scs[k][x].type = scs[n][y].type
        /\ scs[k][x].position = scs[n][y].position
        => k = n /\ x = y

\* What is true of the scopes scs while f is compiled.
InScope(scs, f) == ScopesOK(scs) /\ Counts(f) /\ CountedIn(scs, f) /\ Apart(scs)

LEMMA CountedUp ==
  ASSUME NEW f, Counts(f), NEW type \in VarTypes
  PROVE  /\ Counts(Counted(f, type)) /\ DOMAIN Counted(f, type) = DOMAIN f
         /\ CountOf(Counted(f, type), type) = CountOf(f, type) + 1
         /\ \A t \in VarTypes : t # type => CountOf(Counted(f, type), t) = CountOf(f, t)
<1>1. CASE type = "ARG_VAR"
  <2> DEFINE g == [f EXCEPT !.argVarCnt = @ + 1]
  <2>1. Counted(f, type) = g
    BY <1>1 DEF Counted
  <2>2. DOMAIN g = DOMAIN f /\ g.argVarCnt = f.argVarCnt + 1 /\ g.localVarCnt = f.localVarCnt
        /\ g.args = f.args
    BY DEF Counts
  <2> HIDE DEF g
  <2> QED
    BY <1>1, <2>1, <2>2 DEF Counts, CountOf, VarTypes
<1>2. CASE type = "LOCAL_VAR"
  <2> DEFINE g == [f EXCEPT !.localVarCnt = @ + 1]
  <2>1. Counted(f, type) = g
    BY <1>2 DEF Counted
  <2>2. DOMAIN g = DOMAIN f /\ g.localVarCnt = f.localVarCnt + 1 /\ g.argVarCnt = f.argVarCnt
        /\ g.args = f.args
    BY DEF Counts
  <2> HIDE DEF g
  <2> QED
    BY <1>2, <2>1, <2>2 DEF Counts, CountOf, VarTypes
<1> QED
  BY <1>1, <1>2 DEF VarTypes

LEMMA DeclaredScopes ==
  ASSUME NEW scs, IsSeq(scs), scs # <<>>, NEW x, NEW id
  PROVE  LET ds == Declared(scs, x, id)  l == Len(scs)
         IN  /\ IsSeq(ds) /\ Len(ds) = l /\ l \in 1 .. l
             /\ \A k \in 1 .. l : k # l => ds[k] = scs[k]
             /\ DOMAIN ds[l] = DOMAIN scs[l] \cup {x}
             /\ \A y \in DOMAIN ds[l] : ds[l][y] = IF y = x THEN id ELSE scs[l][y]
<1> DEFINE l == Len(scs)
           top == [y \in DOMAIN Last(scs) \cup {x} |-> IF y = x THEN id ELSE Last(scs)[y]]
<1>1. l \in 1 .. l
  BY EmptyIsSeq DEF IsSeq
<1>2. Declared(scs, x, id) = [scs EXCEPT ![l] = top]
  BY DEF Declared
<1>3. DOMAIN top = DOMAIN scs[l] \cup {x}
      /\ \A y \in DOMAIN top : top[y] = IF y = x THEN id ELSE scs[l][y]
  BY DEF Last
<1> HIDE DEF top
<1>4. /\ IsSeq([scs EXCEPT ![l] = top]) /\ Len([scs EXCEPT ![l] = top]) = l
      /\ \A k \in 1 .. l : [scs EXCEPT ![l] = top][k] = IF k = l THEN top ELSE scs[k]
  BY <1>1, ExceptIsSeq
<1> QED
  BY <1>1, <1>2, <1>3, <1>4

\* A variable that is declared gets a place of its own.
LEMMA DeclareApart ==
  ASSUME NEW scs, NEW f, InScope(scs, f), scs # <<>>, NEW type \in VarTypes, NEW t,
         NEW x, CanDeclare(scs, x)
  PROVE  LET id == Identifier(f, type, scs, t, x)
         IN  /\ InScope(Declared(scs, x, id), Counted(f, type))
             /\ Len(Declared(scs, x, id)) = Len(scs) /\ IdentifierOK(id, x)
<1> DEFINE id == Identifier(f, type, scs, t, x)
           ds == Declared(scs, x, id)
           l  == Len(scs)
           g  == Counted(f, type)
<1>1. id.id = x /\ id.type = type /\ id.position = CountOf(f, type)
  BY DEF Identifier, VarCount, CountOf
<1>2. IdentifierOK(id, x)
  BY <1>1 DEF IdentifierOK, InScope, Counts, CountOf
<1> HIDE DEF id
<1>3. /\ IsSeq(ds) /\ Len(ds) = l /\ l \in 1 .. l
      /\ \A k \in 1 .. l : k # l => ds[k] = scs[k]
      /\ DOMAIN ds[l] = DOMAIN scs[l] \cup {x}
      /\ \A y \in DOMAIN ds[l] : ds[l][y] = IF y = x THEN id ELSE scs[l][y]
  BY DeclaredScopes DEF InScope, ScopesOK
<1>4. x \notin DOMAIN scs[l]
  BY DEF CanDeclare, Last
<1> HIDE DEF ds, l
\* What is there now was there, or is x in the innermost scope.
<1>5. \A k \in 1 .. l : \A y \in DOMAIN ds[k] :
        \/ k = l /\ y = x /\ ds[k][y] = id
        \/ ~(k = l /\ y = x) /\ y \in DOMAIN scs[k] /\ ds[k][y] = scs[k][y]
  BY <1>3, <1>4
<1>6. ScopesOK(ds)
  BY <1>2, <1>3, <1>5 DEF ScopesOK, InScope, l
<1>7. Counts(g) /\ CountOf(g, type) = CountOf(f, type) + 1
      /\ \A u \in VarTypes : u # type => CountOf(g, u) = CountOf(f, u)
  BY CountedUp DEF InScope
<1>8. \A u \in VarTypes : CountOf(f, u) \in Nat
  BY DEF InScope, Counts, CountOf
<1>9. \A k \in 1 .. l : \A y \in DOMAIN scs[k] :
        /\ scs[k][y].position < CountOf(f, scs[k][y].type)
        /\ scs[k][y].type \in VarTypes /\ scs[k][y].position \in Nat
  BY DEF InScope, CountedIn, ScopesOK, IdentifierOK, l
<1> HIDE DEF g
<1>10. CountedIn(ds, g)
  <2> SUFFICES ASSUME NEW k \in 1 .. l, NEW y \in DOMAIN ds[k]
               PROVE  ds[k][y].position < CountOf(g, ds[k][y].type)
    BY <1>3 DEF CountedIn
  <2>1. CASE k = l /\ y = x /\ ds[k][y] = id
    BY <2>1, <1>1, <1>7, <1>8
  <2>2. CASE y \in DOMAIN scs[k] /\ ds[k][y] = scs[k][y]
    <3> DEFINE p == scs[k][y].position  u == scs[k][y].type
    <3>1. p < CountOf(f, u) /\ u \in VarTypes /\ p \in Nat
      BY <2>2, <1>9
    <3> HIDE DEF p, u
    <3>2. p < CountOf(g, u)
      BY <3>1, <1>7, <1>8
    <3> QED
      BY <2>2, <3>2 DEF p, u
  <2> QED
    BY <1>5, <2>1, <2>2
<1>11. \A k \in 1 .. l : \A y \in DOMAIN scs[k] :
         ~(scs[k][y].type = id.type /\ scs[k][y].position = id.position)
  BY <1>1, <1>8, <1>9
<1>12. Apart(ds)
  <2> SUFFICES ASSUME NEW k \in 1 .. l, NEW n \in 1 .. l,
                      NEW y \in DOMAIN ds[k], NEW z \in DOMAIN ds[n],
                      ds[k][y].type = ds[n][z].type,
                      ds[k][y].position = ds[n][z].position
               PROVE  k = n /\ y = z
    BY <1>3 DEF Apart
  <2>1. CASE y \in DOMAIN scs[k] /\ ds[k][y] = scs[k][y]
             /\ z \in DOMAIN scs[n] /\ ds[n][z] = scs[n][z]
    BY <2>1 DEF InScope, Apart, l
  <2> QED
    BY <1>5, <1>11, <2>1
<1> QED
  BY <1>2, <1>3, <1>6, <1>7, <1>10, <1>12 DEF InScope, ds, l, g, id

LEMMA EnterInScope ==
  ASSUME NEW scs, NEW f, InScope(scs, f)
  PROVE  InScope(EnterScope(scs), f) /\ Len(EnterScope(scs)) = Len(scs) + 1
<1> DEFINE es == EnterScope(scs)
           l  == Len(scs)
<1>1. l \in Nat
  BY DEF InScope, ScopesOK, IsSeq
<1>2. /\ IsSeq(es) /\ Len(es) = l + 1 /\ es[l + 1] = <<>>
      /\ \A n \in 1 .. l : es[n] = scs[n]
  BY AppendIsSeq DEF EnterScope, InScope, ScopesOK
<1> HIDE DEF es, l
<1>3. \A k \in 1 .. l + 1 : \A x \in DOMAIN es[k] : k \in 1 .. l /\ es[k] = scs[k]
  <2> TAKE k \in 1 .. l + 1
  <2>1. CASE k = l + 1
    BY <2>1, <1>2
  <2>2. CASE k # l + 1
    BY <2>2, <1>1, <1>2
  <2> QED
    BY <2>1, <2>2
<1>4. ScopesOK(es)
  BY <1>2, <1>3 DEF ScopesOK, InScope, l
<1>5. CountedIn(es, f)
  BY <1>2, <1>3 DEF CountedIn, InScope, l
<1>6. Apart(es)
  <2> SUFFICES ASSUME NEW k \in 1 .. l + 1, NEW n \in 1 .. l + 1,
                      NEW y \in DOMAIN es[k], NEW z \in DOMAIN es[n],
                      es[k][y].type = es[n][z].type, es[k][y].position = es[n][z].position
               PROVE  k = n /\ y = z
    BY <1>2 DEF Apart
  <2> QED
    BY <1>3 DEF InScope, Apart, l
<1> QED
  BY <1>2, <1>4, <1>5, <1>6 DEF InScope, es, l

LEMMA ExitInScope ==
  ASSUME NEW scs, NEW f, InScope(scs, f), scs # <<>>
  PROVE  InScope(ExitScope(scs), f) /\ Len(ExitScope(scs)) = Len(scs) - 1
<1> DEFINE es == ExitScope(scs)
           l  == Len(scs)
<1>1. l \in Nat
  BY DEF InScope, ScopesOK, IsSeq
<1>2. IsSeq(es) /\ Len(es) = l - 1 /\ \A n \in 1 .. l - 1 : es[n] = scs[n]
  BY FrontIsSeq DEF ExitScope, InScope, ScopesOK
<1> HIDE DEF es
<1>3. \A k \in 1 .. l - 1 : k \in 1 .. l /\ es[k] = scs[k]
  BY <1>1, <1>2
<1>4. ScopesOK(es)
  BY <1>2, <1>3 DEF ScopesOK, InScope
<1>5. CountedIn(es, f)
  BY <1>2, <1>3 DEF CountedIn, InScope
<1>6. Apart(es)
  <2> SUFFICES ASSUME NEW k \in 1 .. l - 1, NEW n \in 1 .. l - 1,
                      NEW y \in DOMAIN es[k], NEW z \in DOMAIN es[n],
                      es[k][y].type = es[n][z].type, es[k][y].position = es[n][z].position
               PROVE  k = n /\ y = z
    BY <1>2 DEF Apart
  <2> QED
    BY <1>3 DEF InScope, Apart
<1> QED
  BY <1>2, <1>4, <1>5, <1>6 DEF InScope, es

\* Without a scope.
LEMMA NoScope ==
  ASSUME NEW f, Counts(f)
  PROVE  InScope(<<>>, f)
<1>1. \A k \in 1 .. Len(<<>>) : FALSE
  OBVIOUS
<1> QED
  BY <1>1, EmptyIsSeq DEF InScope, ScopesOK, CountedIn, Apart

\* The innermost scope's variables are identifiers of the scopes.
LEMMA UseVarOK ==
  ASSUME NEW scs, NEW f, InScope(scs, f), NEW x, Known(scs, x)
  PROVE  IdentifierOK(UseVar(scs, x), x)
<1> DEFINE K == {k \in DOMAIN scs : x \in DOMAIN scs[k]}
           l == Len(scs)
<1>1. l \in Nat /\ DOMAIN scs = 1 .. l
  BY SeqFacts DEF InScope, ScopesOK
<1>2. K # {} /\ K \subseteq 1 .. l
  BY <1>1 DEF Known
<1>3. Max(K) \in K
  <2> HIDE DEF K, l
  <2> QED
    BY <1>1, <1>2, MaxIsLargest
<1>4. UseVar(scs, x) = scs[Max(K)][x]
  BY DEF UseVar
<1> DEFINE m == Max(K)
<1>5. m \in 1 .. l /\ x \in DOMAIN scs[m]
  BY <1>1, <1>3
<1> HIDE DEF m
<1> QED
  BY <1>4, <1>5 DEF InScope, ScopesOK, m

----------------------------------------------------------------------------
(* The parameters of a function.                                           *)

\* d has, after each parameter, the function and the scopes so far.
Declares(d, f, scs, params, n) ==
    d = [k \in 0 .. n |->
            IF k = 0 THEN [f |-> f, scs |-> scs]
            ELSE LET c  == d[k - 1]
                     id == Identifier(c.f, "ARG_VAR", c.scs, params[k][1], params[k][2])
                 IN  [f   |-> [Counted(c.f, "ARG_VAR") EXCEPT !.args = Append(@, id)],
                      scs |-> Declared(c.scs, params[k][2], id)]]

LEMMA DeclaresExists ==
  ASSUME NEW f, NEW scs, NEW params, NEW n \in Nat
  PROVE  \E d : Declares(d, f, scs, params, n)
<1> DEFINE Next1(c, k) ==
             LET id == Identifier(c.f, "ARG_VAR", c.scs, params[k][1], params[k][2])
             IN  [f   |-> [Counted(c.f, "ARG_VAR") EXCEPT !.args = Append(@, id)],
                  scs |-> Declared(c.scs, params[k][2], id)]
           S == {m \in Nat : \E d : Declares(d, f, scs, params, m)}
<1>1. 0 \in S
  <2> DEFINE d == [k \in 0 .. 0 |-> [f |-> f, scs |-> scs]]
  <2>1. d = [k \in 0 .. 0 |-> IF k = 0 THEN [f |-> f, scs |-> scs] ELSE Next1(d[k - 1], k)]
    OBVIOUS
  <2> HIDE DEF d
  <2> QED
    BY <2>1 DEF Declares
<1>2. ASSUME NEW m \in Nat, m \in S PROVE m + 1 \in S
  <2>1. PICK d : Declares(d, f, scs, params, m)
    BY <1>2
  <2>2. d = [k \in 0 .. m |-> IF k = 0 THEN [f |-> f, scs |-> scs] ELSE Next1(d[k - 1], k)]
    BY <2>1 DEF Declares
  <2> HIDE DEF Next1
  <2> DEFINE g == [k \in 0 .. m + 1 |-> IF k = m + 1 THEN Next1(d[m], m + 1) ELSE d[k]]
             rhs(k) == IF k = 0 THEN [f |-> f, scs |-> scs] ELSE Next1(g[k - 1], k)
  <2>3. ASSUME NEW k \in 0 .. m + 1 PROVE g[k] = rhs(k)
    <3>1. CASE k = m + 1
      <4>1. k # 0 /\ k - 1 = m /\ k - 1 \in 0 .. m + 1 /\ k - 1 # m + 1
        BY <3>1
      <4>2. g[k - 1] = d[m]
        BY <4>1
      <4> QED
        BY <3>1, <4>1, <4>2
    <3>2. CASE k # m + 1
      <4>1. k \in 0 .. m /\ (k # 0 => k - 1 \in 0 .. m + 1 /\ k - 1 # m + 1)
        BY <3>2
      <4>2. d[k] = IF k = 0 THEN [f |-> f, scs |-> scs] ELSE Next1(d[k - 1], k)
        BY <4>1, <2>2
      <4>3. k # 0 => g[k - 1] = d[k - 1]
        BY <4>1
      <4> QED
        BY <3>2, <4>2, <4>3
    <3> QED
      BY <3>1, <3>2
  <2>4. g = [k \in 0 .. m + 1 |-> rhs(k)]
    BY <2>3
  <2> HIDE DEF g
  <2> USE DEF Next1
  <2>5. Declares(g, f, scs, params, m + 1)
    BY <2>4 DEF Declares
  <2> QED
    BY <2>5
<1> HIDE DEF S
<1>3. 0 .. n \subseteq S
  BY <1>1, <1>2, SetInductionTo
<1>4. n \in S
  BY <1>3
<1> QED
  BY <1>4 DEF S

\* Arguments are added to a function, nothing else of it is changed.
LEMMA ArgumentAdded ==
  ASSUME NEW scs, NEW f, InScope(scs, f), NEW id
  PROVE  InScope(scs, [f EXCEPT !.args = Append(@, id)])
<1> DEFINE a == Append(f.args, id)
           g == [f EXCEPT !.args = a]
<1>1. Counts(f)
  BY DEF InScope
<1>2. IsSeq(a)
  BY <1>1, AppendIsSeq DEF Counts
<1> HIDE DEF a
<1>3. DOMAIN g = DOMAIN f /\ g.localVarCnt = f.localVarCnt /\ g.argVarCnt = f.argVarCnt /\ g.args = a
  BY <1>1 DEF Counts
<1>4. Counts(g)
  BY <1>1, <1>2, <1>3 DEF Counts
<1>5. \A t : CountOf(g, t) = CountOf(f, t)
  BY <1>3 DEF CountOf
<1> HIDE DEF g
<1>6. CountedIn(scs, g)
  BY <1>5 DEF InScope, CountedIn
<1>7. InScope(scs, g)
  BY <1>4, <1>6 DEF InScope
<1> QED
  BY <1>7 DEF g, a

\* The arguments of a function get places of their own.
LEMMA ArgsApart ==
  ASSUME NEW scs, NEW f, InScope(scs, f), scs # <<>>,
         NEW params \in Seq(STRING \X STRING),
         \A k \in 1 .. Len(params) : CanDeclare(scs, params[k][2]),
         \A k, n \in 1 .. Len(params) : k # n => params[k][2] # params[n][2]
  PROVE  LET d == DeclareArgs(f, scs, params)
         IN  InScope(d.scs, d.f) /\ Len(d.scs) = Len(scs)
<1> DEFINE n == Len(params)
           d == CHOOSE d : Declares(d, f, scs, params, n)
<1>1. n \in Nat
  OBVIOUS
<1>2. Declares(d, f, scs, params, n)
  BY <1>1, DeclaresExists
<1>3. DeclareArgs(f, scs, params) = d[n]
  BY DEF DeclareArgs, Declares
<1> HIDE DEF d
<1> DEFINE Holds(k) == /\ InScope(d[k].scs, d[k].f) /\ Len(d[k].scs) = Len(scs)
                       /\ \A m \in 1 .. n : m > k => CanDeclare(d[k].scs, params[m][2])
           R == {k \in 0 .. n : Holds(k)}
<1>4. 0 \in R
  <2>1. d[0] = [f |-> f, scs |-> scs]
    BY <1>1, <1>2 DEF Declares
  <2>2. d[0].f = f /\ d[0].scs = scs
    BY <2>1
  <2> QED
    BY <1>1, <2>2
<1>5. ASSUME NEW k \in 0 .. n - 1, k \in R PROVE k + 1 \in R
  <2> DEFINE c  == d[k]
             x  == params[k + 1][2]
             t  == params[k + 1][1]
             id == Identifier(c.f, "ARG_VAR", c.scs, t, x)
             g  == Counted(c.f, "ARG_VAR")
             ds == Declared(c.scs, x, id)
  <2>0. k + 1 \in 0 .. n /\ k + 1 # 0 /\ (k + 1) - 1 = k /\ k + 1 \in 1 .. n
    BY <1>1
  <2>1. d[k + 1] = [f |-> [g EXCEPT !.args = Append(@, id)], scs |-> ds]
    <3>1. d[k + 1] = IF k + 1 = 0 THEN [f |-> f, scs |-> scs]
                     ELSE LET c0  == d[(k + 1) - 1]
                              id0 == Identifier(c0.f, "ARG_VAR", c0.scs, params[k + 1][1],
                                                params[k + 1][2])
                          IN  [f   |-> [Counted(c0.f, "ARG_VAR") EXCEPT !.args = Append(@, id0)],
                               scs |-> Declared(c0.scs, params[k + 1][2], id0)]
      BY <1>2, <2>0, Zenon DEF Declares
    <3> QED
      BY <2>0, <3>1
  <2>2. InScope(c.scs, c.f) /\ Len(c.scs) = Len(scs)
        /\ \A m \in 1 .. n : m > k => CanDeclare(c.scs, params[m][2])
    BY <1>5
  <2>3. CanDeclare(c.scs, x) /\ c.scs # <<>>
    <3>1. Len(scs) # 0
      BY EmptyIsSeq DEF InScope, ScopesOK
    <3> QED
      BY <2>0, <2>2, <3>1, EmptyIsSeq
  <2>4. InScope(ds, g) /\ Len(ds) = Len(c.scs)
    BY <2>2, <2>3, DeclareApart DEF VarTypes
  <2>5. InScope(ds, [g EXCEPT !.args = Append(@, id)])
    BY <2>4, ArgumentAdded
  <2>6. \A m \in 1 .. n : m > k + 1 => CanDeclare(ds, params[m][2])
    <3> TAKE m \in 1 .. n
    <3> SUFFICES ASSUME m > k + 1 PROVE CanDeclare(ds, params[m][2])
      OBVIOUS
    <3>1. m > k /\ m # k + 1 /\ k + 1 \in 1 .. n
      BY <2>0
    <3>2. params[m][2] # x
      BY <3>1
    <3>3. CanDeclare(c.scs, params[m][2])
      BY <2>2, <3>1
    <3>4. IsSeq(c.scs)
      BY <2>2 DEF InScope, ScopesOK
    <3> HIDE DEF id, c, x
    <3>5. Len(ds) = Len(c.scs) /\ DOMAIN ds[Len(c.scs)] = DOMAIN c.scs[Len(c.scs)] \cup {x}
      BY <2>3, <3>4, DeclaredScopes
    <3> QED
      BY <3>2, <3>3, <3>5 DEF CanDeclare, Last
  <2> HIDE DEF ds, g, id
  <2>7. d[k + 1].scs = ds /\ d[k + 1].f = [g EXCEPT !.args = Append(@, id)]
    BY <2>1
  <2>8. Holds(k + 1)
    BY <2>2, <2>4, <2>5, <2>6, <2>7
  <2> HIDE DEF Holds
  <2> QED
    BY <2>0, <2>8
<1> HIDE DEF R
<1>6. 0 .. n \subseteq R
  <2> HIDE DEF n
  <2> QED
    BY <1>1, <1>4, <1>5, SetInductionTo
<1>7. n \in R
  BY <1>1, <1>6
<1> QED
  BY <1>3, <1>7 DEF R

----------------------------------------------------------------------------
(* Part 3: the statements read so far.                                     *)

\* What the generator needs of a statement: a variable to store in, one block
\* or two of a branch.
Shaped(s) ==
    /\ IsSeq(s.sub)
    /\ s.type \in {"ASSIGNMENT", "INITIALIZATION", "ASSIGN_OFFSET", "CREATION"} =>
          s.id.type \in VarTypes
    /\ s.type = "BRANCH" => Len(s.sub) \in {1, 2}

\* All statements are in T, and what is in them.
Closed(T) == \A s \in T : Shaped(s) /\ \A k \in 1 .. Len(s.sub) : s.sub[k] \in T

Made(stmts, T) == IsSeq(stmts) /\ \A n \in 1 .. Len(stmts) : stmts[n] \in T

FrameOK(f, T) ==
    /\ DOMAIN f = {"kind", "cond", "then", "stmts"}
    /\ f.kind \in {"body", "block", "then", "else"}
    /\ Made(f.then, T) /\ Made(f.stmts, T)

\* Only the first frame is a body.
OpenOK(o, T) ==
    /\ IsSeq(o)
    /\ \A i \in 1 .. Len(o) : FrameOK(o[i], T) /\ (o[i].kind = "body" <=> i = 1)

HasScope == {"body", "block"}
Opened(o) == {k \in DOMAIN o : o[k].kind \in HasScope}

LEMMA OpenedFinite ==
  ASSUME NEW o, IsSeq(o)
  PROVE  IsFiniteSet(Opened(o)) /\ Cardinality(Opened(o)) \in Nat /\ Opened(o) \subseteq 1 .. Len(o)
<1>1. DOMAIN o = 1 .. Len(o) /\ Len(o) \in Nat
  BY SeqFacts
<1>2. Opened(o) \subseteq 1 .. Len(o)
  BY <1>1 DEF Opened
<1>3. IsFiniteSet(1 .. Len(o))
  BY <1>1, FS_Interval
<1> QED
  BY <1>2, <1>3, FS_Subset, FS_CardinalityType

LEMMA FrameShape ==
  ASSUME NEW kind \in {"body", "block", "then", "else"}, NEW cond, NEW then, NEW T, Made(then, T)
  PROVE  LET f == Frame(kind, cond, then)
         IN  FrameOK(f, T) /\ f.kind = kind /\ f.then = then /\ f.stmts = <<>>
<1> DEFINE f == Frame(kind, cond, then)
<1>1. DOMAIN f = {"kind", "cond", "then", "stmts"} /\ f.kind = kind /\ f.then = then /\ f.stmts = <<>>
  BY DEF Frame
<1>2. Made(<<>>, T)
  BY EmptyIsSeq DEF Made
<1> HIDE DEF f
<1>3. FrameOK(f, T)
  BY <1>1, <1>2 DEF FrameOK
<1> QED
  BY <1>1, <1>3 DEF f

LEMMA PushFrame ==
  ASSUME NEW o, NEW T, OpenOK(o, T), NEW f, FrameOK(f, T), f.kind = "body" <=> o = <<>>
  PROVE  /\ OpenOK(Append(o, f), T) /\ Append(o, f) # <<>>
         /\ Cardinality(Opened(Append(o, f)))
            = Cardinality(Opened(o)) + (IF f.kind \in HasScope THEN 1 ELSE 0)
<1> DEFINE l == Len(o)
           p == Append(o, f)
<1>1. /\ IsSeq(p) /\ Len(p) = l + 1 /\ p[l + 1] = f
      /\ \A i \in 1 .. l : p[i] = o[i]
  BY AppendIsSeq DEF OpenOK
<1>2. l \in Nat /\ DOMAIN o = 1 .. l /\ DOMAIN p = 1 .. l + 1 /\ (l = 0 <=> o = <<>>)
  BY <1>1, SeqFacts, EmptyIsSeq DEF OpenOK
<1> HIDE DEF p, l
<1>3. OpenOK(p, T)
  <2>1. ASSUME NEW i \in 1 .. l + 1 PROVE FrameOK(p[i], T) /\ (p[i].kind = "body" <=> i = 1)
    <3>1. CASE i = l + 1
      BY <1>1, <1>2, <3>1
    <3>2. CASE i # l + 1
      <4>1. i \in 1 .. l /\ p[i] = o[i]
        BY <1>1, <1>2, <3>2
      <4> QED
        BY <4>1 DEF OpenOK, l
    <3> QED
      BY <3>1, <3>2
  <2> QED
    BY <1>1, <2>1 DEF OpenOK
<1>4. l + 1 \notin Opened(o) /\ IsFiniteSet(Opened(o)) /\ Cardinality(Opened(o)) \in Nat
  BY <1>2, OpenedFinite DEF OpenOK, l
<1>5. Opened(p) = Opened(o) \cup (IF f.kind \in HasScope THEN {l + 1} ELSE {})
  <2>1. \A k \in 1 .. l + 1 : k \in 1 .. l \/ k = l + 1
    BY <1>2
  <2>2. \A k \in 1 .. l : k \in 1 .. l + 1 /\ k # l + 1
    BY <1>2
  <2>3. l + 1 \in 1 .. l + 1
    BY <1>2
  <2> QED
    BY <1>1, <1>2, <2>1, <2>2, <2>3 DEF Opened
<1>6. Cardinality(Opened(p)) = Cardinality(Opened(o)) + (IF f.kind \in HasScope THEN 1 ELSE 0)
  <2>1. CASE f.kind \in HasScope
    BY <1>4, <1>5, <2>1, FS_AddElement
  <2>2. CASE f.kind \notin HasScope
    BY <1>4, <1>5, <2>2
  <2> QED
    BY <2>1, <2>2
<1>7. p # <<>>
  BY <1>1, <1>2, EmptyIsSeq
<1> QED
  BY <1>3, <1>6, <1>7 DEF p

LEMMA PopFrame ==
  ASSUME NEW o, NEW T, OpenOK(o, T), o # <<>>
  PROVE  LET f == Last(o)
         IN  /\ OpenOK(Front(o), T) /\ FrameOK(f, T) /\ Len(Front(o)) = Len(o) - 1
             /\ f.kind = "body" <=> Front(o) = <<>>
             /\ Cardinality(Opened(o))
                = Cardinality(Opened(Front(o))) + (IF f.kind \in HasScope THEN 1 ELSE 0)
<1> DEFINE q == Front(o)
           l == Len(q)
           f == Last(o)
<1>1. /\ IsSeq(q) /\ l = Len(o) - 1 /\ Len(o) > 0
      /\ \A n \in 1 .. Len(o) - 1 : q[n] = o[n]
  BY FrontIsSeq DEF OpenOK
<1>2. l \in Nat /\ Len(o) = l + 1 /\ l + 1 \in 1 .. l + 1 /\ Len(o) \in Nat
  BY <1>1, SeqFacts DEF OpenOK
<1>3. f = o[l + 1] /\ FrameOK(f, T) /\ (f.kind = "body" <=> l + 1 = 1)
  BY <1>2 DEF Last, OpenOK
<1>4. \A n \in 1 .. l : q[n] = o[n] /\ n \in 1 .. Len(o)
  BY <1>1, <1>2
<1>5. DOMAIN o = 1 .. l + 1 /\ DOMAIN q = 1 .. l /\ (l = 0 <=> q = <<>>)
  BY <1>1, <1>2, SeqFacts, EmptyIsSeq DEF OpenOK
<1> HIDE DEF f, l, q
<1>6. OpenOK(q, T)
  BY <1>1, <1>4 DEF OpenOK, l
<1>7. f.kind = "body" <=> q = <<>>
  BY <1>2, <1>3, <1>5
<1>8. l + 1 \notin Opened(q) /\ IsFiniteSet(Opened(q)) /\ Cardinality(Opened(q)) \in Nat
  BY <1>1, <1>2, OpenedFinite DEF l
<1>9. Opened(o) = Opened(q) \cup (IF f.kind \in HasScope THEN {l + 1} ELSE {})
  <2>1. \A k \in 1 .. l + 1 : k \in 1 .. l \/ k = l + 1
    BY <1>2
  <2>2. \A k \in 1 .. l : k \in 1 .. l + 1 /\ k # l + 1
    BY <1>2
  <2> QED
    BY <1>2, <1>3, <1>4, <1>5, <2>1, <2>2 DEF Opened
<1>10. Cardinality(Opened(o)) = Cardinality(Opened(q)) + (IF f.kind \in HasScope THEN 1 ELSE 0)
  <2>1. CASE f.kind \in HasScope
    BY <1>8, <1>9, <2>1, FS_AddElement
  <2>2. CASE f.kind \notin HasScope
    BY <1>8, <1>9, <2>2
  <2> QED
    BY <2>1, <2>2
<1> QED
  BY <1>1, <1>3, <1>6, <1>7, <1>10 DEF q, f, l

LEMMA AddStatement ==
  ASSUME NEW o, NEW T, OpenOK(o, T), o # <<>>, NEW s
  PROVE  LET a == [o EXCEPT ![Len(o)].stmts = Append(@, s)]
         IN  /\ OpenOK(a, T \cup {s}) /\ a # <<>> /\ Opened(a) = Opened(o)
<1> DEFINE l == Len(o)
           f == o[l]
           g == [f EXCEPT !.stmts = Append(@, s)]
           a == [o EXCEPT ![l] = g]
           U == T \cup {s}
<1>0. [o EXCEPT ![Len(o)].stmts = Append(@, s)] = a
  OBVIOUS
<1>1. l \in 1 .. l /\ DOMAIN o = 1 .. l /\ IsSeq(o)
  BY EmptyIsSeq, SeqFacts DEF OpenOK, IsSeq
<1>2. FrameOK(f, T)
  BY <1>1 DEF OpenOK
<1>3. /\ IsSeq(a) /\ Len(a) = l
      /\ \A i \in 1 .. l : a[i] = IF i = l THEN g ELSE o[i]
  BY <1>1, ExceptIsSeq
<1>4. DOMAIN g = DOMAIN f /\ g.kind = f.kind /\ g.then = f.then /\ g.stmts = Append(f.stmts, s)
  BY <1>2 DEF FrameOK
<1> HIDE DEF l, g, a
<1>5. Made(g.stmts, U)
  <2> DEFINE m == Len(f.stmts)
             r == g.stmts
  <2>1. IsSeq(f.stmts) /\ \A n \in 1 .. m : f.stmts[n] \in T
    BY <1>2 DEF FrameOK, Made
  <2>2. /\ IsSeq(r) /\ Len(r) = m + 1 /\ r[m + 1] = s
        /\ \A n \in 1 .. m : r[n] = f.stmts[n]
    BY <1>4, <2>1, AppendIsSeq
  <2>3. m \in Nat
    BY <2>1, SeqFacts
  <2> HIDE DEF m, r
  <2>4. \A n \in 1 .. m + 1 : n \in 1 .. m \/ n = m + 1
    BY <2>3
  <2> QED
    BY <2>1, <2>2, <2>4 DEF Made, r
<1>6. \A st : Made(st, T) => Made(st, U)
  BY DEF Made
<1>7. FrameOK(g, U) /\ \A h : FrameOK(h, T) => FrameOK(h, U)
  <2>1. \A h : FrameOK(h, T) => FrameOK(h, U)
    <3> HIDE DEF U
    <3> QED
      BY <1>6 DEF FrameOK
  <2>2. FrameOK(g, U)
    <3> HIDE DEF U
    <3> QED
      BY <1>2, <1>4, <1>5, <1>6 DEF FrameOK
  <2> QED
    BY <2>1, <2>2
<1>8. OpenOK(a, U)
  <2> HIDE DEF U
  <2>1. ASSUME NEW i \in 1 .. l PROVE FrameOK(a[i], U) /\ (a[i].kind = "body" <=> i = 1)
    <3>1. CASE i = l
      BY <1>3, <1>4, <1>7, <3>1 DEF OpenOK, l
    <3>2. CASE i # l
      BY <1>3, <1>7, <3>2 DEF OpenOK, l
    <3> QED
      BY <3>1, <3>2
  <2> QED
    BY <1>3, <2>1 DEF OpenOK
<1>9. Opened(a) = Opened(o)
  <2>1. DOMAIN a = 1 .. l
    BY <1>3, SeqFacts
  <2>2. \A i \in 1 .. l : a[i].kind = o[i].kind
    BY <1>3, <1>4 DEF f
  <2> QED
    BY <1>1, <2>1, <2>2 DEF Opened
<1>10. a # <<>>
  BY <1>1, <1>3, EmptyIsSeq
<1> QED
  BY <1>0, <1>8, <1>9, <1>10 DEF a, g, l

----------------------------------------------------------------------------
(* Part 4: the invariant.                                                  *)

\* A function that was read to its end.
FunctionRead(f, T) == IsSeq(f.args) /\ Made(f.statements, T)

FuncsOK(fs, T) == IsSeq(fs) /\ \A k \in 1 .. Len(fs) : FunctionRead(fs[k], T)

\* Each function ends in a return.
AllReturn(fs) ==
    \A k \in 1 .. Len(fs) :
        fs[k].statements # <<>> /\ Last(fs[k].statements).type = "RETURN"

Tree(T) == Closed(T) /\ OpenOK(open, T) /\ FuncsOK(funcs, T)

IInv ==
    /\ phase \in {"parse", "parsed", "crash", "generated"} /\ reported \in BOOLEAN
    /\ InScope(scopes, curr) /\ Len(scopes) = Cardinality(Opened(open))
    /\ \E T : Tree(T)
    /\ reported = FALSE => AllReturn(funcs)
    /\ phase = "generated" => list = Flush(TranslateFunctions(funcs), Names)

LEMMA MoreMade ==
  ASSUME NEW T, NEW U, T \subseteq U
  PROVE  /\ \A st : Made(st, T) => Made(st, U)
         /\ \A o : OpenOK(o, T) => OpenOK(o, U)
         /\ \A fs : FuncsOK(fs, T) => FuncsOK(fs, U)
<1>1. \A st : Made(st, T) => Made(st, U)
  BY DEF Made
<1>2. \A f : FrameOK(f, T) => FrameOK(f, U)
  BY <1>1 DEF FrameOK
<1>3. \A f : FunctionRead(f, T) => FunctionRead(f, U)
  BY <1>1 DEF FunctionRead
<1> QED
  BY <1>1, <1>2, <1>3 DEF OpenOK, FuncsOK

LEMMA MoreClosed ==
  ASSUME NEW T, Closed(T), NEW s, Shaped(s), \A k \in 1 .. Len(s.sub) : s.sub[k] \in T
  PROVE  Closed(T \cup {s})
BY DEF Closed

LEMMA InitInv == Init => IInv
<1> SUFFICES ASSUME Init PROVE IInv
  OBVIOUS
<1>1. Counts(curr)
  <2>1. /\ {"localVarCnt", "argVarCnt", "args", "statements"} \subseteq DOMAIN NoFunction
        /\ NoFunction.localVarCnt = 0 /\ NoFunction.argVarCnt = 0 /\ NoFunction.args = <<>>
    BY DEF NoFunction
  <2> QED
    BY <2>1, EmptyIsSeq DEF Init, Counts
<1>2. InScope(scopes, curr)
  BY <1>1, NoScope DEF Init
<1>3. Opened(open) = {} /\ Len(scopes) = 0
  BY EmptyIsSeq DEF Opened, Init
<1>4. Tree({})
  BY EmptyIsSeq DEF Init, Tree, Closed, OpenOK, FuncsOK
<1>5. AllReturn(funcs)
  BY EmptyIsSeq DEF Init, AllReturn
<1> QED
  BY <1>2, <1>3, <1>4, <1>5, FS_EmptySet DEF Init, IInv

\* A statement is read.
LEMMA AddStep ==
  ASSUME IInv, phase = "parse", open # <<>>, NEW s, Shaped(s), s.sub = <<>>, Add(s),
         InScope(scopes', curr'), Len(scopes') = Len(scopes), UNCHANGED <<phase, funcs>>,
         reported' \in BOOLEAN, reported => reported'
  PROVE  IInv'
<1>1. PICK T : Tree(T)
  BY DEF IInv
<1> DEFINE U == T \cup {s}
<1>2. OpenOK(open', U) /\ Opened(open') = Opened(open)
  BY <1>1, AddStatement DEF Tree, Add
<1>3. Closed(U)
  <2>1. \A k \in 1 .. Len(s.sub) : s.sub[k] \in T
    BY EmptyIsSeq
  <2> QED
    BY <1>1, <2>1, MoreClosed DEF Tree
<1>4. FuncsOK(funcs', U)
  <2>1. T \subseteq U
    OBVIOUS
  <2>2. FuncsOK(funcs, T)
    BY <1>1 DEF Tree
  <2> HIDE DEF U
  <2>3. FuncsOK(funcs, U)
    BY <2>1, <2>2, MoreMade, Zenon
  <2> QED
    BY <2>3
<1>5. Tree(U)'
  <2> HIDE DEF U
  <2>1. Closed(U) /\ OpenOK(open', U) /\ FuncsOK(funcs', U)
    BY <1>2, <1>3, <1>4
  <2> QED
    BY <2>1 DEF Tree
<1> QED
  BY <1>2, <1>5 DEF IInv

\* Nothing of the program changes.
LEMMA PhaseStep ==
  ASSUME IInv, UNCHANGED <<scopes, curr, open, funcs>>,
         phase' \in {"parse", "parsed", "crash", "generated"},
         phase' = "generated" => list' = Flush(TranslateFunctions(funcs), Names),
         reported' \in BOOLEAN, reported => reported'
  PROVE  IInv'
<1>1. PICK T : Tree(T)
  BY DEF IInv
<1>2. Tree(T)'
  BY <1>1 DEF Tree
<1> QED
  BY <1>2 DEF IInv

LEMMA ErrorStep == IInv /\ SyntaxError => IInv'
<1> SUFFICES ASSUME IInv, SyntaxError PROVE IInv'
  OBVIOUS
<1>1. /\ UNCHANGED <<scopes, curr, open, funcs>>
      /\ phase' = "parsed" /\ reported' = TRUE
  BY DEF SyntaxError
<1> QED
  BY <1>1, PhaseStep

\* A statement without blocks.
LEMMA PlainShaped ==
  ASSUME NEW type, NEW id, NEW es, type # "BRANCH",
         type \in {"ASSIGNMENT", "INITIALIZATION", "ASSIGN_OFFSET", "CREATION"} => id.type \in VarTypes
  PROVE  Shaped(Stmt(type, id, es, <<>>)) /\ Stmt(type, id, es, <<>>).sub = <<>>
<1> DEFINE s == Stmt(type, id, es, <<>>)
<1>1. s.type = type /\ s.id = id /\ s.sub = <<>>
  BY DEF Stmt
<1> HIDE DEF s
<1>2. Shaped(s)
  BY <1>1, EmptyIsSeq DEF Shaped
<1> QED
  BY <1>1, <1>2 DEF s

\* There is a scope inside a function.
LEMMA ScopeOpen == IInv /\ open # <<>> => scopes # <<>>
<1> SUFFICES ASSUME IInv, open # <<>>, scopes = <<>> PROVE FALSE
  OBVIOUS
<1>1. PICK T : OpenOK(open, T)
  BY DEF IInv, Tree
<1>2. IsSeq(open) /\ 1 \in 1 .. Len(open) /\ DOMAIN open = 1 .. Len(open)
  BY <1>1, EmptyIsSeq, SeqFacts DEF OpenOK, IsSeq
<1>3. 1 \in Opened(open)
  BY <1>1, <1>2 DEF Opened, OpenOK, HasScope
<1>4. Cardinality(Opened(open)) # 0
  BY <1>2, <1>3, OpenedFinite, FS_EmptySet
<1> QED
  BY <1>4, EmptyIsSeq DEF IInv

\* A statement that declares a variable.
LEMMA DeclareStep ==
  ASSUME IInv, phase = "parse", open # <<>>, NEW d, CanDeclare(scopes, d[2]),
         NEW type \in {"DECLARATION", "INITIALIZATION", "CREATION"}, NEW es,
         LET id == Identifier(curr, "LOCAL_VAR", scopes, d[1], d[2])
         IN  /\ Add(Stmt(type, id, es, <<>>))
             /\ scopes' = Declared(scopes, d[2], id)
             /\ curr' = Counted(curr, "LOCAL_VAR"),
         UNCHANGED <<phase, funcs>>, reported' \in BOOLEAN, reported => reported'
  PROVE  IInv'
<1> DEFINE id == Identifier(curr, "LOCAL_VAR", scopes, d[1], d[2])
           s  == Stmt(type, id, es, <<>>)
<1>1. InScope(scopes', curr') /\ Len(scopes') = Len(scopes) /\ IdentifierOK(id, d[2])
  <2>1. InScope(scopes, curr) /\ scopes # <<>> /\ "LOCAL_VAR" \in VarTypes
    BY ScopeOpen DEF IInv, VarTypes
  <2> QED
    BY <2>1, DeclareApart
<1>2. Shaped(s) /\ s.sub = <<>>
  <2>1. id.type \in VarTypes /\ type # "BRANCH"
    BY <1>1 DEF IdentifierOK
  <2> HIDE DEF id
  <2> QED
    BY <2>1, PlainShaped
<1> HIDE DEF s
<1> QED
  BY <1>1, <1>2, AddStep DEF s

\* A statement that changes no scope.
LEMMA UseStep ==
  ASSUME IInv, phase = "parse", open # <<>>, NEW type, NEW id, NEW es, type # "BRANCH",
         type \in {"ASSIGNMENT", "INITIALIZATION", "ASSIGN_OFFSET", "CREATION"} => id.type \in VarTypes,
         Add(Stmt(type, id, es, <<>>)), UNCHANGED <<phase, scopes, curr, funcs>>,
         reported' \in BOOLEAN, reported => reported'
  PROVE  IInv'
<1> DEFINE s == Stmt(type, id, es, <<>>)
<1>1. Shaped(s) /\ s.sub = <<>>
  BY PlainShaped
<1>2. InScope(scopes', curr') /\ Len(scopes') = Len(scopes)
  BY DEF IInv
<1> HIDE DEF s
<1> QED
  BY <1>1, <1>2, AddStep DEF s

\* A message is printed or not.
LEMMA Reported ==
  ASSUME IInv, NEW ok, Report1(ok)
  PROVE  reported' \in BOOLEAN /\ (reported => reported')
BY DEF IInv, Report1

LEMMA DeclarationStep == IInv /\ Declaration => IInv'
<1> SUFFICES ASSUME IInv, Declaration PROVE IInv'
  OBVIOUS
<1>1. phase = "parse" /\ open # <<>>
  BY DEF Declaration, Reads
<1>2. CASE SyntaxError
  BY <1>2, ErrorStep
<1>3. CASE \E d \in Words.decls :
          LET id == Identifier(curr, "LOCAL_VAR", scopes, d[1], d[2])
          IN  /\ CanDeclare(scopes, d[2])
              /\ Add(Stmt("DECLARATION", id, <<>>, <<>>))
              /\ scopes' = Declared(scopes, d[2], id)
              /\ curr' = Counted(curr, "LOCAL_VAR")
              /\ UNCHANGED <<voc, phase, funcs, reported, list>>
  <2>1. reported' \in BOOLEAN /\ (reported => reported')
    BY <1>3 DEF IInv
  <2> QED
    BY <1>1, <1>3, <2>1, DeclareStep
<1> QED
  BY <1>2, <1>3 DEF Declaration

LEMMA InitializationStep == IInv /\ Initialization => IInv'
<1> SUFFICES ASSUME IInv, Initialization PROVE IInv'
  OBVIOUS
<1>1. phase = "parse" /\ open # <<>>
  BY DEF Initialization, Reads
<1>2. CASE SyntaxError
  BY <1>2, ErrorStep
<1>3. CASE ~SyntaxError
  <2>1. PICK d \in Words.decls, e \in Words.exprs :
          LET v  == Elaborate(e)
              id == Identifier(curr, "LOCAL_VAR", scopes, d[1], d[2])
              a  == CheckAssignmentType(id, v.e)
          IN  /\ CanDeclare(scopes, d[2])
              /\ Add(Stmt("INITIALIZATION", id, <<a.e>>, <<>>))
              /\ scopes' = Declared(scopes, d[2], id)
              /\ curr' = Counted(curr, "LOCAL_VAR")
              /\ Report1(v.ok /\ a.ok)
              /\ UNCHANGED <<voc, phase, funcs, list>>
    BY <1>3 DEF Initialization
  <2> DEFINE v  == Elaborate(e)
             id == Identifier(curr, "LOCAL_VAR", scopes, d[1], d[2])
             a  == CheckAssignmentType(id, v.e)
             es == <<a.e>>
             ok == v.ok /\ a.ok
  <2>2. /\ CanDeclare(scopes, d[2])
        /\ Add(Stmt("INITIALIZATION", id, es, <<>>))
        /\ scopes' = Declared(scopes, d[2], id)
        /\ curr' = Counted(curr, "LOCAL_VAR")
        /\ Report1(ok) /\ UNCHANGED <<phase, funcs>>
    BY <2>1
  <2> HIDE DEF es, ok
  <2>3. reported' \in BOOLEAN /\ (reported => reported')
    BY <2>2, Reported
  <2> QED
    BY <1>1, <2>2, <2>3, DeclareStep
<1> QED
  BY <1>2, <1>3

LEMMA InitialCreationStep == IInv /\ InitialCreation => IInv'
<1> SUFFICES ASSUME IInv, InitialCreation PROVE IInv'
  OBVIOUS
<1>1. phase = "parse" /\ open # <<>>
  BY DEF InitialCreation, Reads
<1>2. CASE SyntaxError
  BY <1>2, ErrorStep
<1>3. CASE phase' = "crash" /\ UNCHANGED <<voc, scopes, curr, open, funcs, reported, list>>
  <2>1. reported' \in BOOLEAN /\ (reported => reported')
    BY <1>3 DEF IInv
  <2> QED
    BY <1>3, <2>1, PhaseStep
<1>4. CASE \E d \in Words.decls : \E es, ok :
          LET id == Identifier(curr, "LOCAL_VAR", scopes, d[1], d[2])
          IN  /\ CanDeclare(scopes, d[2])
              /\ Add(Stmt("CREATION", id, es, <<>>))
              /\ scopes' = Declared(scopes, d[2], id)
              /\ curr' = Counted(curr, "LOCAL_VAR")
              /\ Report1(ok)
              /\ UNCHANGED <<voc, phase, funcs, list>>
  <2>1. PICK d, es, ok :
          LET id == Identifier(curr, "LOCAL_VAR", scopes, d[1], d[2])
          IN  /\ CanDeclare(scopes, d[2])
              /\ Add(Stmt("CREATION", id, es, <<>>))
              /\ scopes' = Declared(scopes, d[2], id)
              /\ curr' = Counted(curr, "LOCAL_VAR")
              /\ Report1(ok)
              /\ UNCHANGED <<voc, phase, funcs, list>>
    BY <1>4
  <2>2. reported' \in BOOLEAN /\ (reported => reported')
    BY <2>1, Reported
  <2> QED
    BY <1>1, <2>1, <2>2, DeclareStep
<1>5. SyntaxError \/ (phase' = "crash" /\ UNCHANGED <<voc, scopes, curr, open, funcs, reported, list>>)
      \/ \E d \in Words.decls : \E es, ok :
          LET id == Identifier(curr, "LOCAL_VAR", scopes, d[1], d[2])
          IN  /\ CanDeclare(scopes, d[2])
              /\ Add(Stmt("CREATION", id, es, <<>>))
              /\ scopes' = Declared(scopes, d[2], id)
              /\ curr' = Counted(curr, "LOCAL_VAR")
              /\ Report1(ok)
              /\ UNCHANGED <<voc, phase, funcs, list>>
  BY Zenon DEF InitialCreation
<1> QED
  BY <1>2, <1>3, <1>4, <1>5

\* A statement that stores in a variable there is.
LEMMA StoreStep ==
  ASSUME IInv, phase = "parse", open # <<>>, NEW x, Known(scopes, x),
         NEW type, type # "BRANCH", NEW es, NEW ok,
         Add(Stmt(type, UseVar(scopes, x), es, <<>>)), Report1(ok),
         UNCHANGED <<voc, phase, scopes, curr, funcs, list>>
  PROVE  IInv'
<1> DEFINE id == UseVar(scopes, x)
<1>1. id.type \in VarTypes
  BY UseVarOK DEF IInv, IdentifierOK
<1>2. reported' \in BOOLEAN /\ (reported => reported')
  BY Reported
<1> HIDE DEF id
<1> QED
  BY <1>1, <1>2, UseStep DEF id

LEMMA AssignmentStep == IInv /\ Assignment => IInv'
<1> SUFFICES ASSUME IInv, Assignment PROVE IInv'
  OBVIOUS
<1>1. phase = "parse" /\ open # <<>>
  BY DEF Assignment, Reads
<1>2. CASE SyntaxError
  BY <1>2, ErrorStep
<1>3. CASE ~SyntaxError
  <2>1. PICK x \in {d[2] : d \in Words.decls}, e \in Words.exprs :
          LET v == Elaborate(e)
              a == CheckAssignmentType(UseVar(scopes, x), v.e)
          IN  /\ Known(scopes, x)
              /\ Add(Stmt("ASSIGNMENT", UseVar(scopes, x), <<a.e>>, <<>>))
              /\ Report1(v.ok /\ a.ok)
              /\ UNCHANGED <<voc, phase, scopes, curr, funcs, list>>
    BY <1>3 DEF Assignment
  <2> DEFINE v  == Elaborate(e)
             a  == CheckAssignmentType(UseVar(scopes, x), v.e)
             es == <<a.e>>
             ok == v.ok /\ a.ok
  <2>2. /\ Known(scopes, x)
        /\ Add(Stmt("ASSIGNMENT", UseVar(scopes, x), es, <<>>))
        /\ Report1(ok) /\ UNCHANGED <<voc, phase, scopes, curr, funcs, list>>
    BY <2>1
  <2> HIDE DEF es, ok
  <2> QED
    BY <1>1, <2>2, StoreStep
<1> QED
  BY <1>2, <1>3

LEMMA OffsetAssignmentStep == IInv /\ OffsetAssignment => IInv'
<1> SUFFICES ASSUME IInv, OffsetAssignment PROVE IInv'
  OBVIOUS
<1>1. phase = "parse" /\ open # <<>>
  BY DEF OffsetAssignment, Reads
<1>2. CASE SyntaxError
  BY <1>2, ErrorStep
<1>3. CASE ~SyntaxError
  <2>1. PICK x \in {d[2] : d \in Words.decls}, n \in Words.exprs, e \in Words.exprs :
          LET k == Elaborate(n)
              v == Elaborate(e)
          IN  /\ Known(scopes, x)
              /\ Add(Stmt("ASSIGN_OFFSET", UseVar(scopes, x), <<k.e, v.e>>, <<>>))
              /\ Report1(k.ok /\ v.ok /\ CheckOffsetType(UseVar(scopes, x), k.e, v.e))
              /\ UNCHANGED <<voc, phase, scopes, curr, funcs, list>>
    BY <1>3 DEF OffsetAssignment
  <2> DEFINE k  == Elaborate(n)
             v  == Elaborate(e)
             es == <<k.e, v.e>>
             ok == k.ok /\ v.ok /\ CheckOffsetType(UseVar(scopes, x), k.e, v.e)
  <2>2. /\ Known(scopes, x)
        /\ Add(Stmt("ASSIGN_OFFSET", UseVar(scopes, x), es, <<>>))
        /\ Report1(ok) /\ UNCHANGED <<voc, phase, scopes, curr, funcs, list>>
    BY <2>1
  <2> HIDE DEF es, ok
  <2> QED
    BY <1>1, <2>2, StoreStep
<1> QED
  BY <1>2, <1>3

LEMMA CreationStep == IInv /\ Creation => IInv'
<1> SUFFICES ASSUME IInv, Creation PROVE IInv'
  OBVIOUS
<1>1. phase = "parse" /\ open # <<>>
  BY DEF Creation, Reads
<1>2. CASE SyntaxError
  BY <1>2, ErrorStep
<1>3. CASE ~SyntaxError
  <2>1. PICK x \in {d[2] : d \in Words.decls}, e \in Words.exprs :
          LET v == Elaborate(e)
          IN  /\ Known(scopes, x)
              /\ Add(Stmt("CREATION", UseVar(scopes, x), <<v.e>>, <<>>))
              /\ Report1(v.ok)
              /\ UNCHANGED <<voc, phase, scopes, curr, funcs, list>>
    BY <1>3 DEF Creation
  <2> DEFINE v  == Elaborate(e)
             es == <<v.e>>
             ok == v.ok
  <2>2. /\ Known(scopes, x)
        /\ Add(Stmt("CREATION", UseVar(scopes, x), es, <<>>))
        /\ Report1(ok) /\ UNCHANGED <<voc, phase, scopes, curr, funcs, list>>
    BY <2>1
  <2> HIDE DEF es, ok
  <2> QED
    BY <1>1, <2>2, StoreStep
<1> QED
  BY <1>2, <1>3

LEMMA ReturnStep == IInv /\ Return => IInv'
<1> SUFFICES ASSUME IInv, Return PROVE IInv'
  OBVIOUS
<1>1. phase = "parse" /\ open # <<>>
  BY DEF Return, Reads
<1>2. CASE SyntaxError
  BY <1>2, ErrorStep
<1>3. CASE /\ Add(Stmt("RETURN", NoId, <<>>, <<>>))
           /\ UNCHANGED <<voc, phase, scopes, curr, funcs, reported, list>>
  <2>1. reported' \in BOOLEAN /\ (reported => reported')
    BY <1>3 DEF IInv
  <2> QED
    BY <1>1, <1>3, <2>1, UseStep
<1>4. CASE \E es, ok : /\ Add(Stmt("RETURN", NoId, es, <<>>)) /\ Report1(ok)
                       /\ UNCHANGED <<voc, phase, scopes, curr, funcs, list>>
  <2>1. PICK es, ok : /\ Add(Stmt("RETURN", NoId, es, <<>>)) /\ Report1(ok)
                      /\ UNCHANGED <<voc, phase, scopes, curr, funcs, list>>
    BY <1>4
  <2>2. reported' \in BOOLEAN /\ (reported => reported')
    BY <2>1, Reported
  <2> QED
    BY <1>1, <2>1, <2>2, UseStep
<1> QED
  BY <1>2, <1>3, <1>4, Zenon DEF Return

LEMMA CallStatementStep == IInv /\ CallStatement => IInv'
<1> SUFFICES ASSUME IInv, CallStatement PROVE IInv'
  OBVIOUS
<1>1. phase = "parse" /\ open # <<>>
  BY DEF CallStatement, Reads
<1>2. CASE SyntaxError
  BY <1>2, ErrorStep
<1>3. CASE \E es, ok : /\ Add(Stmt("FUNC_CALL", NoId, es, <<>>)) /\ Report1(ok)
                       /\ UNCHANGED <<voc, phase, scopes, curr, funcs, list>>
  <2>1. PICK es, ok : /\ Add(Stmt("FUNC_CALL", NoId, es, <<>>)) /\ Report1(ok)
                      /\ UNCHANGED <<voc, phase, scopes, curr, funcs, list>>
    BY <1>3
  <2>2. reported' \in BOOLEAN /\ (reported => reported')
    BY <2>1, Reported
  <2> QED
    BY <1>1, <2>1, <2>2, UseStep
<1> QED
  BY <1>2, <1>3, Zenon DEF CallStatement

\* A frame is put on what is open, o being what stays of it.
LEMMA PushStep ==
  ASSUME IInv, phase = "parse", NEW T, Closed(T), FuncsOK(funcs, T), NEW o, OpenOK(o, T), o # <<>>,
         NEW kind \in {"block", "then", "else"}, NEW cond, NEW then, Made(then, T),
         open' = Append(o, Frame(kind, cond, then)), InScope(scopes', curr'),
         Len(scopes') = Cardinality(Opened(o)) + (IF kind \in HasScope THEN 1 ELSE 0),
         UNCHANGED <<phase, funcs>>, reported' \in BOOLEAN, reported => reported'
  PROVE  IInv'
<1> DEFINE f == Frame(kind, cond, then)
<1>1. FrameOK(f, T) /\ f.kind = kind
  BY FrameShape
<1>2. f.kind = "body" <=> o = <<>>
  BY <1>1
<1> HIDE DEF f
<1>3. OpenOK(Append(o, f), T)
      /\ Cardinality(Opened(Append(o, f)))
            = Cardinality(Opened(o)) + (IF f.kind \in HasScope THEN 1 ELSE 0)
  BY <1>1, <1>2, PushFrame
<1>4. open' = Append(o, f)
  BY DEF f
<1>5. Tree(T)'
  BY <1>3, <1>4 DEF Tree
<1>6. Len(scopes') = Cardinality(Opened(open'))
  BY <1>1, <1>3, <1>4
<1> QED
  BY <1>5, <1>6 DEF IInv

LEMMA OpenBlockStep == IInv /\ OpenBlock => IInv'
<1> SUFFICES ASSUME IInv, OpenBlock PROVE IInv'
  OBVIOUS
<1>1. /\ phase = "parse" /\ open # <<>>
      /\ open' = Append(open, Frame("block", NoExpr, <<>>)) /\ scopes' = EnterScope(scopes)
      /\ UNCHANGED <<phase, curr, funcs, reported>>
  BY DEF OpenBlock, Reads
<1>2. PICK T : Closed(T) /\ OpenOK(open, T) /\ FuncsOK(funcs, T)
  BY DEF IInv, Tree
<1>3. InScope(scopes', curr') /\ Len(scopes') = Cardinality(Opened(open)) + 1
  BY <1>1, EnterInScope DEF IInv
<1>4. Made(<<>>, T)
  BY EmptyIsSeq DEF Made
<1>5. reported' \in BOOLEAN /\ (reported => reported')
  BY <1>1 DEF IInv
<1> QED
  BY <1>1, <1>2, <1>3, <1>4, <1>5, PushStep DEF HasScope

LEMMA IfStep == IInv /\ If => IInv'
<1> SUFFICES ASSUME IInv, If PROVE IInv'
  OBVIOUS
<1>1. phase = "parse" /\ open # <<>>
  BY DEF If, Reads
<1>2. CASE SyntaxError
  BY <1>2, ErrorStep
<1>3. CASE \E es, ok : /\ open' = Append(open, Frame("then", es, <<>>)) /\ Report1(ok)
                       /\ UNCHANGED <<voc, phase, scopes, curr, funcs, list>>
  <2>1. PICK es, ok : /\ open' = Append(open, Frame("then", es, <<>>)) /\ Report1(ok)
                      /\ UNCHANGED <<voc, phase, scopes, curr, funcs, list>>
    BY <1>3
  <2>2. reported' \in BOOLEAN /\ (reported => reported')
    BY <2>1, Reported
  <2>3. PICK T : Closed(T) /\ OpenOK(open, T) /\ FuncsOK(funcs, T)
    BY DEF IInv, Tree
  <2>4. InScope(scopes', curr') /\ Len(scopes') = Cardinality(Opened(open)) + 0
    <3>1. InScope(scopes, curr) /\ Len(scopes) = Cardinality(Opened(open)) /\ Len(scopes) \in Nat
      BY DEF IInv, InScope, ScopesOK, IsSeq
    <3> QED
      BY <2>1, <3>1
  <2>5. Made(<<>>, T) /\ "then" \notin HasScope
    BY EmptyIsSeq DEF Made, HasScope
  <2> QED
    BY <1>1, <2>1, <2>2, <2>3, <2>4, <2>5, PushStep
<1> QED
  BY <1>2, <1>3, Zenon DEF If

LEMMA ElseStep == IInv /\ Else => IInv'
<1> SUFFICES ASSUME IInv, Else PROVE IInv'
  OBVIOUS
<1> DEFINE f == Last(open)
           q == Front(open)
<1>1. /\ phase = "parse" /\ open # <<>> /\ f.kind = "then"
      /\ open' = Append(q, Frame("else", f.cond, f.stmts))
      /\ UNCHANGED <<phase, scopes, curr, funcs, reported>>
  BY DEF Else, Top
<1>2. PICK T : Closed(T) /\ OpenOK(open, T) /\ FuncsOK(funcs, T)
  BY DEF IInv, Tree
<1>3. /\ OpenOK(q, T) /\ FrameOK(f, T) /\ (f.kind = "body" <=> q = <<>>)
      /\ Cardinality(Opened(open)) = Cardinality(Opened(q)) + (IF f.kind \in HasScope THEN 1 ELSE 0)
  BY <1>1, <1>2, PopFrame
<1> HIDE DEF f, q
<1>4. q # <<>> /\ Made(f.stmts, T) /\ {"then", "else"} \cap HasScope = {}
  BY <1>1, <1>3 DEF FrameOK, HasScope
<1>5. InScope(scopes', curr') /\ Len(scopes') = Cardinality(Opened(q)) + 0
  <2>1. InScope(scopes, curr) /\ Len(scopes) = Cardinality(Opened(open))
    BY DEF IInv
  <2> QED
    BY <1>1, <1>3, <1>4, <2>1
<1>6. reported' \in BOOLEAN /\ (reported => reported')
  BY <1>1 DEF IInv
<1> QED
  BY <1>1, <1>2, <1>3, <1>4, <1>5, <1>6, PushStep

\* What is open is closed and becomes the statement s.
LEMMA CloseStep ==
  ASSUME IInv, phase = "parse", open # <<>>, Last(open).kind # "body",
         NEW T, Closed(T), OpenOK(open, T), FuncsOK(funcs, T),
         NEW s, Shaped(s), \A k \in 1 .. Len(s.sub) : s.sub[k] \in T, Close(s),
         InScope(scopes', curr'), Len(scopes') = Cardinality(Opened(Front(open))),
         UNCHANGED <<phase, funcs, reported>>
  PROVE  IInv'
<1> DEFINE q == Front(open)
           U == T \cup {s}
           l == Len(open) - 1
<1>1. OpenOK(q, T) /\ q # <<>> /\ Len(q) = l
  BY PopFrame
<1>2. open' = [q EXCEPT ![l].stmts = Append(@, s)]
  BY DEF Close
<1> HIDE DEF q, l
<1>3. OpenOK(open', U) /\ Opened(open') = Opened(q)
  BY <1>1, <1>2, AddStatement
<1>4. Closed(U)
  BY MoreClosed
<1>5. FuncsOK(funcs, U)
  <2>1. T \subseteq U
    OBVIOUS
  <2> HIDE DEF U
  <2> QED
    BY <2>1, MoreMade, Zenon
<1>6. Tree(U)'
  <2> HIDE DEF U
  <2> QED
    BY <1>3, <1>4, <1>5 DEF Tree
<1> QED
  BY <1>3, <1>6 DEF IInv, q

\* The statements of a block.
LEMMA BlockShaped ==
  ASSUME NEW es, NEW stmts, NEW T, Made(stmts, T)
  PROVE  Shaped(Block(es, stmts)) /\ \A k \in 1 .. Len(Block(es, stmts).sub) : Block(es, stmts).sub[k] \in T
<1> DEFINE b == Block(es, stmts)
<1>1. b.type = "BLOCK" /\ b.sub = stmts
  BY DEF Block, Stmt
<1> HIDE DEF b
<1>2. Shaped(b) /\ \A k \in 1 .. Len(b.sub) : b.sub[k] \in T
  BY <1>1 DEF Shaped, Made
<1> QED
  BY <1>2 DEF b

\* A branch has its blocks.
LEMMA BranchShaped ==
  ASSUME NEW cond, NEW T, NEW bs \in Seq(T), Len(bs) \in {1, 2}
  PROVE  Shaped(Branch(cond, bs)) /\ \A k \in 1 .. Len(Branch(cond, bs).sub) : Branch(cond, bs).sub[k] \in T
<1> DEFINE b == Branch(cond, bs)
<1>1. b.type = "BRANCH" /\ b.sub = bs
  BY DEF Branch, Stmt
<1> HIDE DEF b
<1>2. Shaped(b) /\ \A k \in 1 .. Len(b.sub) : b.sub[k] \in T
  BY <1>1, InSeq DEF Shaped
<1> QED
  BY <1>2 DEF b

LEMMA CloseBlockStep == IInv /\ CloseBlock => IInv'
<1> SUFFICES ASSUME IInv, CloseBlock PROVE IInv'
  OBVIOUS
<1> DEFINE f == Last(open)
           s == Block(<<>>, f.stmts)
<1>1. /\ phase = "parse" /\ open # <<>> /\ f.kind = "block" /\ Close(s)
      /\ scopes' = ExitScope(scopes) /\ UNCHANGED <<phase, curr, funcs, reported>>
  BY DEF CloseBlock, Top
<1>2. PICK T : Closed(T) /\ OpenOK(open, T) /\ FuncsOK(funcs, T)
  BY DEF IInv, Tree
<1>3. /\ FrameOK(f, T) /\ IsSeq(Front(open)) /\ f.kind \in HasScope
      /\ Cardinality(Opened(open)) = Cardinality(Opened(Front(open))) + (IF f.kind \in HasScope THEN 1 ELSE 0)
  BY <1>1, <1>2, PopFrame DEF OpenOK, HasScope
<1>4. Shaped(s) /\ \A k \in 1 .. Len(s.sub) : s.sub[k] \in T
  <2>1. Made(f.stmts, T)
    BY <1>3 DEF FrameOK
  <2> HIDE DEF f
  <2> QED
    BY <2>1, BlockShaped
<1> HIDE DEF s, f
<1>5. InScope(scopes', curr') /\ Len(scopes') = Cardinality(Opened(Front(open)))
  <2>1. Cardinality(Opened(Front(open))) \in Nat
    BY <1>3, OpenedFinite
  <2>2. InScope(scopes, curr) /\ scopes # <<>> /\ Len(scopes) = Cardinality(Opened(open))
    BY <1>1, ScopeOpen DEF IInv
  <2>3. InScope(ExitScope(scopes), curr) /\ Len(ExitScope(scopes)) = Len(scopes) - 1
    BY <2>2, ExitInScope
  <2> QED
    BY <1>1, <1>3, <2>1, <2>2, <2>3
<1> QED
  BY <1>1, <1>2, <1>4, <1>5, CloseStep DEF f

LEMMA EndIfStep == IInv /\ EndIf => IInv'
<1> SUFFICES ASSUME IInv, EndIf PROVE IInv'
  OBVIOUS
<1> DEFINE f  == Last(open)
           b1 == Block(f.cond, f.stmts)
           b2 == Block(f.cond, f.then)
           b3 == Block(<<>>, f.stmts)
<1>1. /\ phase = "parse" /\ open # <<>>
      /\ \/ f.kind = "then" /\ Close(Branch(f.cond, <<b1>>))
         \/ f.kind = "else" /\ Close(Branch(f.cond, <<b2, b3>>))
      /\ UNCHANGED <<phase, scopes, curr, funcs, reported>>
  BY DEF EndIf, Top
<1>2. PICK T : Closed(T) /\ OpenOK(open, T) /\ FuncsOK(funcs, T)
  BY DEF IInv, Tree
<1>3. /\ FrameOK(f, T) /\ IsSeq(Front(open)) /\ f.kind \notin HasScope /\ f.kind # "body"
      /\ Cardinality(Opened(open)) = Cardinality(Opened(Front(open))) + (IF f.kind \in HasScope THEN 1 ELSE 0)
  BY <1>1, <1>2, PopFrame DEF OpenOK, HasScope
<1> DEFINE U1 == T \cup {b1}
           U2 == U1 \cup {b2}
           U  == U2 \cup {b3}
<1>4. \A b \in {b1, b2, b3} : Shaped(b) /\ \A k \in 1 .. Len(b.sub) : b.sub[k] \in T
  <2>1. Made(f.stmts, T) /\ Made(f.then, T)
    BY <1>3 DEF FrameOK
  <2> HIDE DEF f
  <2> QED
    BY <2>1, BlockShaped
<1> HIDE DEF b1, b2, b3
<1>5. Closed(U)
  <2>1. Closed(U1)
    BY <1>2, <1>4, MoreClosed
  <2>2. Closed(U2)
    <3>1. \A k \in 1 .. Len(b2.sub) : b2.sub[k] \in U1
      BY <1>4
    <3> HIDE DEF U1
    <3> QED
      BY <1>4, <2>1, <3>1, MoreClosed
  <2>3. \A k \in 1 .. Len(b3.sub) : b3.sub[k] \in U2
    BY <1>4
  <2> HIDE DEF U2
  <2> QED
    BY <1>4, <2>2, <2>3, MoreClosed
<1>6. OpenOK(open, U) /\ FuncsOK(funcs, U)
  <2>1. T \subseteq U
    OBVIOUS
  <2> HIDE DEF U
  <2> QED
    BY <1>2, <2>1, MoreMade, Zenon
<1>7. b1 \in U /\ b2 \in U /\ b3 \in U
  OBVIOUS
<1> HIDE DEF U
<1>8. InScope(scopes', curr') /\ Len(scopes') = Cardinality(Opened(Front(open)))
  <2>1. Cardinality(Opened(Front(open))) \in Nat
    BY <1>3, OpenedFinite
  <2> QED
    BY <1>1, <1>3, <2>1 DEF IInv
<1>9. ASSUME NEW bs \in Seq(U), Len(bs) \in {1, 2}, Close(Branch(f.cond, bs)) PROVE IInv'
  <2> DEFINE s == Branch(f.cond, bs)
  <2>1. Shaped(s) /\ \A k \in 1 .. Len(s.sub) : s.sub[k] \in U
    BY <1>9, BranchShaped
  <2>2. Close(s)
    BY <1>9
  <2> HIDE DEF s, f
  <2> QED
    BY <1>1, <1>3, <1>5, <1>6, <1>8, <2>1, <2>2, CloseStep DEF f
<1>10. CASE Close(Branch(f.cond, <<b1>>))
  <2>1. <<b1>> \in Seq(U) /\ Len(<<b1>>) = 1
    BY <1>7
  <2> QED
    BY <1>9, <1>10, <2>1
<1>11. CASE Close(Branch(f.cond, <<b2, b3>>))
  <2>1. <<b2, b3>> \in Seq(U) /\ Len(<<b2, b3>>) = 2
    BY <1>7
  <2> QED
    BY <1>9, <1>11, <2>1
<1> QED
  BY <1>1, <1>10, <1>11

LEMMA FunctionHeadStep == IInv /\ voc \in DOMAIN Vocabularies /\ FunctionHead => IInv'
<1> SUFFICES ASSUME IInv, voc \in DOMAIN Vocabularies, FunctionHead PROVE IInv'
  OBVIOUS
<1>1. phase = "parse" /\ open = <<>>
  BY DEF FunctionHead
<1>2. CASE SyntaxError
  BY <1>2, ErrorStep
<1>3. CASE ~SyntaxError
  <2>1. PICK h \in Words.heads :
          LET d == DeclareArgs([NoFunction EXCEPT !.id = h.id, !.returnType = h.returnType],
                               EnterScope(scopes), h.params)
          IN  /\ ~\E k, n \in DOMAIN h.params : k # n /\ h.params[k][2] = h.params[n][2]
              /\ curr' = d.f /\ scopes' = d.scs
              /\ open' = <<Frame("body", NoExpr, <<>>)>>
              /\ UNCHANGED <<voc, phase, funcs, reported, list>>
    BY <1>3 DEF FunctionHead
  <2> DEFINE g  == [NoFunction EXCEPT !.id = h.id, !.returnType = h.returnType]
             es == EnterScope(scopes)
             p  == h.params
             d  == DeclareArgs(g, es, p)
  <2>2. p \in Seq(STRING \X STRING)
    BY VocabulariesAssumption DEF Words
  <2>3. Counts(g)
    <3>1. /\ {"localVarCnt", "argVarCnt", "args", "statements"} \subseteq DOMAIN g
          /\ g.localVarCnt = 0 /\ g.argVarCnt = 0 /\ g.args = <<>>
      BY DEF NoFunction
    <3> HIDE DEF g
    <3> QED
      BY <3>1, EmptyIsSeq DEF Counts
  <2>4. scopes = <<>>
    <3>1. Opened(open) = {}
      BY <1>1 DEF Opened
    <3>2. Len(scopes) = 0 /\ IsSeq(scopes)
      BY <3>1, FS_EmptySet DEF IInv, InScope, ScopesOK
    <3> QED
      BY <3>2, EmptyIsSeq
  <2> HIDE DEF g
  <2>5. InScope(es, g) /\ Len(es) = 1
    <3>1. InScope(<<>>, g)
      BY <2>3, NoScope
    <3>2. InScope(EnterScope(<<>>), g) /\ Len(EnterScope(<<>>)) = Len(<<>>) + 1
      BY <3>1, EnterInScope
    <3> QED
      BY <2>4, <3>2, EmptyIsSeq
  <2>6. es # <<>> /\ \A x : CanDeclare(es, x)
    <3>1. /\ Len(es) = Len(scopes) + 1 /\ es[Len(scopes) + 1] = <<>>
      BY <2>4, EmptyIsSeq, AppendIsSeq DEF EnterScope
    <3>2. es[1] = <<>> /\ Len(es) = 1
      BY <2>4, <3>1, EmptyIsSeq
    <3>3. es # <<>>
      BY <3>2, EmptyIsSeq
    <3> HIDE DEF es
    <3>4. Last(es) = <<>>
      BY <3>2 DEF Last
    <3> QED
      BY <3>3, <3>4 DEF CanDeclare
  <2>7. \A k, n \in 1 .. Len(p) : k # n => p[k][2] # p[n][2]
    BY <2>1, <2>2
  <2> HIDE DEF p, es
  <2>8. InScope(d.scs, d.f) /\ Len(d.scs) = 1
    BY <2>2, <2>5, <2>6, <2>7, ArgsApart
  <2>9. /\ curr' = d.f /\ scopes' = d.scs /\ open' = <<Frame("body", NoExpr, <<>>)>>
        /\ UNCHANGED <<voc, phase, funcs, reported, list>>
    BY <2>1 DEF g, es, p
  <2> HIDE DEF d
  <2>10. PICK T : Tree(T)
    BY DEF IInv
  <2> DEFINE f == Frame("body", NoExpr, <<>>)
  <2>11. FrameOK(f, T) /\ f.kind = "body"
    <3>1. Made(<<>>, T)
      BY EmptyIsSeq DEF Made
    <3> QED
      BY <3>1, FrameShape
  <2> HIDE DEF f
  <2>12. OpenOK(<<>>, T) /\ Opened(<<>>) = {}
    BY <1>1, <2>10 DEF Tree, Opened
  <2>13. OpenOK(Append(<<>>, f), T) /\ Cardinality(Opened(Append(<<>>, f))) = 0 + 1
    <3>1. f.kind = "body" <=> <<>> = <<>>
      BY <2>11
    <3>2. OpenOK(Append(<<>>, f), T)
          /\ Cardinality(Opened(Append(<<>>, f)))
             = Cardinality(Opened(<<>>)) + (IF f.kind \in HasScope THEN 1 ELSE 0)
      BY <2>11, <2>12, <3>1, PushFrame
    <3> QED
      BY <2>11, <2>12, <3>2, FS_EmptySet DEF HasScope
  <2>14. open' = Append(<<>>, f)
    BY <2>9 DEF f
  <2>15. Tree(T)'
    BY <2>9, <2>10, <2>13, <2>14 DEF Tree
  <2>16. InScope(scopes', curr') /\ Len(scopes') = Cardinality(Opened(open'))
    <3>1. curr' = d.f /\ scopes' = d.scs
      BY <2>9
    <3>2. InScope(scopes', curr') /\ Len(scopes') = 1
      BY <2>8, <3>1
    <3>3. Cardinality(Opened(open')) = 1
      BY <2>13, <2>14
    <3> QED
      BY <3>2, <3>3
  <2>17. UNCHANGED <<phase, funcs, reported>>
    BY <2>9
  <2> QED
    BY <1>1, <2>15, <2>16, <2>17 DEF IInv
<1> QED
  BY <1>2, <1>3

LEMMA FunctionEndStep == IInv /\ FunctionEnd => IInv'
<1> SUFFICES ASSUME IInv, FunctionEnd PROVE IInv'
  OBVIOUS
<1> DEFINE f       == Last(open)
           returns == f.stmts # <<>> /\ Last(f.stmts).type = "RETURN"
           void    == curr.returnType = "UNDEFINED"
           ret     == Stmt("RETURN", NoId, <<>>, <<>>)
           all     == IF void /\ ~returns THEN Append(f.stmts, ret) ELSE f.stmts
           g       == [curr EXCEPT !.statements = all]
<1>1. /\ phase = "parse" /\ open # <<>> /\ f.kind = "body"
      /\ funcs' = Append(funcs, g) /\ Report1(void \/ returns)
      /\ curr' = NoFunction /\ open' = <<>> /\ scopes' = ExitScope(scopes)
      /\ UNCHANGED phase
  BY DEF FunctionEnd, Top
<1>2. PICK T : Closed(T) /\ OpenOK(open, T) /\ FuncsOK(funcs, T)
  BY DEF IInv, Tree
<1> DEFINE U == T \cup {ret}
<1>3. /\ FrameOK(f, T) /\ Front(open) = <<>> /\ f.kind \in HasScope
      /\ Cardinality(Opened(open)) = Cardinality(Opened(Front(open))) + (IF f.kind \in HasScope THEN 1 ELSE 0)
  BY <1>1, <1>2, PopFrame DEF HasScope
<1>4. Cardinality(Opened(<<>>)) = 0
  <2>1. Opened(<<>>) = {}
    BY DEF Opened
  <2> QED
    BY <2>1, FS_EmptySet
<1>5. scopes' = <<>>
  <2>1. Len(scopes) = 1 /\ InScope(scopes, curr)
    BY <1>3, <1>4 DEF IInv
  <2>2. scopes # <<>>
    BY <2>1, EmptyIsSeq
  <2>3. InScope(ExitScope(scopes), curr) /\ Len(ExitScope(scopes)) = Len(scopes) - 1
    BY <2>1, <2>2, ExitInScope
  <2>4. IsSeq(scopes') /\ Len(scopes') = 0
    BY <1>1, <2>1, <2>3 DEF InScope, ScopesOK
  <2> QED
    BY <2>4, EmptyIsSeq
<1>6. InScope(scopes', curr') /\ Len(scopes') = Cardinality(Opened(open'))
  <2>1. /\ {"localVarCnt", "argVarCnt", "args", "statements"} \subseteq DOMAIN NoFunction
        /\ NoFunction.localVarCnt = 0 /\ NoFunction.argVarCnt = 0 /\ NoFunction.args = <<>>
    BY DEF NoFunction
  <2>2. Counts(NoFunction)
    BY <2>1, EmptyIsSeq DEF Counts
  <2> QED
    BY <1>1, <1>4, <1>5, <2>2, NoScope, EmptyIsSeq
<1>7. Shaped(ret) /\ ret.sub = <<>> /\ ret.type = "RETURN"
  <2>1. ret.type = "RETURN"
    BY DEF Stmt
  <2> QED
    BY <2>1, PlainShaped
<1> HIDE DEF ret
<1>8. Closed(U)
  <2>1. \A k \in 1 .. Len(ret.sub) : ret.sub[k] \in T
    BY <1>7, EmptyIsSeq
  <2> QED
    BY <1>2, <1>7, <2>1, MoreClosed
<1>9. Made(f.stmts, T)
  BY <1>3 DEF FrameOK
<1> HIDE DEF f
<1>10. Made(all, U) /\ (void => all # <<>> /\ Last(all).type = "RETURN")
  <2>1. CASE void /\ ~returns
    <3> DEFINE st == f.stmts
               m  == Len(st)
               a  == Append(st, ret)
    <3>1. IsSeq(st) /\ \A n \in 1 .. m : st[n] \in T
      BY <1>9 DEF Made
    <3>2. m \in Nat
      BY <3>1, SeqFacts
    <3>3. IsSeq(a) /\ Len(a) = m + 1 /\ a[m + 1] = ret /\ \A n \in 1 .. m : a[n] = st[n]
      BY <3>1, AppendIsSeq
    <3>4. all = a
      BY <2>1
    <3> HIDE DEF all, a, m, st
    <3>5. \A n \in 1 .. m + 1 : n \in 1 .. m \/ n = m + 1
      BY <3>2
    <3>6. Made(a, U)
      BY <3>1, <3>3, <3>5 DEF Made
    <3>7. Last(a).type = "RETURN"
      BY <1>7, <3>3 DEF Last
    <3>8. a # <<>>
      BY <3>2, <3>3, EmptyIsSeq
    <3> QED
      BY <3>4, <3>6, <3>7, <3>8
  <2>2. CASE ~(void /\ ~returns)
    <3>1. all = f.stmts
      BY <2>2
    <3>2. T \subseteq U
      OBVIOUS
    <3> HIDE DEF U
    <3>3. Made(f.stmts, U)
      BY <1>9, <3>2, MoreMade, Zenon
    <3>4. void => returns
      BY <2>2
    <3> QED
      BY <3>1, <3>3, <3>4
  <2> QED
    BY <2>1, <2>2
<1>11. reported' \in BOOLEAN /\ (reported => reported')
  BY <1>1 DEF IInv, Report1
<1>12. ASSUME reported' = FALSE
       PROVE  reported = FALSE /\ all # <<>> /\ Last(all).type = "RETURN"
  <2>1. reported = FALSE /\ (void \/ returns)
    BY <1>1, <1>12 DEF IInv, Report1
  <2>2. returns /\ ~void => all = f.stmts
    OBVIOUS
  <2> QED
    BY <1>10, <2>1, <2>2
<1> HIDE DEF all, U, returns, void
<1>13. Counts(curr)
  BY DEF IInv, InScope
<1>14. FunctionRead(g, U) /\ g.statements = all
  <2>1. g.statements = all /\ g.args = curr.args
    BY <1>13 DEF Counts
  <2> HIDE DEF g
  <2> QED
    BY <1>10, <1>13, <2>1 DEF FunctionRead, Counts
<1> HIDE DEF g
<1>15. FuncsOK(funcs, U)
  <2>1. T \subseteq U
    BY DEF U
  <2> QED
    BY <1>2, <2>1, MoreMade, Zenon
<1>16. FuncsOK(Append(funcs, g), U) /\ (reported' = FALSE => AllReturn(Append(funcs, g)))
  <2> DEFINE n == Len(funcs)
             a == Append(funcs, g)
  <2>1. IsSeq(funcs)
    BY <1>15 DEF FuncsOK
  <2>2. IsSeq(a) /\ Len(a) = n + 1 /\ a[n + 1] = g /\ (\A k \in 1 .. n : a[k] = funcs[k]) /\ n \in Nat
    BY <2>1, AppendIsSeq, SeqFacts
  <2> HIDE DEF n, a
  <2>3. \A k \in 1 .. n + 1 : k \in 1 .. n \/ k = n + 1
    BY <2>2
  <2>4. \A k \in 1 .. n : FunctionRead(funcs[k], U)
    BY <1>15 DEF FuncsOK, n
  <2>5. FuncsOK(a, U)
    BY <1>14, <2>2, <2>3, <2>4 DEF FuncsOK
  <2>6. ASSUME reported' = FALSE PROVE AllReturn(a)
    <3>1. AllReturn(funcs) /\ all # <<>> /\ Last(all).type = "RETURN"
      BY <1>12, <2>6 DEF IInv
    <3> QED
      BY <1>14, <2>2, <2>3, <3>1 DEF AllReturn, n
  <2> QED
    BY <2>5, <2>6 DEF a
<1>17. Tree(U)'
  <2>1. OpenOK(open', U)
    <3>1. \A k \in 1 .. Len(<<>>) : FALSE
      OBVIOUS
    <3> QED
      BY <1>1, <3>1, EmptyIsSeq DEF OpenOK
  <2> QED
    BY <1>1, <1>8, <1>16, <2>1 DEF Tree
<1>18. (reported = FALSE => AllReturn(funcs))'
  BY <1>1, <1>16
<1> QED
  BY <1>1, <1>6, <1>11, <1>17, <1>18 DEF IInv

LEMMA ParseEndsStep == IInv /\ ParseEnds => IInv'
<1> SUFFICES ASSUME IInv, ParseEnds PROVE IInv'
  OBVIOUS
<1>1. phase' = "parsed" /\ UNCHANGED <<scopes, curr, open, funcs, reported>>
  BY DEF ParseEnds
<1>2. reported' \in BOOLEAN /\ (reported => reported')
  BY <1>1 DEF IInv
<1> QED
  BY <1>1, <1>2, PhaseStep

LEMMA GenerateStep == IInv /\ Generate => IInv'
<1> SUFFICES ASSUME IInv, Generate PROVE IInv'
  OBVIOUS
<1>1. /\ phase' = "crash" \/ (phase' = "generated" /\ list' = Flush(TranslateFunctions(funcs), Names))
      /\ UNCHANGED <<scopes, curr, open, funcs, reported>>
  BY DEF Generate
<1>2. reported' \in BOOLEAN /\ (reported => reported')
  BY <1>1 DEF IInv
<1> QED
  BY <1>1, <1>2, PhaseStep

LEMMA IdleStep == IInv /\ UNCHANGED vars => IInv'
<1> SUFFICES ASSUME IInv, UNCHANGED vars PROVE IInv'
  OBVIOUS
<1>1. UNCHANGED <<scopes, curr, open, funcs, reported, phase, list>>
  BY DEF vars
<1>2. /\ phase' \in {"parse", "parsed", "crash", "generated"}
      /\ phase' = "generated" => list' = Flush(TranslateFunctions(funcs), Names)
      /\ reported' \in BOOLEAN /\ (reported => reported')
  BY <1>1 DEF IInv
<1> QED
  BY <1>1, <1>2, PhaseStep

LEMMA VocabularyStays ==
  ASSUME voc \in DOMAIN Vocabularies, [Next]_vars
  PROVE  voc' \in DOMAIN Vocabularies
<1>1. UNCHANGED voc
  BY DEF Next, vars, SyntaxError, FunctionHead, Declaration, Initialization, Assignment,
         OffsetAssignment, Creation, InitialCreation, Return, CallStatement, OpenBlock, CloseBlock,
         If, Else, EndIf, FunctionEnd, ParseEnds, Generate
<1> QED
  BY <1>1

\* The invariant holds of every state of the compiler.
THEOREM InvariantHolds == Spec => [](IInv /\ voc \in DOMAIN Vocabularies)
<1>1. Init => IInv /\ voc \in DOMAIN Vocabularies
  BY InitInv DEF Init
<1>2. IInv /\ voc \in DOMAIN Vocabularies /\ [Next]_vars
      => (IInv /\ voc \in DOMAIN Vocabularies)'
  <2> SUFFICES ASSUME IInv, voc \in DOMAIN Vocabularies, [Next]_vars
               PROVE  (IInv /\ voc \in DOMAIN Vocabularies)'
    OBVIOUS
  <2>1. voc' \in DOMAIN Vocabularies
    BY VocabularyStays
  <2>2. IInv'
    <3>1. CASE FunctionHead
      BY <3>1, FunctionHeadStep
    <3>2. CASE Declaration
      BY <3>2, DeclarationStep
    <3>3. CASE Initialization
      BY <3>3, InitializationStep
    <3>4. CASE Assignment
      BY <3>4, AssignmentStep
    <3>5. CASE OffsetAssignment
      BY <3>5, OffsetAssignmentStep
    <3>6. CASE Creation
      BY <3>6, CreationStep
    <3>7. CASE InitialCreation
      BY <3>7, InitialCreationStep
    <3>8. CASE Return
      BY <3>8, ReturnStep
    <3>9. CASE CallStatement
      BY <3>9, CallStatementStep
    <3>10. CASE OpenBlock
      BY <3>10, OpenBlockStep
    <3>11. CASE CloseBlock
      BY <3>11, CloseBlockStep
    <3>12. CASE If
      BY <3>12, IfStep
    <3>13. CASE Else
      BY <3>13, ElseStep
    <3>14. CASE EndIf
      BY <3>14, EndIfStep
    <3>15. CASE FunctionEnd
      BY <3>15, FunctionEndStep
    <3>16. CASE ParseEnds
      BY <3>16, ParseEndsStep
    <3>17. CASE Generate
      BY <3>17, GenerateStep
    <3>18. CASE UNCHANGED vars
      BY <3>18, IdleStep
    <3> QED
      BY <3>1, <3>2, <3>3, <3>4, <3>5, <3>6, <3>7, <3>8, <3>9, <3>10, <3>11, <3>12, <3>13,
         <3>14, <3>15, <3>16, <3>17, <3>18 DEF Next
  <2> QED
    BY <2>1, <2>2
<1> QED
  BY <1>1, <1>2, PTL DEF Spec

\* As many scopes are open as there are bodies and blocks around what is read
\* (EnterScope and ExitScope of compiler.cpp as the grammar calls them), and each
\* name of a scope stands for its own identifier.
THEOREM TypeCorrect == Spec => []TypeOK
<1>1. IInv => TypeOK
  <2> SUFFICES ASSUME IInv PROVE TypeOK
    OBVIOUS
  <2>1. DOMAIN scopes = 1 .. Len(scopes)
    BY SeqFacts DEF IInv, InScope, ScopesOK
  <2>2. \A k \in DOMAIN scopes : \A x \in DOMAIN scopes[k] :
          /\ scopes[k][x].id = x /\ scopes[k][x].type \in {"LOCAL_VAR", "ARG_VAR"}
          /\ scopes[k][x].position \in Nat
    BY <2>1 DEF IInv, InScope, ScopesOK, IdentifierOK, VarTypes
  <2>3. Len(scopes) = Cardinality({k \in DOMAIN open : open[k].kind \in {"body", "block"}})
    BY DEF IInv, Opened, HasScope
  <2> QED
    BY <2>2, <2>3 DEF TypeOK, IInv
<1> QED
  BY <1>1, InvariantHolds, PTL

\* No two variables of a kind that can be named at a point, or of which one hides
\* the other, are given the same position: DeclVar (compiler.cpp) counts the variables
\* of the function, not of the scope. What bytes of the frame the interpreter takes
\* these numbers for is not said: of variables next to each other they overlap.
THEOREM PositionsDiffer == Spec => []PositionsApart
<1>1. IInv => PositionsApart
  <2> SUFFICES ASSUME IInv PROVE PositionsApart
    OBVIOUS
  <2>1. DOMAIN scopes = 1 .. Len(scopes) /\ Apart(scopes)
    BY SeqFacts DEF IInv, InScope, ScopesOK
  <2> QED
    BY <2>1 DEF PositionsApart, Apart
<1> QED
  BY <1>1, InvariantHolds, PTL

----------------------------------------------------------------------------
(* Part 5: the instruction set. What the variants of InstrSet's names are, *)
(* and which of them the statements use.                                   *)

LEMMA ConcatIsSeq ==
  ASSUME NEW a, IsSeq(a), NEW b, IsSeq(b)
  PROVE  /\ IsSeq(a \o b) /\ Len(a \o b) = Len(a) + Len(b)
         /\ \A n \in 1 .. Len(a) : (a \o b)[n] = a[n]
         /\ \A n \in 1 .. Len(b) : (a \o b)[Len(a) + n] = b[n]
         /\ ToSet(a \o b) = ToSet(a) \cup ToSet(b)
<1> DEFINE T == {a[n] : n \in 1 .. Len(a)} \cup {b[n] : n \in 1 .. Len(b)}
           c == a \o b
<1>1. a \in Seq(T) /\ b \in Seq(T)
  <2>1. \A n \in 1 .. Len(a) : a[n] \in T
    OBVIOUS
  <2>2. \A n \in 1 .. Len(b) : b[n] \in T
    OBVIOUS
  <2>3. a \in Seq({a[n] : n \in 1 .. Len(a)}) /\ b \in Seq({b[n] : n \in 1 .. Len(b)})
    BY SeqFacts
  <2> HIDE DEF T
  <2>4. a \in Seq(T)
    BY <2>1, <2>3
  <2>5. b \in Seq(T)
    BY <2>2, <2>3
  <2> QED
    BY <2>4, <2>5
<1> HIDE DEF T
<1>2. /\ c \in Seq(T) /\ Len(c) = Len(a) + Len(b) /\ Len(a) \in Nat /\ Len(b) \in Nat
      /\ \A n \in 1 .. Len(a) : c[n] = a[n]
      /\ \A n \in 1 .. Len(b) : c[Len(a) + n] = b[n]
      /\ DOMAIN a = 1 .. Len(a) /\ DOMAIN b = 1 .. Len(b)
  BY <1>1
<1>3. IsSeq(c) /\ DOMAIN c = 1 .. Len(c)
  BY <1>2, InSeq
<1> DEFINE l == Len(a)
           m == Len(b)
<1> HIDE DEF c, l, m
<1>4. \A n \in 1 .. l + m : n \in 1 .. l \/ \E k \in 1 .. m : n = l + k
  <2> TAKE n \in 1 .. l + m
  <2>1. n \in 1 .. l \/ (n - l \in 1 .. m /\ n = l + (n - l))
    BY <1>2 DEF l, m
  <2> QED
    BY <2>1
<1>5. (\A n \in 1 .. l : n \in 1 .. l + m) /\ (\A n \in 1 .. m : l + n \in 1 .. l + m)
  BY <1>2 DEF l, m
<1>6. ToSet(c) = ToSet(a) \cup ToSet(b)
  <2>1. ToSet(c) = {c[n] : n \in 1 .. l + m}
    BY <1>2, <1>3 DEF ToSet, l, m
  <2>2. ToSet(a) = {a[n] : n \in 1 .. l} /\ ToSet(b) = {b[n] : n \in 1 .. m}
    BY <1>2 DEF ToSet, l, m
  <2>3. (\A n \in 1 .. l : c[n] = a[n]) /\ (\A n \in 1 .. m : c[l + n] = b[n])
    BY <1>2 DEF l, m
  <2>4. ASSUME NEW x \in ToSet(c) PROVE x \in ToSet(a) \cup ToSet(b)
    <3>1. PICK n \in 1 .. l + m : x = c[n]
      BY <2>1
    <3>2. CASE n \in 1 .. l
      BY <2>2, <2>3, <3>1, <3>2
    <3>3. CASE \E k \in 1 .. m : n = l + k
      BY <2>2, <2>3, <3>1, <3>3
    <3> QED
      BY <1>4, <3>2, <3>3
  <2>5. ASSUME NEW x \in ToSet(a) \cup ToSet(b) PROVE x \in ToSet(c)
    <3>1. CASE x \in ToSet(a)
      BY <1>5, <2>1, <2>2, <2>3, <3>1
    <3>2. CASE x \in ToSet(b)
      BY <1>5, <2>1, <2>2, <2>3, <3>2
    <3> QED
      BY <3>1, <3>2
  <2> QED
    BY <2>4, <2>5
<1> QED
  BY <1>2, <1>3, <1>6 DEF c

\* The mnemonics of each name with each suffix.
LEMMA VariantsAre ==
  ASSUME NEW names, IsSeq(names), NEW suffixes, IsSeq(suffixes)
  PROVE  /\ IsSeq(Instr!Variants(names, suffixes))
         /\ ToSet(Instr!Variants(names, suffixes)) = ToSet(names) \X ToSet(suffixes)
<1> DEFINE T  == ToSet(names) \X ToSet(suffixes)
           ws == [i \in DOMAIN names |-> [j \in DOMAIN suffixes |-> <<names[i], suffixes[j]>>]]
           v  == Instr!Variants(names, suffixes)
<1>1. PICK l \in Nat, m \in Nat :
        /\ l = Len(names) /\ DOMAIN names = 1 .. l /\ \A i \in 1 .. l : names[i] \in ToSet(names)
        /\ m = Len(suffixes) /\ DOMAIN suffixes = 1 .. m
        /\ \A j \in 1 .. m : suffixes[j] \in ToSet(suffixes)
  BY SeqFacts DEF ToSet
<1>2. ws \in Seq(Seq(T)) /\ Len(ws) = l
      /\ \A i \in 1 .. l : /\ Len(ws[i]) = m
                           /\ \A j \in 1 .. m : ws[i][j] = <<names[i], suffixes[j]>>
  <2>1. \A i \in 1 .. l : /\ [j \in 1 .. m |-> <<names[i], suffixes[j]>>] \in Seq(T)
                          /\ Len([j \in 1 .. m |-> <<names[i], suffixes[j]>>]) = m
    BY <1>1
  <2>2. \A i \in 1 .. l : ws[i] \in Seq(T) /\ Len(ws[i]) = m
    BY <1>1, <2>1
  <2>3. ws \in Seq(Seq(T)) /\ Len(ws) = l
    <3> DEFINE W == Seq(T)
    <3>1. ws = [i \in 1 .. l |-> ws[i]] /\ \A i \in 1 .. l : ws[i] \in W
      BY <1>1, <2>2
    <3> HIDE DEF ws, W
    <3>2. ws \in Seq(W) /\ Len(ws) = l
      BY <1>1, <3>1
    <3> QED
      BY <3>2 DEF W
  <2> QED
    BY <1>1, <2>2, <2>3
<1>3. v = FlattenSeq(ws)
  BY DEF Instr!Variants, Instr!FlattenSeq, FlattenSeq
<1> HIDE DEF ws, v, T
<1>4. v \in Seq(T)
  BY <1>2, <1>3, FlattenLaid
<1>5. PICK p : Sums(p, Lengths(ws), l) /\ Len(v) = p[l] /\ LaidAt(v, ws, p)
  BY <1>2, <1>3, FlattenLaid
<1>6. Lengths(ws) \in [1 .. l -> Nat] /\ \A i \in 1 .. l : Lengths(ws)[i] = m
  BY <1>1, <1>2 DEF Lengths
<1>7. IsSeq(v) /\ DOMAIN v = 1 .. Len(v)
  BY <1>4, InSeq
<1>8. \A n \in 1 .. Len(v) : \E i \in 1 .. l, j \in 1 .. m : v[n] = <<names[i], suffixes[j]>>
  <2> TAKE n \in 1 .. Len(v)
  <2>1. PICK i \in 1 .. l : \E j \in 1 .. m : n = p[i - 1] + j
    <3>1. PICK x \in [1 .. l -> Nat] : x = Lengths(ws)
      BY <1>6
    <3>2. Sums(p, x, l) /\ n \in 1 .. p[l] /\ \A k \in 1 .. l : x[k] = m
      BY <1>5, <1>6, <3>1
    <3>3. InParts(n, p, x, l)
      BY <3>2, SumsCover
    <3> QED
      BY <3>2, <3>3 DEF InParts
  <2>2. PICK j \in 1 .. m : n = p[i - 1] + j
    BY <2>1
  <2>3. v[n] = ws[i][j]
    BY <1>2, <1>5, <2>2 DEF LaidAt
  <2> QED
    BY <1>2, <2>3
<1>9. \A i \in 1 .. l, j \in 1 .. m : \E n \in 1 .. Len(v) : v[n] = <<names[i], suffixes[j]>>
  <2> TAKE i \in 1 .. l, j \in 1 .. m
  <2>1. i \in 0 .. l /\ l \in i .. l /\ i - 1 \in 0 .. l /\ i \in (i - 1) .. l
    BY <1>1
  <2>2. p[i] <= p[l] /\ p[i] \in Nat /\ p[l] \in Nat
    BY <1>1, <1>5, <1>6, <2>1, SumsAscend
  <2>3. p[i] = p[i - 1] + m /\ p[i - 1] \in Nat
    BY <1>1, <1>5, <1>6, <2>1 DEF Sums
  <2>4. p[i - 1] + j \in 1 .. Len(v)
    <3>1. PICK a \in Nat, b \in Nat, c \in Nat : a = p[i - 1] /\ b = p[i] /\ c = p[l]
      BY <2>2, <2>3
    <3>2. b = a + m /\ b <= c /\ m \in Nat
      BY <2>2, <2>3, <3>1
    <3>3. a + j \in 1 .. c
      BY <3>2
    <3> QED
      BY <1>5, <3>1, <3>3
  <2>5. v[p[i - 1] + j] = <<names[i], suffixes[j]>>
    BY <1>2, <1>5 DEF LaidAt
  <2> QED
    BY <2>4, <2>5
<1>10. ToSet(v) = ToSet(names) \X ToSet(suffixes)
  <2>1. ASSUME NEW x \in ToSet(v) PROVE x \in ToSet(names) \X ToSet(suffixes)
    <3>1. PICK n \in 1 .. Len(v) : x = v[n]
      BY <1>7 DEF ToSet
    <3>2. PICK i \in 1 .. l, j \in 1 .. m : v[n] = <<names[i], suffixes[j]>>
      BY <1>8
    <3>3. names[i] \in ToSet(names) /\ suffixes[j] \in ToSet(suffixes)
      BY <1>1 DEF ToSet
    <3> QED
      BY <3>1, <3>2, <3>3
  <2>2. ASSUME NEW x \in ToSet(names) \X ToSet(suffixes) PROVE x \in ToSet(v)
    <3>1. PICK i \in 1 .. l, j \in 1 .. m : x = <<names[i], suffixes[j]>>
      BY <1>1 DEF ToSet
    <3> QED
      BY <1>7, <1>9, <3>1 DEF ToSet
  <2> QED
    BY <2>1, <2>2
<1> QED
  BY <1>7, <1>10 DEF v

LEMMA Tuples ==
  /\ \A a : IsSeq(<<a>>) /\ ToSet(<<a>>) = {a}
  /\ \A a, b : IsSeq(<<a, b>>) /\ ToSet(<<a, b>>) = {a, b}
  /\ \A a, b, c : IsSeq(<<a, b, c>>) /\ ToSet(<<a, b, c>>) = {a, b, c}
  /\ \A a, b, c, d : IsSeq(<<a, b, c, d>>) /\ ToSet(<<a, b, c, d>>) = {a, b, c, d}
BY DEF IsSeq, ToSet

\* The stack set is put together of variants.
LEMMA VariantsOf ==
  ASSUME NEW names, IsSeq(names)
  PROVE  /\ IsSeq(Instr!Single(names)) /\ ToSet(Instr!Single(names)) = ToSet(names) \X {""}
         /\ IsSeq(Instr!Variants(names, Instr!Sized))
         /\ ToSet(Instr!Variants(names, Instr!Sized)) = ToSet(names) \X {"", ".64"}
         /\ IsSeq(Instr!Variants(names, Instr!Typed))
<1>1. IsSeq(<<"">>) /\ ToSet(<<"">>) = {""}
  BY Tuples, Zenon
<1>2. IsSeq(Instr!Sized) /\ ToSet(Instr!Sized) = {"", ".64"}
  BY Tuples, Zenon DEF Instr!Sized
<1>3. IsSeq(Instr!Typed)
  BY Tuples, Zenon DEF Instr!Typed
<1> QED
  BY <1>1, <1>2, <1>3, VariantsAre DEF Instr!Single

LEMMA SharedAre ==
  /\ IsSeq(Instr!Shared)
  /\ ToSet(Instr!Shared) = ({"NOP", "EXIT", "JMP", "CALL"} \X {""})
                           \cup ({"RET"} \X {"", ".32", ".64"}) \cup ({"SCALL", "SARG"} \X {""})
<1> DEFINE first == <<"NOP", "EXIT", "JMP", "CALL">>
           calls == <<"SCALL", "SARG">>
           rets  == Instr!Variants(<<"RET">>, <<"", ".32", ".64">>)
<1>1. IsSeq(first) /\ ToSet(first) = {"NOP", "EXIT", "JMP", "CALL"}
  BY Tuples
<1>2. IsSeq(calls) /\ ToSet(calls) = {"SCALL", "SARG"}
  BY Tuples, Zenon
<1>3. IsSeq(rets) /\ ToSet(rets) = {"RET"} \X {"", ".32", ".64"}
  <2>1. IsSeq(<<"RET">>) /\ ToSet(<<"RET">>) = {"RET"}
    BY Tuples, Zenon
  <2>2. PICK none, int, long : none = "" /\ int = ".32" /\ long = ".64"
    BY Zenon
  <2>3. IsSeq(<<none, int, long>>) /\ ToSet(<<none, int, long>>) = {none, int, long}
    BY Tuples
  <2>4. LET v == Instr!Variants(<<"RET">>, <<none, int, long>>)
        IN  IsSeq(v) /\ ToSet(v) = {"RET"} \X {none, int, long}
    BY <2>1, <2>3, VariantsAre
  <2> QED
    BY <2>2, <2>4
<1>4. Instr!Shared = Instr!Single(first) \o rets \o Instr!Single(calls)
  BY DEF Instr!Shared
<1> DEFINE a == Instr!Single(first)
           b == Instr!Single(calls)
<1>5. IsSeq(a) /\ ToSet(a) = ToSet(first) \X {""}
  BY <1>1, VariantsOf
<1>6. IsSeq(b) /\ ToSet(b) = ToSet(calls) \X {""}
  BY <1>2, VariantsOf
<1> HIDE DEF first, calls, rets, a, b
<1>7. IsSeq(a \o rets) /\ ToSet(a \o rets) = ToSet(a) \cup ToSet(rets)
  BY <1>3, <1>5, ConcatIsSeq
<1>8. IsSeq((a \o rets) \o b) /\ ToSet((a \o rets) \o b) = ToSet(a \o rets) \cup ToSet(b)
  BY <1>6, <1>7, ConcatIsSeq
<1> QED
  BY <1>1, <1>2, <1>3, <1>4, <1>5, <1>6, <1>7, <1>8 DEF a, b

LEMMA StackOpcodesAre ==
  /\ ToSet(Instr!Shared) \subseteq Instr!Mnemonics["stack"]
  /\ {"STL", "STA"} \X {"", ".64"} \subseteq Instr!Mnemonics["stack"]
  /\ {"BRZ", "NEW"} \X {""} \subseteq Instr!Mnemonics["stack"]
<1> DEFINE n1 == <<"LDI", "STM", "STMI", "LDM", "LDMI", "LDL", "LDA", "STL", "STA">>
           n2 == <<"ADD", "SUB", "MUL", "DIV">>
           n3 == <<"INV">>
           n4 == <<"NEG">>
           n5 == <<"BOR", "BXOR", "BAND">>
           n6 == <<"OR", "AND">>
           n7 == <<"CPZ">>
           n9 == <<"CPSTR", "CPCHR", "BRZ", "BRNZ", "BRIZ", "BRINZ", "JMPI">>
           n10 == <<"ITOL", "ITOF", "ITOD", "ITOS", "LTOI", "LTOF", "LTOD", "LTOS",
                    "FTOI", "FTOL", "FTOD", "FTOS", "DTOI", "DTOL", "DTOF", "DTOS",
                    "STOI", "STOL", "STOF", "STOD">>
           n11 == <<"NEW", "DEL", "RESZ", "SIZE", "STR", "STRCPY", "STRCAT", "STRCMB">>
<1>1. IsSeq(n1) /\ {"STL", "STA"} \subseteq ToSet(n1)
  BY DEF IsSeq, ToSet
<1>2. IsSeq(n2) /\ IsSeq(n3) /\ IsSeq(n4) /\ IsSeq(n5) /\ IsSeq(n6) /\ IsSeq(n7)
  BY DEF IsSeq
<1>3. IsSeq(Instr!Comparing)
  BY DEF IsSeq, Instr!Comparing
<1>4. IsSeq(n9) /\ "BRZ" \in ToSet(n9)
  BY DEF IsSeq, ToSet
<1>5. IsSeq(n10)
  BY DEF IsSeq
<1>6. IsSeq(n11) /\ "NEW" \in ToSet(n11)
  BY DEF IsSeq, ToSet
<1> DEFINE v1  == Instr!Variants(n1, Instr!Sized)
           v2  == Instr!Variants(n2, Instr!Typed)
           v3  == Instr!Variants(n3, Instr!Sized)
           v4  == Instr!Variants(n4, Instr!Typed)
           v5  == Instr!Variants(n5, Instr!Sized)
           v6  == Instr!Single(n6)
           v7  == Instr!Variants(n7, Instr!Sized)
           v8  == Instr!Variants(Instr!Comparing, Instr!Typed)
           v9  == Instr!Branching
           v10 == Instr!Conversions
           v11 == Instr!Single(n11)
           all == Instr!StackOpcodes
<1>7. all = Instr!Shared \o v1 \o v2 \o v3 \o v4 \o v5 \o v6 \o v7 \o v8 \o v9 \o v10 \o v11
  BY DEF Instr!StackOpcodes
<1>8. v9 = Instr!Single(n9) /\ v10 = Instr!Single(n10)
  BY DEF Instr!Branching, Instr!Conversions
<1> HIDE DEF n1, n2, n3, n4, n5, n6, n7, n9, n10, n11
<1>9. IsSeq(v1) /\ {"STL", "STA"} \X {"", ".64"} \subseteq ToSet(v1)
  BY <1>1, VariantsOf
<1>10. IsSeq(v2) /\ IsSeq(v3) /\ IsSeq(v4) /\ IsSeq(v5)
  BY <1>2, VariantsOf
<1>11. IsSeq(v6) /\ IsSeq(v7) /\ IsSeq(v8)
  BY <1>2, <1>3, VariantsOf
<1>12. IsSeq(v9) /\ {"BRZ"} \X {""} \subseteq ToSet(v9)
  <2>1. IsSeq(v9) /\ ToSet(v9) = ToSet(n9) \X {""}
    BY <1>4, <1>8, VariantsOf
  <2> QED
    BY <1>4, <2>1
<1>13. IsSeq(v10) /\ IsSeq(v11) /\ {"NEW"} \X {""} \subseteq ToSet(v11)
  <2>1. IsSeq(v10)
    BY <1>5, <1>8, VariantsOf
  <2>2. IsSeq(v11) /\ ToSet(v11) = ToSet(n11) \X {""}
    BY <1>6, VariantsOf
  <2> QED
    BY <1>6, <2>1, <2>2
<1> HIDE DEF v1, v2, v3, v4, v5, v6, v7, v8, v9, v10, v11, all
<1>14. \A a, b : IsSeq(a) /\ IsSeq(b)
                 => IsSeq(a \o b) /\ ToSet(a) \subseteq ToSet(a \o b) /\ ToSet(b) \subseteq ToSet(a \o b)
  <2> TAKE a, b
  <2> SUFFICES ASSUME IsSeq(a), IsSeq(b)
               PROVE  IsSeq(a \o b) /\ ToSet(a) \subseteq ToSet(a \o b) /\ ToSet(b) \subseteq ToSet(a \o b)
    OBVIOUS
  <2>1. IsSeq(a \o b) /\ ToSet(a \o b) = ToSet(a) \cup ToSet(b)
    BY ConcatIsSeq
  <2> QED
    BY <2>1
<1> DEFINE s1 == Instr!Shared \o v1
           s5 == s1 \o v2 \o v3 \o v4 \o v5
           s8 == s5 \o v6 \o v7 \o v8
           s9 == s8 \o v9
           sA == s9 \o v10
           sB == sA \o v11
<1>15. all = sB
  BY <1>7
<1>16. IsSeq(s1) /\ ToSet(Instr!Shared) \subseteq ToSet(s1) /\ ToSet(v1) \subseteq ToSet(s1)
  BY <1>9, <1>14, SharedAre
<1> HIDE DEF s1
<1>17. IsSeq(s5) /\ ToSet(s1) \subseteq ToSet(s5)
  <2>1. IsSeq(s1 \o v2) /\ ToSet(s1) \subseteq ToSet(s1 \o v2)
    BY <1>10, <1>14, <1>16
  <2>2. IsSeq(s1 \o v2 \o v3) /\ ToSet(s1 \o v2) \subseteq ToSet(s1 \o v2 \o v3)
    BY <1>10, <1>14, <2>1
  <2>3. IsSeq(s1 \o v2 \o v3 \o v4) /\ ToSet(s1 \o v2 \o v3) \subseteq ToSet(s1 \o v2 \o v3 \o v4)
    BY <1>10, <1>14, <2>2
  <2>4. IsSeq(s5) /\ ToSet(s1 \o v2 \o v3 \o v4) \subseteq ToSet(s5)
    BY <1>10, <1>14, <2>3
  <2> HIDE DEF s5
  <2> QED
    BY <2>1, <2>2, <2>3, <2>4
<1> HIDE DEF s5
<1>18. IsSeq(s8) /\ ToSet(s5) \subseteq ToSet(s8)
  <2>1. IsSeq(s5 \o v6) /\ ToSet(s5) \subseteq ToSet(s5 \o v6)
    BY <1>11, <1>14, <1>17
  <2>2. IsSeq(s5 \o v6 \o v7) /\ ToSet(s5 \o v6) \subseteq ToSet(s5 \o v6 \o v7)
    BY <1>11, <1>14, <2>1
  <2>3. IsSeq(s8) /\ ToSet(s5 \o v6 \o v7) \subseteq ToSet(s8)
    BY <1>11, <1>14, <2>2
  <2> HIDE DEF s8
  <2> QED
    BY <2>1, <2>2, <2>3
<1> HIDE DEF s8
<1>19. IsSeq(s9) /\ ToSet(s8) \subseteq ToSet(s9) /\ ToSet(v9) \subseteq ToSet(s9)
  BY <1>12, <1>14, <1>18
<1> HIDE DEF s9
<1>20. IsSeq(sA) /\ ToSet(s9) \subseteq ToSet(sA)
  BY <1>13, <1>14, <1>19
<1> HIDE DEF sA
<1>21. IsSeq(sB) /\ ToSet(sA) \subseteq ToSet(sB) /\ ToSet(v11) \subseteq ToSet(sB)
  BY <1>13, <1>14, <1>20
<1> HIDE DEF sB
<1>22. Instr!Mnemonics["stack"] = ToSet(sB)
  <2>1. Instr!Mnemonics["stack"] = Instr!ToSet(all)
    BY DEF Instr!Mnemonics, all
  <2> QED
    BY <1>15, <2>1 DEF Instr!ToSet, ToSet
<1>23. ToSet(Instr!Shared) \subseteq ToSet(sB) /\ ToSet(v1) \subseteq ToSet(sB) /\ ToSet(v9) \subseteq ToSet(sB)
  BY <1>16, <1>17, <1>18, <1>19, <1>20, <1>21
<1>24. {"BRZ", "NEW"} \X {""} = ({"BRZ"} \X {""}) \cup ({"NEW"} \X {""})
  OBVIOUS
<1> QED
  BY <1>9, <1>12, <1>13, <1>21, <1>22, <1>23, <1>24

\* The instructions the statements need.
LEMMA OwnInstructions ==
  /\ \A t, x : Encodable(BySize("STL", t), <<x>>) /\ Encodable(BySize("STA", t), <<x>>)
  /\ Encodable(<<"NEW", "">>, <<>>) /\ Encodable(<<"RET", "">>, <<>>)
  /\ \A x : Encodable(<<"BRZ", "">>, <<x>>) /\ Encodable(<<"JMP", "">>, <<x>>)
<1> DEFINE M == Instr!Mnemonics["stack"]
           shared == ToSet(Instr!Shared)
           F(mn) == Instr!Fields("stack", mn)
<1>1. \A mn : F(mn) = IF mn \in shared THEN Instr!SharedFields(mn) ELSE Instr!StackFields(mn)
  <2>1. shared = Instr!ToSet(Instr!Shared)
    BY DEF Instr!ToSet, ToSet
  <2> HIDE DEF shared
  <2> QED
    BY <2>1 DEF Instr!Fields
<1>2. shared = ({"NOP", "EXIT", "JMP", "CALL"} \X {""})
               \cup ({"RET"} \X {"", ".32", ".64"}) \cup ({"SCALL", "SARG"} \X {""})
  BY SharedAre
<1>3. ({"STL", "STA"} \X {"", ".64"}) \cup ({"BRZ", "NEW"} \X {""}) \cup shared \subseteq M
  BY StackOpcodesAre
<1>4. \A a, b : <<a, b>> \in shared => a \in {"NOP", "EXIT", "JMP", "CALL", "RET", "SCALL", "SARG"}
  BY <1>2
<1>5. <<"RET", "">> \in shared /\ <<"JMP", "">> \in shared
  BY <1>2
<1> HIDE DEF M, shared, F
<1>6. ASSUME NEW n \in {"STL", "STA"}, NEW s \in {"", ".64"}
      PROVE  <<n, s>> \in M /\ F(<<n, s>>) = <<1>>
  <2>1. <<n, s>> \in M /\ <<n, s>> \notin shared
    BY <1>3, <1>4
  <2>2. F(<<n, s>>) = Instr!StackFields(<<n, s>>)
    BY <1>1, <2>1
  <2> QED
    BY <2>1, <2>2 DEF Instr!StackFields
<1>7. \A t : \A n : \E s \in {"", ".64"} : BySize(n, t) = <<n, s>>
  BY DEF BySize
<1>8. \A t : \A n \in {"STL", "STA"} : BySize(n, t) \in M /\ F(BySize(n, t)) = <<1>>
  <2> TAKE t
  <2> TAKE n \in {"STL", "STA"}
  <2>1. PICK s \in {"", ".64"} : BySize(n, t) = <<n, s>>
    BY <1>7
  <2> QED
    BY <1>6, <2>1
<1>9. ASSUME NEW n \in {"BRZ", "NEW"} PROVE <<n, "">> \in M /\ <<n, "">> \notin shared
  BY <1>3, <1>4
<1>10. <<"BRZ", "">> \in M /\ F(<<"BRZ", "">>) = <<4>>
  <2>1. <<"BRZ", "">> \in M /\ <<"BRZ", "">> \notin shared
    BY <1>9
  <2>2. F(<<"BRZ", "">>) = Instr!StackFields(<<"BRZ", "">>)
    BY <1>1, <2>1
  <2> QED
    BY <2>1, <2>2 DEF Instr!StackFields
<1>11. <<"NEW", "">> \in M /\ F(<<"NEW", "">>) = <<>>
  <2>1. <<"NEW", "">> \in M /\ <<"NEW", "">> \notin shared
    BY <1>9
  <2>2. F(<<"NEW", "">>) = Instr!StackFields(<<"NEW", "">>)
    BY <1>1, <2>1
  <2> QED
    BY <2>1, <2>2 DEF Instr!StackFields
<1>12. <<"JMP", "">> \in M /\ F(<<"JMP", "">>) = <<4>>
  <2>1. F(<<"JMP", "">>) = Instr!SharedFields(<<"JMP", "">>)
    BY <1>1, <1>5
  <2> QED
    BY <1>3, <1>5, <2>1 DEF Instr!SharedFields
<1>13. <<"RET", "">> \in M
  BY <1>3, <1>5
<1>14. \A mn, args : Encodable(mn, args) <=> mn \in M /\ (mn[1] # "RET" => Len(args) = Len(F(mn)))
  BY DEF Encodable, M, F
<1>15. \A n, x : Len(<<x>>) = Len(<<n>>)
  OBVIOUS
<1>16. ASSUME NEW t, NEW x
       PROVE  Encodable(BySize("STL", t), <<x>>) /\ Encodable(BySize("STA", t), <<x>>)
  BY <1>8, <1>14, <1>15
<1>17. Encodable(<<"NEW", "">>, <<>>)
  BY <1>11, <1>14
<1>18. Encodable(<<"RET", "">>, <<>>)
  BY <1>13, <1>14
<1>19. ASSUME NEW x PROVE Encodable(<<"BRZ", "">>, <<x>>) /\ Encodable(<<"JMP", "">>, <<x>>)
  BY <1>10, <1>12, <1>14, <1>15
<1> QED
  BY <1>16, <1>17, <1>18, <1>19

----------------------------------------------------------------------------
(* Part 6: where branches go. Within is the property of code that putting  *)
(* it together keeps.                                                      *)

FallsThrough(i) ==
    Encodable(i.mn, i.args) /\ i.over = -1 /\ i.mn[1] \notin {"BRZ", "JMP"}

BranchesOver(i) ==
    i.mn \in {<<"BRZ", "">>, <<"JMP", "">>} /\ i.args = <<>> /\ i.over \in Nat

\* No branch of c goes further than d instructions before what is behind c: to
\* an instruction of c if d is 1, also behind the last if d is 0, up to -d
\* instructions behind that if d is negative.
Within(c, d) ==
    /\ IsSeq(c)
    /\ \A n \in 1 .. Len(c) :
          FallsThrough(c[n]) \/ (BranchesOver(c[n]) /\ n + c[n].over + d <= Len(c))

Straight(c) == IsSeq(c) /\ \A n \in 1 .. Len(c) : FallsThrough(c[n])

LEMMA StraightWithin ==
  ASSUME NEW c, Straight(c), NEW d
  PROVE  Within(c, d)
BY DEF Straight, Within

LEMMA EmptyStraight == Straight(<<>>)
BY EmptyIsSeq DEF Straight

LEMMA OneStraight ==
  ASSUME NEW mn, NEW args, Encodable(mn, args), mn[1] \notin {"BRZ", "JMP"}
  PROVE  Straight(AddInstruction(mn, args)) /\ Len(AddInstruction(mn, args)) = 1
<1> DEFINE i == Instruction(mn, args)
<1>1. FallsThrough(i)
  BY DEF Instruction, FallsThrough
<1> HIDE DEF i
<1>2. IsSeq(<<i>>) /\ Len(<<i>>) = 1 /\ <<i>>[1] = i
  BY Tuples
<1>3. Straight(<<i>>)
  BY <1>1, <1>2 DEF Straight
<1> QED
  BY <1>2, <1>3 DEF AddInstruction, i

LEMMA ConcatWithin ==
  ASSUME NEW a, NEW b, NEW e \in Int, NEW d \in Int, Within(a, e), Within(b, d), d <= e + Len(b)
  PROVE  Within(a \o b, d)
<1> DEFINE c == a \o b
<1>1. PICK l \in Nat, m \in Nat : l = Len(a) /\ m = Len(b)
  BY DEF Within, IsSeq
<1>2. /\ IsSeq(c) /\ Len(c) = l + m
      /\ \A n \in 1 .. l : c[n] = a[n]
      /\ \A n \in 1 .. m : c[l + n] = b[n]
  BY <1>1, ConcatIsSeq DEF Within
<1> HIDE DEF c
<1>3. ASSUME NEW n \in 1 .. l + m
      PROVE  FallsThrough(c[n]) \/ (BranchesOver(c[n]) /\ n + c[n].over + d <= l + m)
  <2>1. CASE n \in 1 .. l
    <3>1. CASE FallsThrough(a[n])
      BY <1>2, <2>1, <3>1
    <3>2. CASE BranchesOver(a[n]) /\ n + a[n].over + e <= l
      <4>1. c[n] = a[n]
        BY <1>2, <2>1
      <4>2. a[n].over \in Nat
        BY <3>2 DEF BranchesOver
      <4>3. n + a[n].over + d <= l + m
        <5>1. PICK o \in Nat : o = a[n].over
          BY <4>2
        <5>2. n + o + e <= l /\ d <= e + m
          BY <1>1, <3>2, <5>1
        <5>3. n + o + d <= l + m
          BY <2>1, <5>2
        <5> QED
          BY <5>1, <5>3
      <4> QED
        BY <3>2, <4>1, <4>3
    <3> QED
      BY <1>1, <2>1, <3>1, <3>2 DEF Within
  <2>2. CASE n \notin 1 .. l
    <3>1. PICK k \in 1 .. m : n = l + k
      <4>1. n - l \in 1 .. m /\ n = l + (n - l)
        BY <2>2
      <4> QED
        BY <4>1
    <3>2. c[n] = b[k]
      BY <1>2, <3>1
    <3>3. CASE FallsThrough(b[k])
      BY <3>2, <3>3
    <3>4. CASE BranchesOver(b[k]) /\ k + b[k].over + d <= m
      <4>1. PICK o \in Nat : o = b[k].over
        BY <3>4 DEF BranchesOver
      <4>2. k + o + d <= m
        BY <3>4, <4>1
      <4>3. n + o + d <= l + m
        BY <3>1, <4>2
      <4> QED
        BY <3>2, <3>4, <4>1, <4>3
    <3> QED
      BY <1>1, <3>1, <3>3, <3>4 DEF Within
  <2> QED
    BY <2>1, <2>2
<1>4. Within(c, d)
  BY <1>2, <1>3 DEF Within
<1> QED
  BY <1>4 DEF c

LEMMA ConcatStraight ==
  ASSUME NEW a, Straight(a), NEW b, Straight(b)
  PROVE  Straight(a \o b) /\ Len(a \o b) = Len(a) + Len(b)
<1> DEFINE c == a \o b
<1>1. PICK l \in Nat, m \in Nat : l = Len(a) /\ m = Len(b)
  BY DEF Straight, IsSeq
<1>2. /\ IsSeq(c) /\ Len(c) = l + m
      /\ \A n \in 1 .. l : c[n] = a[n]
      /\ \A n \in 1 .. m : c[l + n] = b[n]
  BY <1>1, ConcatIsSeq DEF Straight
<1> HIDE DEF c
<1>3. ASSUME NEW n \in 1 .. l + m PROVE FallsThrough(c[n])
  <2>1. CASE n \in 1 .. l
    BY <1>1, <1>2, <2>1 DEF Straight
  <2>2. CASE n \notin 1 .. l
    <3>1. n - l \in 1 .. m /\ n = l + (n - l)
      BY <2>2
    <3>2. c[n] = b[n - l]
      BY <1>2, <3>1
    <3> QED
      BY <1>1, <3>1, <3>2 DEF Straight
  <2> QED
    BY <2>1, <2>2
<1>4. Straight(c)
  BY <1>2, <1>3 DEF Straight
<1> QED
  BY <1>1, <1>2, <1>4 DEF c

LEMMA BranchWithin ==
  ASSUME NEW mn \in {"BRZ", "JMP"}, NEW n \in Nat
  PROVE  Within(BranchOver(mn, n), -n)
<1> DEFINE i == [Instruction(<<mn, "">>, <<>>) EXCEPT !.over = n]
<1>1. i.mn = <<mn, "">> /\ i.args = <<>> /\ i.over = n
  BY DEF Instruction
<1> HIDE DEF i
<1>2. BranchesOver(i)
  BY <1>1 DEF BranchesOver
<1>3. IsSeq(<<i>>) /\ Len(<<i>>) = 1 /\ <<i>>[1] = i
  BY Tuples
<1>4. 1 + i.over + (-n) <= 1
  <2>1. 1 + n + (-n) <= 1
    OBVIOUS
  <2> QED
    BY <1>1, <2>1
<1>5. Within(<<i>>, -n)
  BY <1>2, <1>3, <1>4 DEF Within
<1> QED
  BY <1>5 DEF BranchOver, i

LEMMA FlatStart ==
  ASSUME NEW ws, NEW n \in Nat \ {0}, NEW f, Flat(f, ws, n)
  PROVE  f[1] = ws[1] /\ \A i \in 1 .. n - 1 : f[i + 1] = f[i] \o ws[i + 1]
<1>1. 1 \in 1 .. n /\ \A i \in 1 .. n - 1 : i + 1 \in 1 .. n /\ i + 1 # 1 /\ (i + 1) - 1 = i
  OBVIOUS
<1> QED
  BY <1>1 DEF Flat

\* The concatenation of parts that are within.
LEMMA FlatWithin ==
  ASSUME NEW ws, NEW n \in Nat \ {0}, NEW f, Flat(f, ws, n), NEW d \in Int,
         \A k \in 1 .. n : Within(ws[k], d)
  PROVE  \A k \in 1 .. n : Within(f[k], d)
<1>0. f[1] = ws[1] /\ \A i \in 1 .. n - 1 : f[i + 1] = f[i] \o ws[i + 1]
  BY FlatStart, Zenon
<1> DEFINE R == {m \in 0 .. n - 1 : Within(f[m + 1], d)}
<1>1. 0 \in R
  <2>1. 1 \in 1 .. n /\ 0 \in 0 .. n - 1 /\ 0 + 1 = 1
    OBVIOUS
  <2>2. f[1] = ws[1]
    BY <1>0
  <2>3. Within(f[1], d)
    BY <2>1, <2>2
  <2> QED
    BY <2>1, <2>3
<1>2. ASSUME NEW m \in 0 .. n - 1 - 1, m \in R PROVE m + 1 \in R
  <2> DEFINE i == m + 1
  <2>1. i \in 1 .. n - 1 /\ i + 1 \in 1 .. n /\ m + 1 \in 0 .. n - 1
    OBVIOUS
  <2>2. Within(f[i], d)
    BY <1>2
  <2> HIDE DEF i
  <2>3. f[i + 1] = f[i] \o ws[i + 1]
    BY <1>0, <2>1
  <2>4. Within(ws[i + 1], d)
    BY <2>1
  <2>5. d <= d + Len(ws[i + 1])
    BY <2>4 DEF Within, IsSeq
  <2>6. Within(f[i + 1], d)
    BY <2>2, <2>3, <2>4, <2>5, ConcatWithin
  <2> QED
    BY <2>1, <2>6 DEF i
<1> DEFINE m == n - 1
<1>3. m \in Nat
  OBVIOUS
<1> HIDE DEF R, m
<1>4. 0 .. m \subseteq R
  BY <1>1, <1>2, <1>3, SetInductionTo DEF m
<1>5. ASSUME NEW k \in 1 .. n PROVE Within(f[k], d)
  <2>1. k - 1 \in 0 .. m /\ (k - 1) + 1 = k
    BY DEF m
  <2>2. k - 1 \in R
    BY <1>4, <2>1
  <2> QED
    BY <2>1, <2>2 DEF R
<1> QED
  BY <1>5

LEMMA FlattenWithin ==
  ASSUME NEW ws, Len(ws) \in Nat, NEW d \in Int, \A k \in 1 .. Len(ws) : Within(ws[k], d),
         Len(ws) = 0 => ws = <<>>
  PROVE  Within(FlattenSeq(ws), d)
<1>1. CASE Len(ws) = 0
  <2>1. FlattenSeq(ws) = <<>>
    BY <1>1 DEF FlattenSeq
  <2> QED
    BY <2>1, EmptyStraight, StraightWithin
<1>2. CASE Len(ws) # 0
  <2>1. PICK n \in Nat \ {0} : n = Len(ws)
    BY <1>2
  <2>2. PICK f : Flat(f, ws, n) /\ FlattenSeq(ws) = f[n]
    BY <2>1, FlattenIsFlat
  <2>3. \A k \in 1 .. n : Within(f[k], d)
    BY <2>1, <2>2, FlatWithin
  <2> QED
    BY <2>2, <2>3
<1> QED
  BY <1>1, <1>2

\* If behind all branches of the others there is a last part, they stay within.
LEMMA FlattenLastWithin ==
  ASSUME NEW ws, NEW n \in Nat \ {0}, n = Len(ws), \A k \in 1 .. n : Within(ws[k], 0),
         Within(ws[n], 1), ws[n] # <<>>
  PROVE  Within(FlattenSeq(ws), 1)
<1>1. PICK f : Flat(f, ws, n) /\ FlattenSeq(ws) = f[n]
  BY FlattenIsFlat
<1>2. \A k \in 1 .. n : Within(f[k], 0)
  BY <1>1, FlatWithin
<1>3. CASE n = 1
  BY <1>1, <1>3, FlatStart
<1>4. CASE n # 1
  <2>1. PICK m \in 1 .. n - 1 : m + 1 = n
    <3>1. n - 1 \in 1 .. n - 1 /\ (n - 1) + 1 = n
      BY <1>4
    <3> QED
      BY <3>1
  <2>2. f[n] = f[m] \o ws[n]
    <3>1. \A i \in 1 .. n - 1 : f[i + 1] = f[i] \o ws[i + 1]
      BY <1>1, FlatStart
    <3>2. f[m + 1] = f[m] \o ws[m + 1]
      BY <3>1
    <3> QED
      BY <2>1, <3>2
  <2>3. 1 <= 0 + Len(ws[n])
    BY EmptyIsSeq DEF Within, IsSeq
  <2>4. m \in 1 .. n
    BY <2>1
  <2>5. Within(f[m], 0)
    BY <1>2, <2>4
  <2>6. Within(f[m] \o ws[n], 1)
    BY <2>3, <2>5, ConcatWithin
  <2> QED
    BY <1>1, <2>2, <2>6
<1> QED
  BY <1>3, <1>4

----------------------------------------------------------------------------
(* Part 7: the code of statements, from the deepest level up: induction is *)
(* over the levels of CodeOf.                                              *)

\* The code of the expressions of s goes nowhere.
Clean(s) == \A e \in Translated(s) : Straight(ExpressionCode(e))

Stores == {"ASSIGNMENT", "INITIALIZATION", "ASSIGN_OFFSET"}

LEMMA StoreStraight ==
  ASSUME NEW s, s.id.type \in VarTypes, Straight(ExpressionCode(s.exprs[1]))
  PROVE  Straight(stmt_assignment(s)) /\ Straight(stmt_creation(s))
<1> DEFINE name == Access("STL", "STA", s.id)
           e    == ExpressionCode(s.exprs[1])
           t    == s.id.dataType
           x    == s.id.position
           new  == AddInstruction(<<"NEW", "">>, <<>>)
<1>1. name \in {"STL", "STA"} /\ name # ""
  BY DEF Access, VarTypes
<1>2. ASSUME NEW n \in {"STL", "STA"}
      PROVE  /\ Straight(AddInstruction(BySize(n, t), <<x>>))
             /\ Straight(AddInstruction(<<n, "">>, <<x>>))
  <2> DEFINE mn == BySize(n, t)
  <2>1. Encodable(mn, <<x>>) /\ mn[1] = n
    BY OwnInstructions DEF BySize
  <2> HIDE DEF mn
  <2>2. Straight(AddInstruction(mn, <<x>>))
    BY <2>1, OneStraight
  <2>3. Encodable(<<n, "">>, <<x>>)
    <3>1. BySize(n, "INT") = <<n, "">>
      BY DEF BySize, GetDataTypeBytes
    <3> QED
      BY <3>1, OwnInstructions
  <2>4. <<n, "">>[1] \notin {"BRZ", "JMP"}
    OBVIOUS
  <2>5. Straight(AddInstruction(<<n, "">>, <<x>>))
    BY <2>3, <2>4, OneStraight
  <2> QED
    BY <2>2, <2>5 DEF mn
<1>3. ErrorUnless(name # "") = <<>>
  BY <1>1 DEF ErrorUnless
<1>4. Straight(new)
  BY OwnInstructions, OneStraight
<1>5. stmt_assignment(s) = (e \o <<>>) \o AddInstruction(BySize(name, t), <<x>>)
  BY <1>3 DEF stmt_assignment
<1>6. stmt_creation(s) = (e \o new) \o AddInstruction(<<name, "">>, <<x>>)
  BY <1>1 DEF stmt_creation
<1> HIDE DEF name, e, t, x, new
<1>7. Straight(e)
  BY DEF e
<1>8. Straight(e \o <<>>) /\ Straight(e \o new)
  BY <1>4, <1>7, EmptyStraight, ConcatStraight
<1> QED
  BY <1>1, <1>2, <1>5, <1>6, <1>8, ConcatStraight

LEMMA ReturnStraight ==
  ASSUME NEW s, s.exprs # <<>> => Straight(ExpressionCode(s.exprs[1]))
  PROVE  Straight(stmt_return(s)) /\ stmt_return(s) # <<>>
<1> DEFINE e   == IF s.exprs = <<>> THEN <<>> ELSE ExpressionCode(s.exprs[1])
           ret == AddInstruction(<<"RET", "">>, <<>>)
<1>1. Straight(e)
  BY EmptyStraight
<1>2. Straight(ret) /\ Len(ret) = 1
  BY OwnInstructions, OneStraight
<1>3. stmt_return(s) = e \o ret
  BY DEF stmt_return
<1> HIDE DEF e, ret
<1>4. Straight(e \o ret) /\ Len(e \o ret) = Len(e) + 1
  BY <1>1, <1>2, ConcatStraight
<1>5. PICK n \in Nat : n = Len(e)
  BY <1>1 DEF Straight, IsSeq
<1>6. Len(e \o ret) # 0
  BY <1>4, <1>5
<1> QED
  BY <1>3, <1>4, <1>6, EmptyIsSeq

\* A branch goes behind its blocks.
LEMMA BranchStatementWithin ==
  ASSUME NEW s, Len(s.sub) \in {1, 2}, NEW code, \A k \in 1 .. Len(s.sub) : Within(code[s.sub[k]], 0),
         Straight(ExpressionCode(s.sub[1].exprs[1]))
  PROVE  Within(stmt_branch(s, code), 0)
<1> DEFINE c1 == code[s.sub[1]]
           c2 == code[s.sub[2]]
           e  == ExpressionCode(s.sub[1].exprs[1])
<1>1. Within(c1, 0) /\ Within(e, 0) /\ Straight(e)
  BY StraightWithin
<1> HIDE DEF c1, e
<1>2. CASE Len(s.sub) = 1
  <2> DEFINE b == BranchOver("BRZ", Len(c1))
  <2>1. stmt_branch(s, code) = ((e \o b) \o c1) \o <<>>
    BY <1>2 DEF stmt_branch, c1, e
  <2>2. PICK n \in Nat : n = Len(c1)
    BY <1>1 DEF Within, IsSeq
  <2>3. Within(b, -n)
    BY <2>2, BranchWithin
  <2> HIDE DEF b
  <2>4. Within(e, -n)
    BY <1>1, StraightWithin
  <2>5. Within(e \o b, -n)
    <3>1. -n <= -n + Len(b)
      BY <2>3 DEF Within, IsSeq
    <3> QED
      BY <2>3, <2>4, <3>1, ConcatWithin
  <2>6. Within((e \o b) \o c1, 0)
    <3>1. 0 <= -n + Len(c1)
      BY <2>2
    <3> QED
      BY <1>1, <2>5, <3>1, ConcatWithin
  <2>7. Within(<<>>, 0) /\ 0 <= 0 + Len(<<>>)
    BY EmptyStraight, StraightWithin, EmptyIsSeq
  <2> QED
    BY <2>1, <2>6, <2>7, ConcatWithin
<1>3. CASE Len(s.sub) = 2
  <2> DEFINE j == BranchOver("JMP", Len(c2))
             then == c1 \o j
             b == BranchOver("BRZ", Len(then))
  <2>1. stmt_branch(s, code) = ((e \o b) \o then) \o c2
    BY <1>3 DEF stmt_branch, c1, e
  <2>2. Within(c2, 0)
    BY <1>3
  <2> HIDE DEF c2
  <2>3. PICK m \in Nat : m = Len(c2)
    BY <2>2 DEF Within, IsSeq
  <2>4. Within(j, -m)
    BY <2>3, BranchWithin
  <2> HIDE DEF j
  <2>5. Within(then, -m)
    <3>1. -m <= 0 + Len(j)
      BY <2>4 DEF Within, IsSeq
    <3> QED
      BY <1>1, <2>4, <3>1, ConcatWithin
  <2> HIDE DEF then
  <2>6. PICK n \in Nat : n = Len(then)
    BY <2>5 DEF Within, IsSeq
  <2>7. Within(b, -n)
    BY <2>6, BranchWithin
  <2> HIDE DEF b
  <2>8. Within(e \o b, -n)
    <3>1. -n <= -n + Len(b)
      BY <2>7 DEF Within, IsSeq
    <3>2. Within(e, -n)
      BY <1>1, StraightWithin
    <3> QED
      BY <2>7, <3>1, <3>2, ConcatWithin
  <2>9. Within((e \o b) \o then, -m)
    <3>1. -m <= -n + Len(then)
      BY <2>6
    <3> QED
      BY <2>5, <2>8, <3>1, ConcatWithin
  <2>10. 0 <= -m + Len(c2)
    BY <2>3
  <2> QED
    BY <2>1, <2>2, <2>9, <2>10, ConcatWithin
<1> QED
  BY <1>2, <1>3

LEMMA StatementWithin ==
  ASSUME NEW s, Shaped(s), Clean(s), NEW code, \A k \in 1 .. Len(s.sub) : Within(code[s.sub[k]], 0)
  PROVE  LET c == TranslateStatement(s, code)
         IN  Within(c, 0) /\ (s.type = "RETURN" => Within(c, 1) /\ c # <<>>)
<1> DEFINE c == TranslateStatement(s, code)
<1>1. CASE s.type \in Stores
  <2>1. c = stmt_assignment(s)
    BY <1>1 DEF TranslateStatement, Stores
  <2>2. s.id.type \in VarTypes /\ Straight(ExpressionCode(s.exprs[1]))
    BY <1>1 DEF Stores, Shaped, Clean, Translated
  <2>3. Straight(c)
    BY <2>1, <2>2, StoreStraight
  <2> QED
    BY <1>1, <2>3, StraightWithin DEF Stores
<1>2. CASE s.type = "CREATION"
  <2>1. c = stmt_creation(s)
    BY <1>2 DEF TranslateStatement
  <2>2. s.id.type \in VarTypes /\ Straight(ExpressionCode(s.exprs[1]))
    BY <1>2 DEF Shaped, Clean, Translated
  <2>3. Straight(c)
    BY <2>1, <2>2, StoreStraight
  <2> QED
    BY <1>2, <2>3, StraightWithin
<1>3. CASE s.type = "FUNC_CALL"
  <2>1. c = ExpressionCode(s.exprs[1])
    BY <1>3 DEF TranslateStatement
  <2>2. Straight(c)
    BY <1>3, <2>1 DEF Clean, Translated
  <2> QED
    BY <1>3, <2>2, StraightWithin
<1>4. CASE s.type = "BRANCH"
  <2>1. c = stmt_branch(s, code)
    BY <1>4 DEF TranslateStatement
  <2>2. Len(s.sub) \in {1, 2} /\ Straight(ExpressionCode(s.sub[1].exprs[1]))
    BY <1>4 DEF Shaped, Clean, Translated
  <2>3. Within(c, 0)
    BY <2>1, <2>2, BranchStatementWithin
  <2> QED
    BY <1>4, <2>3
<1>5. CASE s.type = "BLOCK"
  <2> DEFINE ws == [k \in DOMAIN s.sub |-> code[s.sub[k]]]
  <2>1. c = FlattenSeq(ws)
    BY <1>5 DEF TranslateStatement
  <2>2. PICK l \in Nat : l = Len(s.sub) /\ DOMAIN s.sub = 1 .. l
    BY SeqFacts DEF Shaped
  <2>3. ws = [k \in 1 .. l |-> code[s.sub[k]]]
    BY <2>2
  <2> HIDE DEF ws
  <2>4. Len(ws) = l /\ \A k \in 1 .. l : Within(ws[k], 0)
    BY <2>2, <2>3
  <2>5. l = 0 => ws = <<>>
    BY <2>3
  <2>6. Within(FlattenSeq(ws), 0)
    BY <2>4, <2>5, FlattenWithin
  <2> QED
    BY <1>5, <2>1, <2>6
<1>6. CASE s.type = "RETURN"
  <2>1. c = stmt_return(s)
    BY <1>6 DEF TranslateStatement
  <2>2. s.exprs # <<>> => Straight(ExpressionCode(s.exprs[1]))
    BY <1>6 DEF Clean, Translated
  <2>3. Straight(c) /\ c # <<>>
    BY <2>1, <2>2, ReturnStraight
  <2> QED
    BY <2>3, StraightWithin
<1>7. CASE s.type \notin Stores \cup {"CREATION", "FUNC_CALL", "BRANCH", "BLOCK", "RETURN"}
  <2>1. c = <<>>
    BY <1>7 DEF TranslateStatement, Stores
  <2> QED
    BY <1>7, <2>1, EmptyStraight, StraightWithin
<1> QED
  BY <1>1, <1>2, <1>3, <1>4, <1>5, <1>6, <1>7

\* The statements of each level.
LevelsUpTo(level, stmts, n) ==
    level = [k \in 0 .. n |-> IF k = 0 THEN ToSet(stmts)
                              ELSE UNION {ToSet(s.sub) : s \in level[k - 1]}]

LEMMA LevelsExist ==
  ASSUME NEW stmts, NEW n \in Nat
  PROVE  \E level : LevelsUpTo(level, stmts, n)
<1> DEFINE Below(l) == UNION {ToSet(s.sub) : s \in l}
           S == {m \in Nat : \E level : LevelsUpTo(level, stmts, m)}
<1>1. 0 \in S
  <2> DEFINE level == [k \in 0 .. 0 |-> ToSet(stmts)]
  <2>1. level = [k \in 0 .. 0 |-> IF k = 0 THEN ToSet(stmts) ELSE Below(level[k - 1])]
    OBVIOUS
  <2> HIDE DEF level
  <2>2. LevelsUpTo(level, stmts, 0)
    BY <2>1 DEF LevelsUpTo
  <2> QED
    BY <2>2
<1>2. ASSUME NEW m \in Nat, m \in S PROVE m + 1 \in S
  <2>1. PICK l : LevelsUpTo(l, stmts, m)
    BY <1>2
  <2> DEFINE b == Below(l[m])
             level == [k \in 0 .. m + 1 |-> IF k = m + 1 THEN b ELSE l[k]]
  <2>2. \A k \in 0 .. m : l[k] = IF k = 0 THEN ToSet(stmts) ELSE Below(l[k - 1])
    BY <2>1 DEF LevelsUpTo
  <2>3. \A k \in 0 .. m : k \in 0 .. m + 1 /\ k # m + 1 /\ level[k] = l[k]
    OBVIOUS
  <2>4. level[m + 1] = b
    OBVIOUS
  <2> HIDE DEF Below
  <2>5. ASSUME NEW k \in 0 .. m + 1
        PROVE  level[k] = IF k = 0 THEN ToSet(stmts) ELSE Below(level[k - 1])
    <3>1. CASE k = m + 1
      <4>1. k # 0 /\ k - 1 = m /\ m \in 0 .. m
        BY <3>1
      <4> QED
        BY <2>3, <2>4, <3>1, <4>1
    <3>2. CASE k # m + 1
      <4>1. k \in 0 .. m /\ (k # 0 => k - 1 \in 0 .. m)
        BY <3>2
      <4> QED
        BY <2>2, <2>3, <4>1
    <3> QED
      BY <3>1, <3>2
  <2>6. level = [k \in 0 .. m + 1 |-> level[k]]
    OBVIOUS
  <2> HIDE DEF level
  <2>7. level = [k \in 0 .. m + 1 |-> IF k = 0 THEN ToSet(stmts) ELSE Below(level[k - 1])]
    BY <2>5, <2>6
  <2>8. LevelsUpTo(level, stmts, m + 1)
    BY <2>7 DEF LevelsUpTo, Below
  <2> QED
    BY <2>8
<1> HIDE DEF S
<1>3. Nat \subseteq S
  BY <1>1, <1>2, SetInduction
<1> QED
  BY <1>3 DEF S

LEMMA LevelsAre ==
  ASSUME NEW stmts
  PROVE  /\ Levels(stmts)[0] = ToSet(stmts)
         /\ \A k \in 1 .. Deepest : Levels(stmts)[k] = UNION {ToSet(s.sub) : s \in Levels(stmts)[k - 1]}
<1> DEFINE d == Deepest
           l == CHOOSE level : level = [k \in 0 .. d |-> IF k = 0 THEN ToSet(stmts)
                                            ELSE UNION {ToSet(s.sub) : s \in level[k - 1]}]
<1>0. Levels(stmts) = l
  BY DEF Levels
<1>1. Deepest \in Nat
  BY NestingAssumption DEF Deepest
<1>2. LevelsUpTo(l, stmts, d)
  <2> HIDE DEF d
  <2>1. \E level : LevelsUpTo(level, stmts, d)
    BY <1>1, LevelsExist DEF d
  <2> QED
    BY <2>1 DEF LevelsUpTo
<1>3. 0 \in 0 .. Deepest /\ \A k \in 1 .. Deepest : k \in 0 .. Deepest /\ k # 0
  BY <1>1
<1> HIDE DEF l
<1> QED
  BY <1>0, <1>2, <1>3 DEF LevelsUpTo

\* The code of each level, from the deepest up.
CodesUpTo(code, level, n) ==
    code = [d \in 0 .. n |-> [s \in level[Deepest - d] |->
                IF d = 0 THEN <<>> ELSE TranslateStatement(s, code[d - 1])]]

LEMMA CodesExist ==
  ASSUME NEW level, NEW n \in Nat
  PROVE  \E code : CodesUpTo(code, level, n)
<1> DEFINE At(c, d) == [s \in level[Deepest - d] |-> IF d = 0 THEN <<>> ELSE TranslateStatement(s, c)]
           S == {m \in Nat : \E code : CodesUpTo(code, level, m)}
<1>1. 0 \in S
  <2> DEFINE code == [d \in 0 .. 0 |-> [s \in level[Deepest - d] |-> <<>>]]
  <2>1. \A d \in 0 .. 0 : [s \in level[Deepest - d] |-> <<>>] = At(code[d - 1], d)
    OBVIOUS
  <2> HIDE DEF At
  <2>2. code = [d \in 0 .. 0 |-> At(code[d - 1], d)]
    BY <2>1
  <2> HIDE DEF code
  <2>3. CodesUpTo(code, level, 0)
    BY <2>2 DEF CodesUpTo, At
  <2> QED
    BY <2>3
<1>2. ASSUME NEW m \in Nat, m \in S PROVE m + 1 \in S
  <2>1. PICK c : CodesUpTo(c, level, m)
    BY <1>2
  <2> DEFINE b == At(c[m], m + 1)
             code == [d \in 0 .. m + 1 |-> IF d = m + 1 THEN b ELSE c[d]]
  <2>2. \A d \in 0 .. m : c[d] = At(c[d - 1], d)
    BY <2>1 DEF CodesUpTo
  <2>3. \A d \in 0 .. m : d \in 0 .. m + 1 /\ d # m + 1 /\ code[d] = c[d]
    OBVIOUS
  <2>4. code[m + 1] = b
    OBVIOUS
  <2>5. \A x, y : At(x, 0) = At(y, 0)
    OBVIOUS
  <2> HIDE DEF At
  <2>6. ASSUME NEW d \in 0 .. m + 1 PROVE code[d] = At(code[d - 1], d)
    <3>1. CASE d = m + 1
      <4>1. d - 1 = m /\ m \in 0 .. m
        BY <3>1
      <4> QED
        BY <2>3, <2>4, <3>1, <4>1
    <3>2. CASE d = 0
      <4>1. 0 \in 0 .. m
        OBVIOUS
      <4> QED
        BY <2>2, <2>3, <2>5, <3>2, <4>1
    <3>3. CASE d # m + 1 /\ d # 0
      <4>1. d \in 0 .. m /\ d - 1 \in 0 .. m
        BY <3>3
      <4> QED
        BY <2>2, <2>3, <4>1
    <3> QED
      BY <3>1, <3>2, <3>3
  <2>7. code = [d \in 0 .. m + 1 |-> code[d]]
    OBVIOUS
  <2> HIDE DEF code
  <2>8. code = [d \in 0 .. m + 1 |-> At(code[d - 1], d)]
    BY <2>6, <2>7
  <2>9. CodesUpTo(code, level, m + 1)
    BY <2>8 DEF CodesUpTo, At
  <2> QED
    BY <2>9
<1> HIDE DEF S
<1>3. Nat \subseteq S
  BY <1>1, <1>2, SetInduction
<1> QED
  BY <1>3 DEF S

LEMMA LevelsIn ==
  ASSUME NEW T, Closed(T), NEW stmts, Made(stmts, T)
  PROVE  \A k \in 0 .. Deepest : Levels(stmts)[k] \subseteq T
<1> DEFINE l == Levels(stmts)
<1>1. PICK n \in Nat : n = Deepest
  BY NestingAssumption DEF Deepest
<1> DEFINE R == {k \in 0 .. n : l[k] \subseteq T}
<1>2. \A s \in T : ToSet(s.sub) \subseteq T
  <2> TAKE s \in T
  <2>1. DOMAIN s.sub = 1 .. Len(s.sub) /\ \A k \in 1 .. Len(s.sub) : s.sub[k] \in T
    BY SeqFacts DEF Closed, Shaped
  <2> QED
    BY <2>1 DEF ToSet
<1>3. 0 \in R
  <2>1. DOMAIN stmts = 1 .. Len(stmts)
    BY SeqFacts DEF Made
  <2>2. ToSet(stmts) \subseteq T
    BY <2>1 DEF Made, ToSet
  <2> QED
    BY <2>2, LevelsAre
<1>4. ASSUME NEW m \in 0 .. n - 1, m \in R PROVE m + 1 \in R
  <2>1. m + 1 \in 1 .. Deepest /\ (m + 1) - 1 = m /\ m + 1 \in 0 .. n
    BY <1>1
  <2>2. l[m + 1] = UNION {ToSet(s.sub) : s \in l[m]}
    BY <2>1, LevelsAre
  <2> HIDE DEF l
  <2>3. l[m + 1] \subseteq T
    BY <1>2, <1>4, <2>2
  <2> QED
    BY <2>1, <2>3
<1> HIDE DEF R
<1>5. 0 .. n \subseteq R
  BY <1>3, <1>4, SetInductionTo
<1> QED
  BY <1>1, <1>5 DEF R

LEMMA CodeWithin ==
  ASSUME NEW T, Closed(T), NEW stmts, Made(stmts, T),
         \A k \in 0 .. Deepest : \A s \in Levels(stmts)[k] : Clean(s)
  PROVE  \A s \in ToSet(stmts) :
            /\ Within(CodeOf(stmts)[s], 0)
            /\ s.type = "RETURN" => Within(CodeOf(stmts)[s], 1) /\ CodeOf(stmts)[s] # <<>>
<1> DEFINE l == Levels(stmts)
           e == Deepest
           code == CHOOSE code : code =
                      [d \in 0 .. e |-> [s \in Levels(stmts)[e - d] |->
                           IF d = 0 THEN <<>> ELSE TranslateStatement(s, code[d - 1])]]
<1>1. CodeOf(stmts) = code[Deepest]
  BY DEF CodeOf
<1>2. CodesUpTo(code, l, e)
  <2>1. Deepest \in Nat
    BY NestingAssumption DEF Deepest
  <2>2. \E c : CodesUpTo(c, l, e)
    BY <2>1, CodesExist
  <2> QED
    BY <2>2 DEF CodesUpTo
<1>3. PICK n \in Nat \ {0} : n = Deepest
  BY NestingAssumption DEF Deepest
<1> HIDE DEF l, e, code
<1>4. \A d \in 0 .. n : \A s \in l[n - d] :
         code[d][s] = IF d = 0 THEN <<>> ELSE TranslateStatement(s, code[d - 1])
  BY <1>2, <1>3 DEF CodesUpTo, e
<1>5. \A k \in 0 .. n : \A s \in l[k] : Shaped(s) /\ Clean(s)
  BY <1>3, LevelsIn DEF Closed, l
<1>6. \A k \in 1 .. n : l[k] = UNION {ToSet(s.sub) : s \in l[k - 1]}
  BY <1>3, LevelsAre DEF l
<1> DEFINE Good(d) == \A s \in l[n - d] : Within(code[d][s], 0)
           R == {d \in 0 .. n : Good(d)}
<1>7. 0 \in R
  <2>1. \A s \in l[n - 0] : code[0][s] = <<>>
    BY <1>4
  <2>2. Within(<<>>, 0)
    BY EmptyStraight, StraightWithin
  <2> QED
    BY <2>1, <2>2
\* One level up.
<1>8. ASSUME NEW m \in 0 .. n - 1, m \in R, NEW s \in l[n - (m + 1)]
      PROVE  LET c == code[m + 1][s]
             IN  Within(c, 0) /\ (s.type = "RETURN" => Within(c, 1) /\ c # <<>>)
  <2>1. m + 1 \in 0 .. n /\ m + 1 # 0 /\ (m + 1) - 1 = m /\ n - (m + 1) \in 0 .. n
        /\ n - m \in 1 .. n /\ (n - m) - 1 = n - (m + 1)
    OBVIOUS
  <2>2. code[m + 1][s] = TranslateStatement(s, code[m])
    BY <1>4, <2>1
  <2>3. Shaped(s) /\ Clean(s)
    BY <1>5, <2>1
  <2>4. ASSUME NEW k \in 1 .. Len(s.sub) PROVE Within(code[m][s.sub[k]], 0)
    <3>1. s.sub[k] \in ToSet(s.sub)
      BY <2>3, SeqFacts DEF Shaped, ToSet
    <3>2. s.sub[k] \in l[n - m]
      BY <1>6, <2>1, <3>1
    <3> QED
      BY <1>8, <3>2
  <2>5. LET c == TranslateStatement(s, code[m])
        IN  Within(c, 0) /\ (s.type = "RETURN" => Within(c, 1) /\ c # <<>>)
    BY <2>3, <2>4, StatementWithin
  <2> QED
    BY <2>2, <2>5
<1>9. ASSUME NEW m \in 0 .. n - 1, m \in R PROVE m + 1 \in R
  <2>1. m + 1 \in 0 .. n
    OBVIOUS
  <2>2. Good(m + 1)
    BY <1>8, <1>9
  <2> HIDE DEF Good
  <2> QED
    BY <2>1, <2>2
<1>10. n - 1 \in R /\ n - 1 \in 0 .. n - 1 /\ n - ((n - 1) + 1) = 0 /\ (n - 1) + 1 = n
  <2>1. 0 .. n \subseteq R
    <3> HIDE DEF R
    <3> QED
      BY <1>7, <1>9, SetInductionTo
  <2>2. n - 1 \in 0 .. n
    OBVIOUS
  <2> HIDE DEF R
  <2> QED
    BY <2>1, <2>2
<1>11. ASSUME NEW s \in ToSet(stmts)
       PROVE  LET c == code[n][s]
              IN  Within(c, 0) /\ (s.type = "RETURN" => Within(c, 1) /\ c # <<>>)
  <2>1. s \in l[0]
    BY LevelsAre DEF l
  <2> HIDE DEF R
  <2> QED
    BY <1>8, <1>10, <2>1
<1> QED
  BY <1>1, <1>3, <1>11

----------------------------------------------------------------------------
(* Part 8: the listing. Where Flush puts the instructions of a function,   *)
(* and which operands it gives them.                                       *)

LEMMA ArgumentsStraight ==
  ASSUME NEW args, IsSeq(args)
  PROVE  Straight(LoadArguments(args))
<1> DEFINE c == LoadArguments(args)
           At(a) == Instruction(BySize("STA", a.dataType), <<a.position>>)
<1>1. PICK l \in Nat : l = Len(args) /\ DOMAIN args = 1 .. l
  BY SeqFacts
<1>2. c = [k \in 1 .. l |-> At(args[l + 1 - k])]
  BY <1>1 DEF LoadArguments
<1>3. ASSUME NEW a PROVE FallsThrough(At(a))
  <2> DEFINE mn == BySize("STA", a.dataType)
  <2>1. Encodable(mn, <<a.position>>) /\ mn[1] = "STA"
    BY OwnInstructions DEF BySize
  <2> HIDE DEF mn
  <2> QED
    BY <2>1 DEF Instruction, FallsThrough, mn
<1> HIDE DEF c, At
<1>4. IsSeq(c) /\ Len(c) = l /\ \A k \in 1 .. l : FallsThrough(c[k])
  <2>1. c = [k \in 1 .. l |-> c[k]] /\ \A k \in 1 .. l : c[k] = At(args[l + 1 - k])
    BY <1>2
  <2>2. IsSeq(c) /\ Len(c) = l
    BY <2>1 DEF IsSeq
  <2> QED
    BY <1>3, <2>1, <2>2
<1> QED
  BY <1>4 DEF Straight, c

\* The code of a function ends in a return, and no branch goes behind it.
LEMMA FunctionWithin ==
  ASSUME NEW T, Closed(T), NEW f, FunctionRead(f, T), f.statements # <<>>,
         Last(f.statements).type = "RETURN",
         \A k \in 0 .. Deepest : \A s \in Levels(f.statements)[k] : Clean(s)
  PROVE  Within(TranslateFunction(f), 1)
<1> DEFINE st == f.statements
           code == CodeOf(st)
           ws == [k \in DOMAIN st |-> code[st[k]]]
           la == LoadArguments(f.args)
<1>1. IsSeq(st) /\ Made(st, T)
  BY DEF FunctionRead, Made
<1>2. PICK n \in Nat \ {0} : n = Len(st) /\ DOMAIN st = 1 .. n
  <2>1. Len(st) # 0
    BY <1>1, EmptyIsSeq
  <2> QED
    BY <1>1, <2>1, SeqFacts
<1>3. \A s \in ToSet(st) : /\ Within(code[s], 0)
                           /\ s.type = "RETURN" => Within(code[s], 1) /\ code[s] # <<>>
  BY <1>1, CodeWithin
<1>4. TranslateFunction(f) = la \o FlattenSeq(ws)
  BY DEF TranslateFunction
<1> HIDE DEF code, ws
<1>5. Len(ws) = n /\ \A k \in 1 .. n : ws[k] = code[st[k]] /\ st[k] \in ToSet(st)
  BY <1>2 DEF ws, ToSet
<1>6. st[n].type = "RETURN" /\ n \in 1 .. n
  BY <1>2 DEF Last
<1>7. Within(FlattenSeq(ws), 1)
  <2>1. \A k \in 1 .. n : Within(ws[k], 0)
    BY <1>3, <1>5
  <2>2. Within(ws[n], 1) /\ ws[n] # <<>>
    BY <1>3, <1>5, <1>6
  <2> QED
    BY <1>5, <2>1, <2>2, FlattenLastWithin
<1>8. Within(la, 1)
  BY ArgumentsStraight, StraightWithin DEF FunctionRead
<1> HIDE DEF la
<1>9. 1 <= 1 + Len(FlattenSeq(ws))
  BY <1>7 DEF Within, IsSeq
<1> QED
  BY <1>4, <1>7, <1>8, <1>9, ConcatWithin

CodesOf(gs, names) ==
    [k \in DOMAIN names |-> IF names[k] \in DOMAIN gs THEN gs[names[k]] ELSE <<>>]

LEMMA CodesWithin ==
  ASSUME NEW fs, IsSeq(fs), \A k \in 1 .. Len(fs) : Within(TranslateFunction(fs[k]), 1), NEW names
  PROVE  \A k \in DOMAIN names : Within(CodesOf(TranslateFunctions(fs), names)[k], 1)
<1> DEFINE gs == TranslateFunctions(fs)
           none == <<>>
           Part(name, k) == IF fs[k].id = name THEN TranslateFunction(fs[k]) ELSE none
           ws(name) == [k \in DOMAIN fs |-> Part(name, k)]
<1>1. PICK n \in Nat : n = Len(fs) /\ DOMAIN fs = 1 .. n
  BY SeqFacts
<1>2. Within(none, 1)
  BY EmptyStraight, StraightWithin
<1>3. gs = [name \in {fs[k].id : k \in DOMAIN fs} |-> FlattenSeq(ws(name))]
  BY DEF TranslateFunctions
<1>4. ASSUME NEW name PROVE Within(FlattenSeq(ws(name)), 1)
  <2> DEFINE w == ws(name)
  <2> HIDE DEF none
  <2>1. \A k \in 1 .. n : Within(Part(name, k), 1)
    BY <1>1, <1>2
  <2>2. w = [k \in 1 .. n |-> Part(name, k)]
    BY <1>1
  <2> HIDE DEF Part, w
  <2>3. Len(w) = n /\ \A k \in 1 .. n : Within(w[k], 1)
    BY <2>1, <2>2
  <2>4. n = 0 => w = <<>>
    BY <2>2
  <2>5. Within(FlattenSeq(w), 1)
    BY <2>3, <2>4, FlattenWithin
  <2> QED
    BY <2>5 DEF w
<1> HIDE DEF gs, ws
<1>5. \A name \in DOMAIN gs : Within(gs[name], 1)
  BY <1>3, <1>4
<1> QED
  BY <1>2, <1>5 DEF CodesOf, gs

\* In an accepted program all of this is so.
LEMMA AcceptedWithin ==
  ASSUME IInv, ExpressionsFallThrough, Accepted
  PROVE  LET codes == CodesOf(TranslateFunctions(funcs), Names)
         IN  \A k \in DOMAIN Names : Within(codes[k], 1)
<1>1. PICK T : Tree(T)
  BY DEF IInv
<1>2. FuncsOK(funcs, T) /\ AllReturn(funcs) /\ Closed(T)
  BY <1>1 DEF Tree, IInv, Accepted
<1>3. ASSUME NEW k \in 1 .. Len(funcs)
      PROVE  Within(TranslateFunction(funcs[k]), 1)
  <2> DEFINE f == funcs[k]
  <2>1. f \in ToSet(funcs)
    BY <1>2, SeqFacts DEF FuncsOK, ToSet
  <2>2. ASSUME NEW i \in 0 .. Deepest, NEW s \in Levels(f.statements)[i] PROVE Clean(s)
    <3>1. ASSUME NEW e \in Translated(s) PROVE Straight(ExpressionCode(e))
      <4> DEFINE c == ExpressionCode(e)
      <4>1. /\ IsSeq(c)
            /\ \A n \in DOMAIN c : /\ Encodable(c[n].mn, c[n].args) /\ c[n].over = -1
                                   /\ c[n].mn[1] \notin {"BRZ", "JMP", "RET"}
        BY <2>1 DEF ExpressionsFallThrough
      <4> HIDE DEF c
      <4>2. DOMAIN c = 1 .. Len(c)
        BY <4>1, SeqFacts
      <4>3. Straight(c)
        BY <4>1, <4>2 DEF Straight, FallsThrough
      <4> QED
        BY <4>3 DEF c
    <3> QED
      BY <3>1 DEF Clean
  <2>3. FunctionRead(f, T) /\ f.statements # <<>> /\ Last(f.statements).type = "RETURN"
    BY <1>2 DEF FuncsOK, AllReturn
  <2> HIDE DEF f
  <2>4. Within(TranslateFunction(f), 1)
    BY <1>2, <2>2, <2>3, FunctionWithin
  <2> QED
    BY <2>4 DEF f
<1> QED
  BY <1>2, <1>3, CodesWithin DEF FuncsOK

\* Lines(codes, names)[k] is the listing of function k.
Lines(codes, names) ==
    [k \in DOMAIN codes |-> [n \in DOMAIN codes[k] |-> Line(names, codes, k, n)]]

\* Where the instructions of each function are in the listing.
Listed(ls, codes, names, p) ==
    /\ IsSeq(ls)
    /\ \A k \in 0 .. Len(names) : p[k] \in Nat
    /\ \A k \in 1 .. Len(names) : p[k] = p[k - 1] + Len(codes[k]) /\ Len(codes[k]) \in Nat
    /\ \A k \in 1 .. Len(names) : \A n \in 1 .. Len(codes[k]) :
          /\ p[k - 1] + n \in 1 .. Len(ls)
          /\ ls[p[k - 1] + n] = Line(names, codes, k, n)
    /\ \A i \in 1 .. Len(ls) : \E k \in 1 .. Len(names) : \E n \in 1 .. Len(codes[k]) :
          i = p[k - 1] + n

LEMMA FlushListed ==
  ASSUME NEW names, IsSeq(names), NEW codes, DOMAIN codes = DOMAIN names,
         \A k \in DOMAIN names : IsSeq(codes[k])
  PROVE  \E p : Listed(FlattenSeq(Lines(codes, names)), codes, names, p)
<1> DEFINE At(k, n) == Line(names, codes, k, n)
           T == UNION {{At(k, n) : n \in DOMAIN codes[k]} : k \in DOMAIN codes}
           ws == Lines(codes, names)
           ls == FlattenSeq(ws)
<1>1. PICK l \in Nat : l = Len(names) /\ DOMAIN names = 1 .. l
  BY SeqFacts
<1>2. \A k \in 1 .. l : DOMAIN codes[k] = 1 .. Len(codes[k]) /\ Len(codes[k]) \in Nat
  BY <1>1, SeqFacts
<1>3. /\ Len(ws) = l /\ ws = [k \in 1 .. l |-> ws[k]]
      /\ \A k \in 1 .. l : ws[k] = [n \in 1 .. Len(codes[k]) |-> At(k, n)]
  BY <1>1, <1>2 DEF Lines
<1>4. \A k \in 1 .. l : \A n \in 1 .. Len(codes[k]) : At(k, n) \in T
  BY <1>1, <1>2
<1> HIDE DEF At, T, ws
<1>5. \A k \in 1 .. l : /\ ws[k] \in Seq(T) /\ Len(ws[k]) = Len(codes[k])
                        /\ \A n \in 1 .. Len(codes[k]) : ws[k][n] = At(k, n)
  <2> TAKE k \in 1 .. l
  <2>1. PICK m \in Nat : m = Len(codes[k])
    BY <1>2
  <2>2. ws[k] = [n \in 1 .. m |-> At(k, n)]
    BY <1>3, <2>1
  <2>3. \A n \in 1 .. m : At(k, n) \in T
    BY <1>4, <2>1
  <2>4. ws[k] \in Seq(T) /\ Len(ws[k]) = m
    BY <2>2, <2>3
  <2> QED
    BY <2>1, <2>2, <2>4
<1>6. ws \in Seq(Seq(T))
  <2> DEFINE W == Seq(T)
  <2>1. \A k \in 1 .. l : ws[k] \in W
    BY <1>5
  <2> HIDE DEF W
  <2>2. ws \in Seq(W)
    BY <1>3, <2>1
  <2> QED
    BY <2>2 DEF W
<1>7. ls \in Seq(T)
  BY <1>6, FlattenLaid
<1>8. PICK p : Sums(p, Lengths(ws), l) /\ Len(ls) = p[l] /\ LaidAt(ls, ws, p)
  BY <1>3, <1>6, FlattenLaid
<1>9. PICK x \in [1 .. l -> Nat] : x = Lengths(ws) /\ \A k \in 1 .. l : x[k] = Len(codes[k])
  <2>1. Lengths(ws) = [k \in 1 .. l |-> Len(ws[k])]
    BY <1>3 DEF Lengths
  <2>2. \A k \in 1 .. l : Len(ws[k]) \in Nat /\ Len(ws[k]) = Len(codes[k])
    BY <1>2, <1>5
  <2> DEFINE y == [k \in 1 .. l |-> Len(ws[k])]
  <2>3. y \in [1 .. l -> Nat] /\ \A k \in 1 .. l : y[k] = Len(codes[k])
    BY <2>2
  <2> QED
    BY <2>1, <2>3
<1>10. IsSeq(ls)
  BY <1>7, InSeq
<1> HIDE DEF ls
<1>11. \A k \in 0 .. l : p[k] \in Nat
  BY <1>8 DEF Sums
<1>12. \A k \in 1 .. l : p[k] = p[k - 1] + Len(codes[k])
  BY <1>8, <1>9 DEF Sums
<1>13. ASSUME NEW k \in 1 .. l, NEW n \in 1 .. Len(codes[k])
       PROVE  p[k - 1] + n \in 1 .. Len(ls) /\ ls[p[k - 1] + n] = At(k, n)
  <2>1. k \in 0 .. l /\ l \in k .. l /\ k - 1 \in 0 .. l
    BY <1>1
  <2>2. p[k] <= p[l]
    BY <1>8, <1>9, <2>1, SumsAscend
  <2>3. PICK a \in Nat, b \in Nat, c \in Nat, m \in Nat :
          a = p[k - 1] /\ b = p[k] /\ c = p[l] /\ m = Len(codes[k])
    <3>1. p[k - 1] \in Nat /\ p[k] \in Nat /\ p[l] \in Nat
      BY <1>11, <2>1
    <3> QED
      BY <1>2, <3>1
  <2>4. b = a + m /\ b <= c /\ n \in 1 .. m
    BY <1>12, <2>2, <2>3
  <2>5. a + n \in 1 .. c
    BY <2>4
  <2>6. ls[p[k - 1] + n] = ws[k][n]
    BY <1>3, <1>5, <1>8 DEF LaidAt
  <2> QED
    BY <1>5, <1>8, <2>3, <2>5, <2>6
<1>14. ASSUME NEW i \in 1 .. Len(ls)
       PROVE  \E k \in 1 .. l : \E n \in 1 .. Len(codes[k]) : i = p[k - 1] + n
  <2>1. InParts(i, p, x, l)
    BY <1>8, <1>9, SumsCover
  <2> QED
    BY <1>9, <2>1 DEF InParts
<1>15. Listed(ls, codes, names, p)
  BY <1>1, <1>2, <1>10, <1>11, <1>12, <1>13, <1>14 DEF Listed, At
<1> QED
  BY <1>15 DEF ls, ws

ListingOf(names, codes, ls) ==
    /\ IsSeq(names) /\ DOMAIN codes = 1 .. Len(names)
    /\ \A k \in 1 .. Len(names) : Within(codes[k], 1)
    /\ \E p : Listed(ls, codes, names, p)

LEMMA AcceptedListing ==
  ASSUME IInv, ExpressionsFallThrough, Accepted
  PROVE  ListingOf(Names, CodesOf(TranslateFunctions(funcs), Names), list)
<1> DEFINE codes == CodesOf(TranslateFunctions(funcs), Names)
<1>1. IsSeq(Names) /\ DOMAIN Names = 1 .. Len(Names)
  BY NamesAssumption, InSeq
<1>2. \A k \in DOMAIN Names : Within(codes[k], 1)
  BY AcceptedWithin
<1>3. DOMAIN codes = DOMAIN Names
  BY DEF CodesOf
<1>4. list = FlattenSeq(Lines(codes, Names))
  BY DEF IInv, Accepted, Flush, CodesOf, Lines
<1> HIDE DEF codes
<1>5. \A k \in DOMAIN Names : IsSeq(codes[k])
  BY <1>2 DEF Within
<1>6. \E p : Listed(list, codes, Names, p)
  BY <1>1, <1>3, <1>4, <1>5, FlushListed
<1>7. ListingOf(Names, codes, list)
  BY <1>1, <1>2, <1>3, <1>6 DEF ListingOf
<1> QED
  BY <1>7 DEF codes

\* l is the line of the instruction c.
IsLineOf(l, c) == l.mn = c.mn /\ (~(c.over >= 0) => l.args = c.args)

LabelAt(names, codes, k, n) ==
    IF n = 1 THEN names[k]
    ELSE IF <<k, n>> \in Targets(codes) THEN LabelOf(codes, <<k, n>>) ELSE ""

\* An instruction whose one operand is the label of a later one of its function.
GoesDown(args, codes, k, n) ==
    \E t \in n + 1 .. Len(codes[k]) :
        <<k, t>> \in Targets(codes) /\ args = <<LabelOf(codes, <<k, t>>)>>

LEMMA LineIs ==
  ASSUME NEW names, NEW codes, NEW k, NEW n
  PROVE  /\ IsLineOf(Line(names, codes, k, n), codes[k][n])
         /\ Line(names, codes, k, n).label = LabelAt(names, codes, k, n)
<1> DEFINE c == codes[k][n]
           a == LabelAt(names, codes, k, n)
           x == IF c.over >= 0 /\ <<k, n + c.over + 1>> \in Targets(codes)
                THEN Append(c.args, LabelOf(codes, <<k, n + c.over + 1>>)) ELSE c.args
<1>1. Line(names, codes, k, n) = [label |-> a, mn |-> c.mn, args |-> x]
  BY DEF Line, LabelAt
<1>2. ~(c.over >= 0) => x = c.args
  OBVIOUS
<1> HIDE DEF a, x
<1>3. LET l == Line(names, codes, k, n)
      IN  l.mn = c.mn /\ l.args = x /\ l.label = a
  BY <1>1
<1> QED
  BY <1>2, <1>3 DEF a, IsLineOf

\* A branch within its function has a target, which is labelled.
LEMMA TargetOfBranch ==
  ASSUME NEW names, NEW codes, NEW ls, ListingOf(names, codes, ls),
         NEW k \in 1 .. Len(names), NEW n \in 1 .. Len(codes[k]), BranchesOver(codes[k][n])
  PROVE  GoesDown(Line(names, codes, k, n).args, codes, k, n)
<1> DEFINE c == codes[k]
<1>1. IsSeq(c) /\ (FallsThrough(c[n]) \/ n + c[n].over + 1 <= Len(c))
  BY DEF ListingOf, Within
<1>2. c[n].over \in Nat /\ c[n].args = <<>>
  BY DEF BranchesOver
<1>3. PICK o \in Nat, l \in Nat : o = c[n].over /\ l = Len(c) /\ DOMAIN c = 1 .. l
  BY <1>1, <1>2, SeqFacts
<1>4. n + o + 1 <= l
  BY <1>1, <1>3 DEF FallsThrough
<1> DEFINE t == n + o + 1
<1>5. t \in n + 1 .. l /\ t \in 1 .. l
  <2>1. PICK m \in Nat : m = n
    BY <1>3
  <2>2. m + o + 1 \in m + 1 .. l /\ m + o + 1 \in 1 .. l
    BY <1>4, <2>1
  <2> QED
    BY <2>1, <2>2
<1>6. n \in BranchesTo(c, t)
  BY <1>3 DEF BranchesTo
<1>7. <<k, t>> \in Targets(codes)
  <2>1. t \in {u \in DOMAIN codes[k] : BranchesTo(codes[k], u) # {}}
    BY <1>3, <1>5, <1>6
  <2>2. k \in DOMAIN codes
    BY DEF ListingOf
  <2> HIDE DEF t
  <2> QED
    BY <2>1, <2>2 DEF Targets
<1>8. Line(names, codes, k, n).args = <<LabelOf(codes, <<k, t>>)>>
  <2>1. c[n].over >= 0
    BY <1>3
  <2>2. <<k, n + c[n].over + 1>> = <<k, t>>
    BY <1>3
  <2> HIDE DEF t
  <2>3. Line(names, codes, k, n).args = Append(c[n].args, LabelOf(codes, <<k, t>>))
    BY <1>7, <2>1, <2>2 DEF Line
  <2>4. \A x : Append(<<>>, x) = <<x>>
    OBVIOUS
  <2> QED
    BY <1>2, <2>3, <2>4
<1> QED
  BY <1>3, <1>5, <1>7, <1>8 DEF GoesDown

\* Every instruction of the listing is one of the assembler's, with its operands.
LEMMA ListingEncodable ==
  ASSUME NEW names, NEW codes, NEW ls, ListingOf(names, codes, ls), NEW i \in 1 .. Len(ls)
  PROVE  Encodable(ls[i].mn, ls[i].args)
<1>1. PICK p : Listed(ls, codes, names, p)
  BY DEF ListingOf
<1>2. PICK k \in 1 .. Len(names) : \E n \in 1 .. Len(codes[k]) : i = p[k - 1] + n
  BY <1>1 DEF Listed
<1>3. PICK n \in 1 .. Len(codes[k]) : i = p[k - 1] + n
  BY <1>2
<1>4. ls[i] = Line(names, codes, k, n)
  BY <1>1, <1>3 DEF Listed
<1> DEFINE c == codes[k][n]
<1>5. FallsThrough(c) \/ BranchesOver(c)
  BY DEF ListingOf, Within
<1>6. ls[i].mn = c.mn /\ (~(c.over >= 0) => ls[i].args = c.args)
  BY <1>4, LineIs DEF IsLineOf
<1>7. CASE FallsThrough(c)
  <2>1. c.over = -1 /\ Encodable(c.mn, c.args)
    BY <1>7 DEF FallsThrough
  <2>2. ~(c.over >= 0)
    <3>1. ~(-1 >= 0)
      OBVIOUS
    <3> QED
      BY <2>1, <3>1
  <2>3. ls[i].args = c.args
    BY <1>6, <2>2
  <2> QED
    BY <1>6, <2>1, <2>3
<1>8. CASE BranchesOver(c)
  <2>1. PICK x : ls[i].args = <<x>>
    <3>1. GoesDown(ls[i].args, codes, k, n)
      BY <1>4, <1>8, TargetOfBranch
    <3> QED
      BY <3>1 DEF GoesDown
  <2>2. c.mn \in {<<"BRZ", "">>, <<"JMP", "">>}
    BY <1>8 DEF BranchesOver
  <2> HIDE DEF c
  <2>3. Encodable(<<"BRZ", "">>, <<x>>) /\ Encodable(<<"JMP", "">>, <<x>>)
    BY OwnInstructions
  <2> QED
    BY <1>6, <2>1, <2>2, <2>3
<1> QED
  BY <1>5, <1>7, <1>8

\* Whatever the generator makes of statements, and of expressions as the run
\* finds it, the assembler takes: Flush gives each branch its one operand.
THEOREM ListingInInstructionSet == Spec /\ []ExpressionsFallThrough => []InInstructionSet
<1>1. IInv /\ ExpressionsFallThrough => InInstructionSet
  <2> SUFFICES ASSUME IInv, ExpressionsFallThrough, Accepted, NEW n \in DOMAIN list
               PROVE  Encodable(list[n].mn, list[n].args)
    BY DEF InInstructionSet
  <2> DEFINE codes == CodesOf(TranslateFunctions(funcs), Names)
  <2>1. ListingOf(Names, codes, list)
    BY AcceptedListing
  <2> HIDE DEF codes
  <2>2. n \in 1 .. Len(list)
    BY <2>1, SeqFacts DEF ListingOf, Listed
  <2> QED
    BY <2>1, <2>2, ListingEncodable
<1> QED
  BY <1>1, InvariantHolds, PTL

----------------------------------------------------------------------------
(* Part 9: labels. Targets are ordered by the first branch to them, and a  *)
(* label has the number of the targets before its own.                     *)

LEMMA MinIsLeast ==
  ASSUME NEW S, S \subseteq Nat, S # {}
  PROVE  Min(S) \in S
<1>1. \E x \in S : \A y \in S : x <= y
  BY LeastNat
<1> QED
  BY <1>1 DEF Min

\* The labels that are made: no two are the same, and they are no names of functions,
\* which begin with a letter (id of lexer.l) and not with an underscore.
DistinctLabels ==
    /\ \A m, n \in Nat : CreateLabel(m) = CreateLabel(n) => m = n
    /\ \A n \in Nat : CreateLabel(n) # "" /\ CreateLabel(n) \notin ToSet(Names)

\* The first branch to a target asks for its label.
FirstTo(codes, q) == Min(BranchesTo(codes[q[1]], q[2]))

TargetOK(codes, names, q) ==
    /\ q = <<q[1], q[2]>> /\ q[1] \in 1 .. Len(names) /\ q[2] \in 1 .. Len(codes[q[1]])
    /\ FirstTo(codes, q) \in Nat
    /\ q[2] = FirstTo(codes, q) + codes[q[1]][FirstTo(codes, q)].over + 1

LEMMA TargetsAre ==
  ASSUME NEW names, NEW codes, NEW ls, ListingOf(names, codes, ls)
  PROVE  IsFiniteSet(Targets(codes)) /\ \A q \in Targets(codes) : TargetOK(codes, names, q)
<1>1. PICK p : Listed(ls, codes, names, p)
  BY DEF ListingOf
<1>2. PICK N \in Nat, M \in Nat : N = Len(names) /\ M = Len(ls)
  BY <1>1 DEF ListingOf, Listed, IsSeq
<1>3. DOMAIN codes = 1 .. N /\ \A k \in 1 .. N : DOMAIN codes[k] = 1 .. Len(codes[k])
  BY <1>2, SeqFacts DEF ListingOf, Within
<1>4. ASSUME NEW k \in 1 .. N, NEW n \in 1 .. Len(codes[k]) PROVE n \in 1 .. M
  <2>1. p[k - 1] + n \in 1 .. M
    BY <1>1, <1>2 DEF Listed
  <2>2. p[k - 1] \in Nat /\ Len(codes[k]) \in Nat
    <3>1. k - 1 \in 0 .. N
      BY <1>2
    <3> QED
      BY <1>1, <1>2, <3>1 DEF Listed
  <2> QED
    BY <2>1, <2>2
<1>5. ASSUME NEW q \in Targets(codes)
      PROVE  TargetOK(codes, names, q) /\ q \in (1 .. N) \X (1 .. M)
  <2>1. PICK k \in 1 .. N : q \in {<<k, t>> : t \in {t \in DOMAIN codes[k] : BranchesTo(codes[k], t) # {}}}
    BY <1>3 DEF Targets
  <2>2. PICK t \in 1 .. Len(codes[k]) : q = <<k, t>> /\ BranchesTo(codes[k], t) # {}
    BY <1>3, <2>1
  <2>3. q[1] = k /\ q[2] = t
    BY <2>2
  <2> DEFINE S == BranchesTo(codes[k], t)
  <2>4. S \subseteq 1 .. M /\ \A n \in S : n + codes[k][n].over + 1 = t
    BY <1>3, <1>4 DEF BranchesTo
  <2>5. S \subseteq Nat /\ S # {}
    BY <2>2, <2>4
  <2> HIDE DEF S
  <2>6. Min(S) \in S
    BY <2>5, MinIsLeast
  <2>7. FirstTo(codes, q) = Min(S)
    BY <2>3 DEF FirstTo, S
  <2>8. q \in (1 .. N) \X (1 .. M)
    BY <1>4, <2>2
  <2> QED
    BY <1>2, <2>2, <2>3, <2>4, <2>5, <2>6, <2>7, <2>8 DEF TargetOK
<1>6. IsFiniteSet((1 .. N) \X (1 .. M))
  <2>1. IsFiniteSet(1 .. N) /\ IsFiniteSet(1 .. M)
    BY <1>2, FS_Interval
  <2> QED
    BY <2>1, FS_Product
<1>7. Targets(codes) \subseteq (1 .. N) \X (1 .. M)
  BY <1>5
<1> QED
  BY <1>5, <1>6, <1>7, FS_Subset

\* Of two targets one gets its label before the other.
LEMMA LabelsDiffer ==
  ASSUME NEW names, NEW codes, NEW ls, ListingOf(names, codes, ls), DistinctLabels
  PROVE  /\ \A q \in Targets(codes) : \E n \in Nat : LabelOf(codes, q) = CreateLabel(n)
         /\ \A q, r \in Targets(codes) : LabelOf(codes, q) = LabelOf(codes, r) => q = r
<1> DEFINE T == Targets(codes)
           F(q) == FirstTo(codes, q)
           Before(q) == {r \in T : MadeBefore(codes, r, q)}
           L(q) == LabelOf(codes, q)
<1>1. IsFiniteSet(T)
  BY TargetsAre
<1>2. \A q \in T : /\ q = <<q[1], q[2]>> /\ q[1] \in Nat /\ F(q) \in Nat
                   /\ q[2] = F(q) + codes[q[1]][F(q)].over + 1
  BY TargetsAre DEF TargetOK
<1>3. \A q, r : MadeBefore(codes, q, r) <=> (q[1] < r[1] \/ (q[1] = r[1] /\ F(q) < F(r)))
  BY DEF MadeBefore, FirstTo
<1>4. \A q : L(q) = CreateLabel(Cardinality(Before(q)))
  BY DEF LabelOf
<1> HIDE DEF T, F, L
<1>5. \A q \in T : IsFiniteSet(Before(q)) /\ Cardinality(Before(q)) \in Nat
  BY <1>1, FS_Subset, FS_CardinalityType
<1>6. ASSUME NEW q \in T, NEW r \in T, q # r
      PROVE  MadeBefore(codes, q, r) \/ MadeBefore(codes, r, q)
  <2>1. CASE q[1] = r[1] /\ F(q) = F(r)
    <3>1. q[2] = r[2]
      BY <1>2, <2>1
    <3> QED
      BY <1>2, <1>6, <2>1, <3>1
  <2>2. CASE q[1] # r[1] \/ F(q) # F(r)
    BY <1>2, <1>3, <2>2
  <2> QED
    BY <2>1, <2>2
<1>7. ASSUME NEW q \in T, NEW r \in T, MadeBefore(codes, q, r)
      PROVE  Cardinality(Before(q)) # Cardinality(Before(r))
  <2>1. ASSUME NEW s \in Before(q) PROVE s \in Before(r)
    <3>1. s \in T /\ MadeBefore(codes, s, q)
      OBVIOUS
    <3>2. MadeBefore(codes, s, r)
      BY <1>2, <1>3, <1>7, <3>1
    <3> QED
      BY <3>1, <3>2
  <2>2. q \in Before(r) /\ q \notin Before(q)
    BY <1>2, <1>3, <1>7
  <2> HIDE DEF Before
  <2>3. Before(q) \in SUBSET Before(r) /\ Before(q) # Before(r)
    BY <2>1, <2>2
  <2> QED
    BY <1>5, <2>3, FS_Subset
<1>8. ASSUME NEW q \in T, NEW r \in T, q # r PROVE L(q) # L(r)
  <2> HIDE DEF Before
  <2>1. Cardinality(Before(q)) # Cardinality(Before(r))
    BY <1>6, <1>7, <1>8
  <2> QED
    BY <1>4, <1>5, <2>1 DEF DistinctLabels
<1> HIDE DEF Before
<1> QED
  BY <1>4, <1>5, <1>8 DEF T, L

\* A branch of the listing goes to a label that is there once, further down.
Resolved(ls, i) ==
    /\ Len(ls[i].args) = 1
    /\ \E m \in i + 1 .. Len(ls) : {k \in DOMAIN ls : ls[k].label = ls[i].args[1]} = {m}

LEMMA BranchResolved ==
  ASSUME NEW codes, NEW ls, ListingOf(Names, codes, ls), DistinctLabels,
         NEW i \in 1 .. Len(ls), ls[i].mn[1] \in {"BRZ", "JMP"}
  PROVE  Resolved(ls, i)
<1>1. PICK p : Listed(ls, codes, Names, p)
  BY DEF ListingOf
<1>2. PICK k \in 1 .. Len(Names) : \E n \in 1 .. Len(codes[k]) : i = p[k - 1] + n
  BY <1>1 DEF Listed
<1>3. PICK n \in 1 .. Len(codes[k]) : i = p[k - 1] + n
  BY <1>2
<1>4. ls[i] = Line(Names, codes, k, n)
  BY <1>1, <1>3 DEF Listed
<1>5. BranchesOver(codes[k][n])
  <2>1. ls[i].mn = codes[k][n].mn
    BY <1>4, LineIs DEF IsLineOf
  <2>2. FallsThrough(codes[k][n]) \/ BranchesOver(codes[k][n])
    BY DEF ListingOf, Within
  <2> QED
    BY <2>1, <2>2 DEF FallsThrough
<1>6. GoesDown(ls[i].args, codes, k, n)
  BY <1>4, <1>5, TargetOfBranch
<1>7. PICK t \in n + 1 .. Len(codes[k]) :
         <<k, t>> \in Targets(codes) /\ ls[i].args = <<LabelOf(codes, <<k, t>>)>>
  BY <1>6 DEF GoesDown
<1>8. Len(ls[i].args) = 1 /\ ls[i].args[1] = LabelOf(codes, <<k, t>>)
  BY <1>7
<1> DEFINE x == LabelOf(codes, <<k, t>>)
           m == p[k - 1] + t
<1>9. PICK a \in Nat, c \in Nat, N \in Nat : a = p[k - 1] /\ c = Len(codes[k]) /\ N = Len(Names)
  <2>1. PICK N \in Nat : N = Len(Names)
    BY DEF ListingOf, IsSeq
  <2>2. k - 1 \in 0 .. N
    BY <2>1
  <2> QED
    BY <1>1, <2>1, <2>2 DEF Listed
<1>10. t \in 1 .. c /\ t # 1 /\ n + 1 <= t /\ n \in Nat
  BY <1>7, <1>9
<1>11. m \in 1 .. Len(ls) /\ ls[m] = Line(Names, codes, k, t)
  BY <1>1, <1>9, <1>10 DEF Listed
<1>12. m \in i + 1 .. Len(ls)
  <2>1. PICK l \in Nat : l = Len(ls)
    BY <1>1 DEF Listed, IsSeq
  <2>2. a + t \in 1 .. l /\ i = a + n
    BY <1>3, <1>9, <1>11, <2>1
  <2>3. a + t \in i + 1 .. l
    <3>1. PICK o \in Nat, u \in Nat : o = n /\ u = t
      BY <1>10
    <3>2. a + u \in 1 .. l /\ i = a + o /\ o + 1 <= u
      BY <1>10, <2>2, <3>1
    <3>3. a + u \in i + 1 .. l
      BY <3>2
    <3> QED
      BY <3>1, <3>3
  <2> QED
    BY <1>9, <2>1, <2>3
<1> HIDE DEF m, x
<1>13. ls[m].label = x
  <2>1. ls[m].label = LabelAt(Names, codes, k, t)
    BY <1>11, LineIs
  <2> QED
    BY <1>7, <1>10, <2>1 DEF LabelAt, x
\* The same label elsewhere would be that of another target.
<1>14. ASSUME NEW j \in 1 .. Len(ls), ls[j].label = x PROVE j = m
  <2>1. PICK l \in 1 .. Len(Names) : \E o \in 1 .. Len(codes[l]) : j = p[l - 1] + o
    BY <1>1 DEF Listed
  <2>2. PICK o \in 1 .. Len(codes[l]) : j = p[l - 1] + o
    BY <2>1
  <2>3. ls[j] = Line(Names, codes, l, o)
    BY <1>1, <2>2 DEF Listed
  <2>4. LabelAt(Names, codes, l, o) = x
    BY <1>14, <2>3, LineIs
  <2>5. PICK num \in Nat : x = CreateLabel(num)
    BY <1>7, LabelsDiffer DEF x
  <2>6. Names[l] \in ToSet(Names)
    BY SeqFacts DEF ListingOf, ToSet
  <2>7. x # "" /\ x # Names[l]
    BY <2>5, <2>6 DEF DistinctLabels
  <2>8. <<l, o>> \in Targets(codes) /\ LabelOf(codes, <<l, o>>) = x
    BY <2>4, <2>7 DEF LabelAt
  <2>9. <<l, o>> = <<k, t>>
    BY <1>7, <2>8, LabelsDiffer DEF x
  <2> QED
    BY <2>2, <2>9 DEF m
<1>15. DOMAIN ls = 1 .. Len(ls)
  BY <1>1, SeqFacts DEF Listed
<1>16. {j \in DOMAIN ls : ls[j].label = ls[i].args[1]} = {m}
  BY <1>8, <1>11, <1>13, <1>14, <1>15 DEF x
<1> QED
  BY <1>8, <1>12, <1>16 DEF Resolved

\* In the listing of a program without messages every branch goes to a label that
\* is there once, further down: the labels CreateLabel counts up are given to the
\* targets in one order (DistinctLabels says that no function has such a name), and
\* no branch of stmt_branch goes out of the body it is in.
THEOREM ListingJumpsResolved ==
  ASSUME DistinctLabels
  PROVE  Spec /\ []ExpressionsFallThrough => []JumpsResolved
<1>1. IInv /\ ExpressionsFallThrough => JumpsResolved
  <2> SUFFICES ASSUME IInv, ExpressionsFallThrough, Accepted, NEW n \in DOMAIN list,
                      list[n].mn[1] \in {"BRZ", "JMP"}
               PROVE  Resolved(list, n)
    BY DEF JumpsResolved, Resolved
  <2> DEFINE codes == CodesOf(TranslateFunctions(funcs), Names)
  <2>1. ListingOf(Names, codes, list)
    BY AcceptedListing
  <2> HIDE DEF codes
  <2>2. n \in 1 .. Len(list)
    BY <2>1, SeqFacts DEF ListingOf, Listed
  <2> QED
    BY <2>1, <2>2, BranchResolved
<1> QED
  BY <1>1, InvariantHolds, PTL
=============================================================================
