--------------------------- MODULE Scheduler_proofs ---------------------------
(***************************************************************************)
(* The scheduler hands out the whole of a launch, whatever the partition   *)
(* asked for, the dimension it ends up in, the devices it has shifted and  *)
(* by how much, and aborts for the one reason there is.                    *)
(*                                                                         *)
(* First the ranges of work items: the parts of a launch cut in one        *)
(* dimension follow each other from its first work item to its last, and   *)
(* still cover it when some are widened.  Then what is kept of a kernel    *)
(* (Shape) and the phases it goes through while it is launched: asked for, *)
(* cut, analysed, shifted, and handed out.  The inductive invariant says   *)
(* in which phase the kernel of the launch is, for each value of pc.       *)
(* Last what is handed out with the ranges: the data of a sub-kernel hold  *)
(* what its work items read, an invariant (CoverInv) of the regions found, *)
(* recorded while devices are shifted and kept from launch to launch.      *)
(***************************************************************************)
EXTENDS Scheduler, Granularity_proofs

-----------------------------------------------------------------------------
(* Ranges of work items.                                                   *)

\* The dimensions of a launch, and what it is in each of them.
LEMMA LaunchIs ==
    ASSUME NEW nd, Launchable(nd)
    PROVE  /\ DOMAIN nd = {"work_dim", "orig", "size", "offset", "ls"}
           /\ nd.work_dim \in 1 .. 3
           /\ DOMAIN nd.size = 0 .. nd.work_dim - 1 /\ DOMAIN nd.offset = 0 .. nd.work_dim - 1
           /\ \A d \in 0 .. nd.work_dim - 1 :
                /\ nd.size[d] \in Nat \ {0} /\ nd.offset[d] \in Nat /\ nd.ls[d] \in Nat \ {0}
                /\ nd.size[d] % nd.ls[d] = 0
                /\ NumGroups(nd, d) \in Nat \ {0} /\ NumGroups(nd, d) * nd.ls[d] = nd.size[d]
<1>1. PICK n \in 1 .. 3 : nd \in NDRanges(n)
    BY DEF Launchable
<1>2. /\ DOMAIN nd = {"work_dim", "orig", "size", "offset", "ls"} /\ nd.work_dim = n
      /\ nd.size \in [0 .. n - 1 -> Nat] /\ nd.offset \in [0 .. n - 1 -> Nat]
      /\ nd.ls \in [0 .. n - 1 -> Nat \ {0}]
    BY <1>1 DEF NDRanges
<1>3. ASSUME NEW d \in 0 .. n - 1
      PROVE  /\ nd.size[d] \in Nat \ {0} /\ nd.offset[d] \in Nat /\ nd.ls[d] \in Nat \ {0}
             /\ nd.size[d] % nd.ls[d] = 0
             /\ NumGroups(nd, d) \in Nat \ {0} /\ NumGroups(nd, d) * nd.ls[d] = nd.size[d]
    <2>1. /\ nd.size[d] \in Nat /\ nd.offset[d] \in Nat /\ nd.ls[d] \in Nat \ {0}
          /\ nd.size[d] > 0 /\ nd.size[d] % nd.ls[d] = 0
        BY <1>2 DEF Launchable
    <2> DEFINE s == nd.size[d]
               l == nd.ls[d]
               q == s \div l
    <2>2. s \in Nat /\ l \in Nat /\ l > 0 /\ s > 0 /\ s % l = 0
        BY <2>1
    <2>3. q = NumGroups(nd, d)
        BY DEF NumGroups
    <2> HIDE DEF s, l
    <2>4. q \in Int /\ q * l = s /\ q >= 0
        BY <2>2
    <2>5. q # 0
        BY <2>2, <2>4
    <2>6. QED BY <2>1, <2>3, <2>4, <2>5 DEF s, l
<1>4. QED BY <1>2, <1>3

\* A range of n dimensions.
Range3(nd, n) == nd.size \in [0 .. n - 1 -> Nat] /\ nd.offset \in [0 .. n - 1 -> Nat]

LEMMA MaxOfThree ==
    ASSUME NEW S, NEW a \in Int, NEW b \in Int, NEW c \in Int, S = {a, b, c}
    PROVE  Max(S) \in S /\ \A x \in S : Max(S) >= x
<1>1. \E x \in S : \A y \in S : x >= y
    <2>1. CASE a >= b /\ a >= c
        BY <2>1
    <2>2. CASE b >= a /\ b >= c
        BY <2>2
    <2>3. CASE c >= a /\ c >= b
        BY <2>3
    <2>4. QED BY <2>1, <2>2, <2>3
<1>2. QED BY <1>1 DEF Max

\* The work items of a range are those between its ends in each dimension.
LEMMA Items ==
    ASSUME NEW nd, NEW n \in 1 .. 3, Range3(nd, n), NEW wi
    PROVE  wi \in WorkItems(nd) <=>
             /\ wi \in [0 .. n - 1 -> Nat]
             /\ \A d \in 0 .. n - 1 : nd.offset[d] <= wi[d] /\ wi[d] <= LastId(nd, d)
<1> DEFINE D == 0 .. n - 1
           Lasts == {LastId(nd, d) : d \in D}
<1>1. DOMAIN nd.size = D
    BY DEF Range3
<1>2. \A d \in D : nd.offset[d] \in Nat /\ nd.size[d] \in Nat /\ LastId(nd, d) \in Int
    BY DEF Range3, LastId
<1>3. \E a, b, c \in Int : Lasts = {a, b, c}
    <2>1. CASE n = 1
        <3>1. D = {0}
            BY <2>1
        <3>2. Lasts = {LastId(nd, 0), LastId(nd, 0), LastId(nd, 0)} /\ LastId(nd, 0) \in Int
            BY <1>2, <3>1
        <3>3. QED BY <3>2
    <2>2. CASE n = 2
        <3>1. D = {0, 1}
            BY <2>2
        <3>2. Lasts = {LastId(nd, 0), LastId(nd, 1), LastId(nd, 1)}
              /\ LastId(nd, 0) \in Int /\ LastId(nd, 1) \in Int
            BY <1>2, <3>1
        <3>3. QED BY <3>2
    <2>3. CASE n = 3
        <3>1. D = {0, 1, 2}
            BY <2>3
        <3>2. Lasts = {LastId(nd, 0), LastId(nd, 1), LastId(nd, 2)}
              /\ LastId(nd, 0) \in Int /\ LastId(nd, 1) \in Int /\ LastId(nd, 2) \in Int
            BY <1>2, <3>1
        <3>3. QED BY <3>2
    <2>4. n = 1 \/ n = 2 \/ n = 3
        OBVIOUS
    <2> HIDE DEF Lasts
    <2>5. QED BY <2>1, <2>2, <2>3, <2>4
<1>4. Max(Lasts) \in Lasts /\ \A x \in Lasts : Max(Lasts) >= x
    <2> HIDE DEF Lasts
    <2>1. QED BY <1>3, MaxOfThree
<1>5. Max(Lasts) \in Int
    BY <1>2, <1>4
<1>6. WorkItems(nd) = {w \in [D -> 0 .. Max(Lasts)] :
                         \A d \in D : w[d] \in nd.offset[d] .. LastId(nd, d)}
    BY <1>1 DEF WorkItems
<1> DEFINE M == Max(Lasts)
<1>7. \A d \in D : LastId(nd, d) <= M
    BY <1>4
<1> HIDE DEF M
<1>8. ASSUME wi \in WorkItems(nd)
      PROVE  wi \in [D -> Nat] /\ \A d \in D : nd.offset[d] <= wi[d] /\ wi[d] <= LastId(nd, d)
    <2>1. wi \in [D -> 0 .. M] /\ \A d \in D : wi[d] \in nd.offset[d] .. LastId(nd, d)
        BY <1>6, <1>8 DEF M
    <2>2. \A d \in D : wi[d] \in Nat
        BY <2>1
    <2> HIDE DEF D
    <2>3. QED BY <1>2, <2>1, <2>2
<1>9. ASSUME wi \in [D -> Nat], \A d \in D : nd.offset[d] <= wi[d] /\ wi[d] <= LastId(nd, d)
      PROVE  wi \in WorkItems(nd)
    <2>1. M \in Int
        BY <1>5 DEF M
    <2>2. \A d \in D : wi[d] \in 0 .. M /\ wi[d] \in nd.offset[d] .. LastId(nd, d)
        <3> SUFFICES ASSUME NEW d \in D
                     PROVE  wi[d] \in 0 .. M /\ wi[d] \in nd.offset[d] .. LastId(nd, d)
            OBVIOUS
        <3>1. wi[d] \in Nat /\ nd.offset[d] <= wi[d] /\ wi[d] <= LastId(nd, d)
            BY <1>9
        <3>2. QED BY <1>2, <1>7, <2>1, <3>1
    <2> HIDE DEF D
    <2>3. QED BY <1>6, <1>9, <2>2 DEF M
<1>10. QED BY <1>8, <1>9

\* The number of a work item at which a work group begins.
BeginsGroup(nd, d, o) == \E q \in Nat : o = nd.offset[d] + q * nd.ls[d]

\* parts is the launch nd cut in dimension d between work groups, from its first work
\* item to its last.
Divided(nd, d, parts) ==
    /\ Len(parts) \in Nat \ {0} /\ DOMAIN parts = 1 .. Len(parts)
    /\ \A i \in 1 .. Len(parts) :
         /\ parts[i].offset[d] \in Nat /\ parts[i].size[d] \in Nat \ {0}
         /\ BeginsGroup(nd, d, parts[i].offset[d])
         /\ parts[i] = Part(nd, d, parts[i].offset[d], parts[i].size[d])
         /\ parts[i].offset[d] = IF i = 1 THEN nd.offset[d] ELSE LastId(parts[i - 1], d) + 1
    /\ LastId(parts[Len(parts)], d) = LastId(nd, d)

\* sub is part, or part widened within nd, by whole work groups at its beginning.
Widens(nd, d, part, sub) ==
    /\ BeginsGroup(nd, d, sub.offset[d])
    /\ sub = [Part(nd, d, sub.offset[d], sub.size[d]) EXCEPT !.orig = sub.orig]
    /\ sub.offset[d] \in nd.offset[d] .. part.offset[d]
    /\ sub.size[d] \in Nat /\ LastId(sub, d) \in LastId(part, d) .. LastId(nd, d)

Covers(nd, d, required, subs) ==
    DOMAIN subs = DOMAIN required /\ \A i \in DOMAIN subs : Widens(nd, d, required[i], subs[i])

\* The ends of the parts, from the offset of the launch.
EndsAt(nd, d, parts, C) ==
    /\ Cuts(C, Len(parts), nd.size[d])
    /\ \A i \in 1 .. Len(parts) : /\ parts[i].offset[d] = nd.offset[d] + C[i - 1]
                                  /\ LastId(parts[i], d) = nd.offset[d] + C[i] - 1

LEMMA DividedCuts ==
    ASSUME NEW nd, Launchable(nd), NEW d \in DOMAIN nd.size, NEW parts, Divided(nd, d, parts)
    PROVE  \E C : EndsAt(nd, d, parts, C)
<1> DEFINE m == Len(parts)
           o == nd.offset[d]
           C == [i \in 0 .. m |-> IF i = 0 THEN 0 ELSE LastId(parts[i], d) + 1 - o]
<1>1. o \in Nat /\ nd.size[d] \in Nat \ {0} /\ LastId(nd, d) = o + nd.size[d] - 1
    BY LaunchIs DEF LastId
<1>2. m \in Nat \ {0} /\ LastId(parts[m], d) = LastId(nd, d)
    BY DEF Divided
<1>3. ASSUME NEW i \in 1 .. m
      PROVE  /\ parts[i].offset[d] \in Nat /\ parts[i].size[d] \in Nat \ {0}
             /\ LastId(parts[i], d) = parts[i].offset[d] + parts[i].size[d] - 1
             /\ parts[i].offset[d] = IF i = 1 THEN o ELSE LastId(parts[i - 1], d) + 1
    BY DEF Divided, LastId
<1> HIDE DEF m, o
<1>4. C[0] = 0 /\ C[m] = nd.size[d]
    BY <1>1, <1>2
<1>5. ASSUME NEW i \in 1 .. m
      PROVE  /\ C[i] \in Int /\ C[i - 1] \in Int /\ C[i - 1] < C[i]
             /\ parts[i].offset[d] = o + C[i - 1] /\ LastId(parts[i], d) = o + C[i] - 1
    <2>1. C[i] = LastId(parts[i], d) + 1 - o
        BY <1>2
    <2>0. LastId(parts[i], d) \in Int /\ o \in Int
        BY <1>1, <1>3
    <2>2. C[i - 1] = parts[i].offset[d] - o
        <3>1. CASE i = 1
            BY <1>1, <1>2, <1>3, <3>1
        <3>2. CASE i # 1
            <4>1. i - 1 \in 1 .. m /\ parts[i].offset[d] = LastId(parts[i - 1], d) + 1
                BY <1>2, <1>3, <3>2
            <4>2. C[i - 1] = LastId(parts[i - 1], d) + 1 - o
                BY <1>2, <4>1
            <4>3. LastId(parts[i - 1], d) \in Int
                BY <1>3, <4>1
            <4> HIDE DEF C
            <4>4. QED BY <2>0, <4>1, <4>2, <4>3
        <3>3. QED BY <3>1, <3>2
    <2> HIDE DEF C
    <2>3. QED BY <1>1, <1>3, <2>0, <2>1, <2>2
<1>6. \A a \in 0 .. m : C[a] \in Int
    <2> HIDE DEF C
    <2>1. \A a \in 0 .. m : a = 0 \/ a \in 1 .. m
        BY <1>2
    <2>2. QED BY <1>4, <1>5, <2>1
<1> HIDE DEF C
<1>7. EndsAt(nd, d, parts, C)
    BY <1>4, <1>5, <1>6 DEF EndsAt, Cuts, m, o
<1>8. QED BY <1>7

LEMMA ItselfWidens ==
    ASSUME NEW nd, Launchable(nd), NEW d \in DOMAIN nd.size, NEW parts, Divided(nd, d, parts)
    PROVE  /\ Covers(nd, d, parts, parts)
           /\ \A i \in DOMAIN parts : /\ parts[i].offset[d] >= nd.offset[d]
                                      /\ LastId(parts[i], d) <= LastId(nd, d)
<1> DEFINE m == Len(parts)
           o == nd.offset[d]
<1>1. PICK C : EndsAt(nd, d, parts, C)
    BY DividedCuts
<1>2. o \in Nat /\ nd.size[d] \in Nat \ {0} /\ LastId(nd, d) = o + nd.size[d] - 1
    BY LaunchIs DEF LastId
<1>3. m \in Nat \ {0} /\ DOMAIN parts = 1 .. m
    BY DEF Divided
<1>4. ASSUME NEW i \in 1 .. m
      PROVE  /\ Widens(nd, d, parts[i], parts[i])
             /\ parts[i].offset[d] >= o /\ LastId(parts[i], d) <= LastId(nd, d)
    <2>1. /\ parts[i].offset[d] \in Nat /\ parts[i].size[d] \in Nat
          /\ parts[i] = Part(nd, d, parts[i].offset[d], parts[i].size[d])
          /\ BeginsGroup(nd, d, parts[i].offset[d])
        BY DEF Divided
    <2>2. parts[i].offset[d] = o + C[i - 1] /\ LastId(parts[i], d) = o + C[i] - 1
        BY <1>1 DEF EndsAt
    <2>3. /\ C[0] \in Int /\ C[i - 1] \in Int /\ C[i] \in Int /\ C[m] \in Int
          /\ C[0] <= C[i - 1] /\ C[i] <= C[m] /\ C[0] = 0 /\ C[m] = nd.size[d]
        <3>1. Cuts(C, m, nd.size[d]) /\ m \in Nat
            BY <1>1, <1>3 DEF EndsAt
        <3> HIDE DEF m
        <3>2. 0 \in 0 .. m /\ i - 1 \in 0 .. m /\ i \in 0 .. m /\ m \in i .. m
            BY <1>3
        <3>3. C[0] <= C[i - 1] /\ C[i] <= C[m]
            BY <3>1, <3>2, Increasing
        <3>4. QED BY <3>1, <3>2, <3>3 DEF Cuts
    <2> HIDE DEF m, o
    <2>4. parts[i].offset[d] >= o /\ LastId(parts[i], d) <= LastId(nd, d)
        BY <1>2, <2>2, <2>3
    <2>5. LastId(parts[i], d) \in Int
        BY <1>2, <2>2, <2>3
    <2>6. parts[i].offset[d] \in o .. parts[i].offset[d]
          /\ LastId(parts[i], d) \in LastId(parts[i], d) .. LastId(nd, d)
        BY <1>2, <2>1, <2>4, <2>5
    <2>7. parts[i] = [Part(nd, d, parts[i].offset[d], parts[i].size[d]) EXCEPT !.orig = parts[i].orig]
        <3> DEFINE p == Part(nd, d, parts[i].offset[d], parts[i].size[d])
        <3>1. DOMAIN p = {"work_dim", "orig", "size", "offset", "ls"}
            BY LaunchIs DEF Part
        <3>2. p = [p EXCEPT !.orig = p.orig]
            BY <3>1 DEF Part
        <3>3. QED BY <2>1, <3>2 DEF p
    <2>8. QED BY <2>1, <2>4, <2>6, <2>7 DEF Widens, o
<1>5. QED BY <1>3, <1>4 DEF Covers

\* A widened part runs the work items between its ends.
LEMMA WidenedItems ==
    ASSUME NEW nd, Launchable(nd), NEW d \in DOMAIN nd.size, NEW part, NEW sub,
           Widens(nd, d, part, sub), part.offset[d] \in Nat, LastId(part, d) \in Int, NEW wi
    PROVE  wi \in WorkItems(sub) <=>
             wi \in WorkItems(nd) /\ sub.offset[d] <= wi[d] /\ wi[d] <= LastId(sub, d)
<1> DEFINE n == nd.work_dim
           o == sub.offset[d]
           s == sub.size[d]
<1>1. n \in 1 .. 3 /\ DOMAIN nd.size = 0 .. n - 1 /\ DOMAIN nd.offset = 0 .. n - 1
      /\ \A e \in 0 .. n - 1 : nd.offset[e] \in Nat /\ nd.size[e] \in Nat
    BY LaunchIs
<1>2. /\ sub.offset = [nd.offset EXCEPT ![d] = o] /\ sub.size = [nd.size EXCEPT ![d] = s]
    <2>1. sub = [Part(nd, d, o, s) EXCEPT !.orig = sub.orig]
        BY DEF Widens
    <2>2. DOMAIN nd = {"work_dim", "orig", "size", "offset", "ls"}
        BY LaunchIs
    <2> HIDE DEF o, s
    <2>3. QED BY <2>1, <2>2 DEF Part
<1>3. o \in Nat /\ s \in Nat /\ nd.offset[d] <= o /\ LastId(sub, d) <= LastId(nd, d)
      /\ LastId(sub, d) = o + s - 1 /\ LastId(nd, d) = nd.offset[d] + nd.size[d] - 1
    <2>1. o \in nd.offset[d] .. part.offset[d] /\ s \in Nat
          /\ LastId(sub, d) \in LastId(part, d) .. LastId(nd, d)
        BY DEF Widens
    <2> HIDE DEF o, s
    <2>2. QED BY SMTT(30), <1>1, <2>1 DEF LastId, o, s
<1> HIDE DEF n, o, s
<1>4. Range3(nd, n) /\ Range3(sub, n)
    <2>1. nd.size \in [0 .. n - 1 -> Nat] /\ nd.offset \in [0 .. n - 1 -> Nat]
        <3>1. /\ nd.size = [e \in DOMAIN nd.size |-> nd.size[e]]
              /\ nd.offset = [e \in DOMAIN nd.offset |-> nd.offset[e]]
            <4>1. PICK m \in 1 .. 3 : nd \in NDRanges(m)
                BY DEF Launchable
            <4>2. nd.size \in [0 .. m - 1 -> Nat] /\ nd.offset \in [0 .. m - 1 -> Nat]
                BY <4>1 DEF NDRanges
            <4>3. QED BY <4>2
        <3>2. QED BY <1>1, <3>1
    <2>2. sub.size \in [0 .. n - 1 -> Nat] /\ sub.offset \in [0 .. n - 1 -> Nat]
        BY ZenonT(60), <1>2, <1>3, <2>1
    <2>3. QED BY <2>1, <2>2 DEF Range3
<1>5. /\ sub.offset[d] = o /\ d \in 0 .. n - 1
      /\ \A e \in 0 .. n - 1 : e # d => /\ sub.offset[e] = nd.offset[e]
                                        /\ LastId(sub, e) = LastId(nd, e)
    BY <1>1, <1>2 DEF LastId, o
<1> DEFINE In(r) == /\ wi \in [0 .. n - 1 -> Nat]
                    /\ \A e \in 0 .. n - 1 : r.offset[e] <= wi[e] /\ wi[e] <= LastId(r, e)
<1>6. (wi \in WorkItems(sub) <=> In(sub)) /\ (wi \in WorkItems(nd) <=> In(nd))
    BY <1>1, <1>4, Items
<1>7. ASSUME wi \in [0 .. n - 1 -> Nat], o <= wi[d], wi[d] <= LastId(sub, d)
      PROVE  nd.offset[d] <= wi[d] /\ wi[d] <= LastId(nd, d)
    <2>1. wi[d] \in Nat /\ nd.offset[d] \in Nat /\ nd.size[d] \in Nat
        BY <1>1, <1>5, <1>7
    <2>2. QED BY SMTT(30), <1>3, <1>7, <2>1
<1>8. In(sub) <=> In(nd) /\ o <= wi[d] /\ wi[d] <= LastId(sub, d)
    BY <1>5, <1>7
<1>9. QED BY <1>6, <1>8 DEF o

\* Sub-ranges that cover the parts of a launch run its work items, and one of
\* them is widened where two of them run the same.
LEMMA CoversAll ==
    ASSUME NEW nd, Launchable(nd), NEW d \in DOMAIN nd.size, NEW parts, Divided(nd, d, parts),
           NEW subs, Covers(nd, d, parts, subs)
    PROVE  /\ WorkItems(nd) = UNION {WorkItems(subs[i]) : i \in DOMAIN subs}
           /\ \A i, j \in DOMAIN subs :
                i # j /\ WorkItems(subs[i]) \cap WorkItems(subs[j]) # {} =>
                  \E k \in DOMAIN subs : subs[k] # parts[k]
<1> DEFINE m == Len(parts)
           o == nd.offset[d]
<1>1. PICK C : EndsAt(nd, d, parts, C)
    BY DividedCuts
<1>2. o \in Nat /\ nd.size[d] \in Nat \ {0} /\ LastId(nd, d) = o + nd.size[d] - 1
    BY LaunchIs DEF LastId
<1>3. m \in Nat \ {0} /\ DOMAIN parts = 1 .. m /\ DOMAIN subs = 1 .. m
    BY DEF Divided, Covers
<1>4. ASSUME NEW i \in 1 .. m
      PROVE  /\ parts[i].offset[d] = o + C[i - 1] /\ LastId(parts[i], d) = o + C[i] - 1
             /\ C[i - 1] \in Int /\ C[i] \in Int /\ parts[i].offset[d] \in Nat
             /\ LastId(parts[i], d) \in Int
    <2>1. parts[i].offset[d] = o + C[i - 1] /\ LastId(parts[i], d) = o + C[i] - 1
        BY <1>1 DEF EndsAt
    <2>2. C[i - 1] \in Int /\ C[i] \in Int
        <3>1. Cuts(C, m, nd.size[d])
            BY <1>1 DEF EndsAt
        <3> HIDE DEF m
        <3>2. i - 1 \in 0 .. m /\ i \in 0 .. m
            BY <1>3
        <3>3. QED BY <3>1, <3>2 DEF Cuts
    <2>3. parts[i].offset[d] \in Nat
        BY DEF Divided
    <2>4. QED BY <1>2, <2>1, <2>2, <2>3
<1>5. ASSUME NEW i \in 1 .. m
      PROVE  /\ Widens(nd, d, parts[i], subs[i])
             /\ subs[i].offset[d] <= parts[i].offset[d] /\ LastId(parts[i], d) <= LastId(subs[i], d)
             /\ \A wi : wi \in WorkItems(subs[i]) <=>
                           /\ wi \in WorkItems(nd)
                           /\ subs[i].offset[d] <= wi[d] /\ wi[d] <= LastId(subs[i], d)
    <2>1. Widens(nd, d, parts[i], subs[i])
        BY <1>3 DEF Covers
    <2>2. subs[i].offset[d] \in o .. parts[i].offset[d]
          /\ LastId(subs[i], d) \in LastId(parts[i], d) .. LastId(nd, d)
        BY <2>1 DEF Widens
    <2> HIDE DEF m, o
    <2>3. subs[i].offset[d] <= parts[i].offset[d] /\ LastId(parts[i], d) <= LastId(subs[i], d)
        BY <1>2, <1>4, <2>2
    <2>4. QED BY <1>4, <2>1, <2>3, WidenedItems
<1>6. ASSUME NEW wi \in WorkItems(nd)
      PROVE  \E i \in 1 .. m : /\ wi \in WorkItems(subs[i])
                              /\ \A j \in 1 .. m : wi \in WorkItems(parts[j]) => j = i
    <2> DEFINE g == wi[d] - o
    <2>1. wi[d] \in Nat /\ o <= wi[d] /\ wi[d] <= LastId(nd, d)
        <3>1. d \in 1 - 1 .. nd.work_dim - 1 /\ nd.work_dim \in 1 .. 3
            BY LaunchIs
        <3>2. Range3(nd, nd.work_dim)
            <4>1. PICK n \in 1 .. 3 : nd \in NDRanges(n)
                BY DEF Launchable
            <4>2. nd.size \in [0 .. n - 1 -> Nat] /\ nd.offset \in [0 .. n - 1 -> Nat]
                  /\ nd.work_dim = n
                BY <4>1 DEF NDRanges
            <4>3. QED BY <4>2 DEF Range3
        <3>3. QED BY <3>1, <3>2, Items
    <2>2. g \in 0 .. nd.size[d] - 1
        <3> HIDE DEF o
        <3>1. QED BY <1>2, <2>1
    <2>3. PICK i : OnlyIn(C, m, g, i)
        <3>1. Cuts(C, m, nd.size[d]) /\ m \in Nat /\ nd.size[d] \in Nat
            BY <1>1, <1>2, <1>3 DEF EndsAt
        <3> HIDE DEF g, m
        <3>2. QED BY <2>2, <3>1, InOnePart
    <2>4. i \in 1 .. m /\ IsIn(C, g, i) /\ \A j \in 1 .. m : IsIn(C, g, j) => j = i
        BY <2>3 DEF OnlyIn
    <2> HIDE DEF m
    <2>5. \A j \in 1 .. m : IsIn(C, g, j) <=> /\ parts[j].offset[d] <= wi[d]
                                               /\ wi[d] <= LastId(parts[j], d)
        <3> HIDE DEF o
        <3>1. QED BY <1>2, <1>4, <2>1 DEF IsIn
    <2>6. wi \in WorkItems(subs[i])
        <3>1. parts[i].offset[d] <= wi[d] /\ wi[d] <= LastId(parts[i], d)
            BY <2>4, <2>5
        <3>2. subs[i].offset[d] \in Int /\ LastId(subs[i], d) \in Int
            <4>1. Widens(nd, d, parts[i], subs[i])
                BY <1>5, <2>4
            <4>2. subs[i].offset[d] \in o .. parts[i].offset[d] /\ subs[i].size[d] \in Nat
                BY <4>1 DEF Widens
            <4> HIDE DEF o
            <4>3. subs[i].offset[d] \in Int
                BY <1>2, <1>4, <2>4, <4>2
            <4>4. QED BY <4>2, <4>3 DEF LastId
        <3>3. subs[i].offset[d] <= wi[d] /\ wi[d] <= LastId(subs[i], d)
            BY <1>4, <1>5, <2>1, <2>4, <3>1, <3>2
        <3>4. QED BY <1>5, <2>4, <3>3
    <2>7. ASSUME NEW j \in 1 .. m, wi \in WorkItems(parts[j]) PROVE j = i
        <3>1. Widens(nd, d, parts[j], parts[j])
            BY <1>3, ItselfWidens DEF Covers
        <3>2. parts[j].offset[d] <= wi[d] /\ wi[d] <= LastId(parts[j], d)
            BY <1>4, <2>7, <3>1, WidenedItems
        <3>3. QED BY <2>4, <2>5, <3>2
    <2>8. QED BY <2>4, <2>6, <2>7
<1>7. WorkItems(nd) = UNION {WorkItems(subs[i]) : i \in DOMAIN subs}
    <2> HIDE DEF m
    <2>1. QED BY <1>3, <1>5, <1>6
<1>8. ASSUME NEW i \in 1 .. m, NEW j \in 1 .. m, i # j,
             NEW wi, wi \in WorkItems(subs[i]), wi \in WorkItems(subs[j]),
             \A k \in 1 .. m : subs[k] = parts[k]
      PROVE  FALSE
    <2>1. wi \in WorkItems(nd)
        BY <1>5, <1>8
    <2>2. wi \in WorkItems(parts[i]) /\ wi \in WorkItems(parts[j])
        BY <1>8
    <2> HIDE DEF m
    <2>3. QED BY <1>6, <1>8, <2>1, <2>2
<1>9. QED
    <2> HIDE DEF m
    <2>1. QED BY <1>3, <1>7, <1>8

-----------------------------------------------------------------------------
(* What splitDim and getShiftedPartition return.                           *)

\* A partition cuts a launch into as many parts as it has pieces.
LEMMA SplitDivides ==
    ASSUME NEW nd, Launchable(nd), NEW d \in DOMAIN nd.size,
           NEW w, w = NumGroups(nd, d), Unit % w = 0, NEW real, Parts(real, w),
           NEW parts, parts = splitDim(nd, d, Shares(real))
    PROVE  Divided(nd, d, parts) /\ Len(parts) = Len(real)
<1> DEFINE m == Len(real)
           o == nd.offset[d]
           l == nd.ls[d]
<1>1. /\ o \in Nat /\ l \in Nat \ {0} /\ nd.size[d] \in Nat \ {0}
      /\ w \in Nat \ {0} /\ w * l = nd.size[d]
    BY LaunchIs
<1>2. DOMAIN parts = 1 .. m /\ m \in Nat /\ m > 0
    <2>1. m \in Nat /\ m > 0
        BY DEF Parts
    <2>2. DOMAIN parts = 1 .. m
        BY <1>1, PartsAreCuts
    <2>3. QED BY <2>1, <2>2
<1>3. PICK C : Cuts(C, m, w) /\ \A i \in 1 .. m : parts[i] = Between(nd, d, C[i - 1], C[i])
    BY <1>1, PartsAreCuts
<1>4. Len(parts) = m
    BY <1>2
<1> DEFINE E(a) == C[a] * l
<1>5. ASSUME NEW i \in 1 .. m
      PROVE  /\ E(i - 1) \in Nat /\ E(i) - E(i - 1) \in Nat \ {0} /\ E(i) \in Int
             /\ parts[i] = Part(nd, d, o + E(i - 1), E(i) - E(i - 1))
             /\ BeginsGroup(nd, d, o + E(i - 1))
    <2> HIDE DEF m
    <2>1. i - 1 \in 0 .. m /\ i \in 0 .. m /\ 0 \in 0 .. m
        BY <1>2
    <2>2. /\ C[i - 1] \in Int /\ C[i] \in Int /\ C[i - 1] < C[i] /\ C[0] = 0
        BY <1>3, <2>1 DEF Cuts
    <2>3. C[0] <= C[i - 1]
        BY <1>1, <1>2, <1>3, <2>1, Increasing
    <2> DEFINE b == C[i - 1]
               e == C[i]
    <2>4. b \in Nat /\ e \in Int /\ e - b \in Nat \ {0} /\ parts[i] = Between(nd, d, b, e)
        BY <1>3, <2>2, <2>3
    <2> HIDE DEF b, e, l
    <2>5. b * l \in Nat /\ e * l \in Int /\ (e - b) * l \in Nat \ {0}
        BY <1>1, <2>4
    <2>6. (e - b) * l = e * l - b * l
        <3>1. l * ((e - b) + b) = l * (e - b) + l * b
            BY <1>1, <2>4, Distributes
        <3>2. (e - b) + b = e
            BY <2>4
        <3>3. l * e = e * l /\ l * b = b * l /\ l * (e - b) = (e - b) * l
            BY <1>1, <2>4
        <3>4. QED BY <2>5, <3>1, <3>2, <3>3
    <2>7. parts[i] = Part(nd, d, o + b * l, (e - b) * l)
        BY <2>4 DEF Between, l
    <2>8. BeginsGroup(nd, d, o + b * l)
        BY <2>4 DEF BeginsGroup, l
    <2>9. QED BY <2>5, <2>6, <2>7, <2>8 DEF b, e
<1>6. E(0) = 0 /\ E(m) = nd.size[d]
    BY <1>1, <1>2, <1>3 DEF Cuts
<1> HIDE DEF m, o, E
<1>7. ASSUME NEW i \in 1 .. m
      PROVE  /\ parts[i].offset[d] = o + E(i - 1) /\ parts[i].size[d] = E(i) - E(i - 1)
             /\ LastId(parts[i], d) = o + E(i) - 1
    <2>0. d \in DOMAIN nd.offset /\ DOMAIN nd = {"work_dim", "orig", "size", "offset", "ls"}
        BY LaunchIs
    <2>1. parts[i].offset[d] = o + E(i - 1) /\ parts[i].size[d] = E(i) - E(i - 1)
        <3> DEFINE a == o + E(i - 1)
                   z == E(i) - E(i - 1)
        <3>1. parts[i] = Part(nd, d, a, z)
            BY <1>5
        <3> HIDE DEF a, z
        <3>2. parts[i].offset[d] = a /\ parts[i].size[d] = z
            BY <2>0, <3>1 DEF Part
        <3>3. QED BY <3>2 DEF a, z
    <2>2. E(i) \in Int /\ E(i - 1) \in Int
        BY <1>5
    <2>3. QED BY <1>1, <2>1, <2>2 DEF LastId
<1>8. ASSUME NEW i \in 1 .. m
      PROVE  /\ parts[i].offset[d] \in Nat /\ parts[i].size[d] \in Nat \ {0}
             /\ BeginsGroup(nd, d, parts[i].offset[d])
             /\ parts[i] = Part(nd, d, parts[i].offset[d], parts[i].size[d])
             /\ parts[i].offset[d] = IF i = 1 THEN o ELSE LastId(parts[i - 1], d) + 1
    <2>1. E(i - 1) \in Nat /\ E(i) - E(i - 1) \in Nat \ {0}
        BY <1>5
    <2>2. CASE i = 1
        BY <1>1, <1>5, <1>6, <1>7, <2>1, <2>2
    <2>3. CASE i # 1
        <3>1. i - 1 \in 1 .. m
            BY <1>2, <2>3
        <3>2. LastId(parts[i - 1], d) = o + E(i - 1) - 1
            BY <1>7, <3>1
        <3>3. QED BY <1>1, <1>5, <1>7, <2>1, <2>3, <3>2
    <2>4. QED BY <2>2, <2>3
<1>9. LastId(parts[m], d) = LastId(nd, d)
    BY <1>1, <1>2, <1>6, <1>7 DEF LastId, o
<1>10. QED BY <1>2, <1>4, <1>8, <1>9 DEF Divided, m, o

\* The piece of getShiftedPartition that stands for a sub-range widens it.
ShiftedIndex(nd, part, d, wgs) ==
    IF getShiftedPartition(nd, part, d, wgs)[1].offset[d] = Widened(nd, part, d, wgs).offset[d]
    THEN 1 ELSE 2

LEMMA ShiftedWidens ==
    ASSUME NEW nd, Launchable(nd), NEW d \in DOMAIN nd.size, NEW parts, Divided(nd, d, parts),
           NEW i \in DOMAIN parts, NEW wgs \in Nat,
           NEW mid, mid = ShiftedIndex(nd, parts[i], d, wgs)
    PROVE  /\ mid \in DOMAIN getShiftedPartition(nd, parts[i], d, wgs)
           /\ Widens(nd, d, parts[i], getShiftedPartition(nd, parts[i], d, wgs)[mid])
           /\ LET sub == getShiftedPartition(nd, parts[i], d, wgs)[mid] IN sub.orig = sub.size
<1> DEFINE part == parts[i]
           subs == getShiftedPartition(nd, part, d, wgs)
           W == Widened(nd, part, d, wgs)
           g == wgs * nd.ls[d]
           o == part.offset[d]
           h == LastId(part, d)
           lb == IF o - g < nd.offset[d] THEN nd.offset[d] ELSE o - g
           hb == IF h + g > LastId(nd, d) THEN LastId(nd, d) ELSE h + g
           Own(p) == [p EXCEPT !.orig = p.size]
           left == Part(nd, d, nd.offset[d], W.offset[d] - nd.offset[d])
           L == IF W.offset[d] > nd.offset[d] THEN <<Own(left)>> ELSE <<>>
           R == IF LastId(W, d) < LastId(nd, d)
                THEN <<Own(Part(nd, d, LastId(W, d) + 1, W.size[d] - 1))>> ELSE <<>>
<1>1. /\ nd.offset[d] \in Nat /\ g \in Nat /\ nd.size[d] \in Nat \ {0}
      /\ LastId(nd, d) \in Int /\ d \in DOMAIN nd.offset
      /\ DOMAIN nd = {"work_dim", "orig", "size", "offset", "ls"}
    <2>1. /\ d \in DOMAIN nd.offset /\ nd.offset[d] \in Nat /\ nd.size[d] \in Nat \ {0}
          /\ nd.ls[d] \in Nat /\ DOMAIN nd = {"work_dim", "orig", "size", "offset", "ls"}
        BY LaunchIs
    <2>2. g \in Nat
        BY <2>1
    <2>3. LastId(nd, d) \in Int
        BY <2>1 DEF LastId
    <2>4. QED BY <2>1, <2>2, <2>3
<1>2. /\ o \in Nat /\ part.size[d] \in Nat \ {0} /\ nd.offset[d] <= o
      /\ h \in Int /\ h <= LastId(nd, d) /\ o <= h
    <2>1. o \in Nat /\ part.size[d] \in Nat \ {0}
        BY DEF Divided
    <2>2. nd.offset[d] <= o /\ h <= LastId(nd, d)
        BY <1>1, <2>1, ItselfWidens
    <2>3. QED BY <2>1, <2>2 DEF LastId
<1>3. W = Part(nd, d, lb, hb - lb + 1)
    BY DEF Widened
<1>4. subs = L \o <<Own(W)>> \o R
    BY DEF getShiftedPartition
<1>5. lb \in nd.offset[d] .. o /\ hb \in h .. LastId(nd, d) /\ lb \in Nat /\ hb \in Int
      /\ hb - lb + 1 \in Nat
    <2> HIDE DEF o, h, g
    <2>1. QED BY <1>1, <1>2
<1>11. BeginsGroup(nd, d, lb)
    <2>1. nd.ls[d] \in Nat \ {0} /\ BeginsGroup(nd, d, o)
        BY LaunchIs DEF Divided
    <2> DEFINE l == nd.ls[d]
               s == nd.offset[d]
    <2>2. CASE o - g < s
        <3>1. lb = s + 0 * l
            BY <1>1, <2>1, <2>2
        <3> HIDE DEF lb
        <3>2. QED BY <3>1 DEF BeginsGroup
    <2>3. CASE ~(o - g < s)
        <3>1. PICK q \in Nat : o = s + q * l
            BY <2>1 DEF BeginsGroup
        <3>2. lb = o - g
            BY <2>3
        <3> HIDE DEF lb, o, l, s
        <3>3. l \in Nat \ {0} /\ s \in Nat /\ g = wgs * l
            BY <1>1, <2>1 DEF l, s
        <3> HIDE DEF g
        <3>4. q * l \in Nat /\ q * l >= wgs * l
            BY <1>1, <2>3, <3>1, <3>3
        <3>5. q - wgs \in Nat
            BY <3>3, <3>4
        <3>6. l * ((q - wgs) + wgs) = l * (q - wgs) + l * wgs
            BY <3>3, <3>5, Distributes
        <3>7. (q - wgs) * l = q * l - wgs * l
            <4>1. (q - wgs) + wgs = q /\ l * q = q * l /\ l * wgs = wgs * l
                  /\ l * (q - wgs) = (q - wgs) * l
                BY <3>3, <3>5
            <4>2. wgs * l \in Int /\ (q - wgs) * l \in Int
                BY <3>3, <3>5
            <4>3. QED BY <3>4, <3>6, <4>1, <4>2
        <3>8. lb = s + (q - wgs) * l
            BY <3>1, <3>2, <3>3, <3>4, <3>7
        <3>9. QED BY <3>5, <3>8 DEF BeginsGroup, l, s
    <2>4. QED BY <2>2, <2>3
<1> HIDE DEF W, lb, hb
<1>6. W.offset[d] = lb /\ W.size[d] = hb - lb + 1 /\ left.offset[d] = nd.offset[d]
      /\ DOMAIN W = {"work_dim", "orig", "size", "offset", "ls"}
    BY <1>1, <1>3 DEF Part
<1>7. /\ Own(W).offset[d] = lb /\ Own(W).size[d] = hb - lb + 1
      /\ Own(W) = [W EXCEPT !.orig = Own(W).orig]
      /\ Own(left).offset[d] = nd.offset[d]
    <2>1. DOMAIN left = {"work_dim", "orig", "size", "offset", "ls"}
        BY <1>1 DEF Part
    <2> HIDE DEF left
    <2>2. QED BY <1>6, <2>1
<1>8. Widens(nd, d, part, Own(W))
    <2>1. LastId(Own(W), d) = hb
        BY <1>5, <1>7 DEF LastId
    <2>2. Own(W) = [Part(nd, d, Own(W).offset[d], Own(W).size[d]) EXCEPT !.orig = Own(W).orig]
        BY <1>3, <1>7
    <2> HIDE DEF Own
    <2>3. QED BY <1>5, <1>7, <1>11, <2>1, <2>2 DEF Widens
<1>9. mid \in DOMAIN subs /\ subs[mid] = Own(W)
    <2>1. mid = IF subs[1].offset[d] = lb THEN 1 ELSE 2
        BY <1>6 DEF ShiftedIndex, W
    <2> DEFINE right == Own(Part(nd, d, LastId(W, d) + 1, W.size[d] - 1))
    <2>2. R \in Seq({right})
        <3>1. R = <<right>> \/ R = << >>
            OBVIOUS
        <3> HIDE DEF R, right
        <3>2. <<right>> \in Seq({right}) /\ << >> \in Seq({right})
            OBVIOUS
        <3>3. QED BY <3>1, <3>2
    <2>3. CASE lb = nd.offset[d]
        <3>1. L = <<>>
            BY <1>1, <1>6, <2>3
        <3> HIDE DEF L, R, Own
        <3>2. 1 \in DOMAIN subs /\ subs[1] = Own(W)
            BY <1>4, <2>2, <3>1
        <3>3. QED BY <1>7, <2>1, <3>2
    <2>4. CASE lb # nd.offset[d]
        <3>0. W.offset[d] > nd.offset[d]
            BY <1>1, <1>2, <1>5, <1>6, <2>4
        <3>1. L = <<Own(left)>>
            BY <3>0
        <3> HIDE DEF L, R, Own
        <3>2. 2 \in DOMAIN subs /\ subs[1] = Own(left) /\ subs[2] = Own(W)
            BY <1>4, <2>2, <3>1
        <3>3. QED BY <1>7, <2>1, <2>4, <3>2
    <2>5. QED BY <2>3, <2>4
<1>12. Own(W).orig = Own(W).size
    BY <1>6
<1> HIDE DEF Own, subs
<1>10. QED BY <1>8, <1>9, <1>12 DEF subs

\* A widened sub-range is a launch of its own, which the part of a larger one is not.
LEMMA ShiftedDiffers ==
    ASSUME NEW nd, Launchable(nd), NEW d \in DOMAIN nd.size, NEW parts, Divided(nd, d, parts),
           Len(parts) # 1, NEW i \in DOMAIN parts, NEW wgs \in Nat,
           NEW mid, mid = ShiftedIndex(nd, parts[i], d, wgs)
    PROVE  getShiftedPartition(nd, parts[i], d, wgs)[mid] # parts[i]
<1> DEFINE sub == getShiftedPartition(nd, parts[i], d, wgs)[mid]
           n == Len(parts)
<1>1. sub.orig = sub.size
    BY ShiftedWidens
<1>2. /\ DOMAIN nd = {"work_dim", "orig", "size", "offset", "ls"} /\ nd.orig = nd.size
      /\ nd.offset[d] \in Nat /\ nd.size[d] \in Nat
    BY LaunchIs DEF Launchable
<1>3. n \in Nat \ {0} /\ n # 1 /\ i \in 1 .. n /\ DOMAIN parts = 1 .. n
    BY DEF Divided
<1>4. parts[i].orig = nd.size
    <2> DEFINE o == parts[i].offset[d]
               s == parts[i].size[d]
    <2>1. parts[i] = Part(nd, d, o, s)
        BY <1>3 DEF Divided
    <2> HIDE DEF o, s
    <2>2. QED BY <1>2, <2>1 DEF Part
<1> HIDE DEF n, sub
<1>5. \A j \in 1 .. n : /\ parts[j].offset[d] \in Nat /\ parts[j].size[d] \in Nat \ {0}
                        /\ parts[j].offset[d] >= nd.offset[d] /\ LastId(parts[j], d) <= LastId(nd, d)
                        /\ j # 1 => parts[j].offset[d] = LastId(parts[j - 1], d) + 1
    BY <1>2, <1>3, ItselfWidens DEF Divided, n
<1>6. parts[i].size[d] # nd.size[d]
    <2>1. CASE i = 1
        <3>1. 2 \in 1 .. n
            BY <1>3
        <3>2. parts[2].offset[d] = LastId(parts[1], d) + 1
            BY <1>5, <3>1
        <3>3. /\ parts[1].offset[d] \in Nat /\ parts[1].size[d] \in Nat \ {0}
              /\ parts[1].offset[d] >= nd.offset[d] /\ 1 \in 1 .. n
            BY <1>3, <1>5
        <3>4. parts[2].size[d] \in Nat \ {0} /\ LastId(parts[2], d) <= LastId(nd, d)
            BY <1>5, <3>1
        <3>5. parts[1].size[d] # nd.size[d]
            BY <1>2, <3>2, <3>3, <3>4 DEF LastId
        <3>6. QED BY <2>1, <3>5
    <2>2. CASE i # 1
        <3>1. i - 1 \in 1 .. n
            BY <1>3, <2>2
        <3>2. parts[i].offset[d] = LastId(parts[i - 1], d) + 1
            BY <1>3, <1>5, <2>2
        <3>3. /\ parts[i - 1].offset[d] \in Nat /\ parts[i - 1].size[d] \in Nat \ {0}
              /\ parts[i - 1].offset[d] >= nd.offset[d]
            BY <1>5, <3>1
        <3>4. parts[i].size[d] \in Nat \ {0} /\ LastId(parts[i], d) <= LastId(nd, d)
            BY <1>3, <1>5
        <3>5. QED BY <1>2, <3>2, <3>3, <3>4 DEF LastId
    <2>3. QED BY <2>1, <2>2
<1>7. QED BY <1>1, <1>4, <1>6 DEF sub

\* The dimensions of a launch can be sorted.
LEMMA Sorted ==
    ASSUME NEW nd, Launchable(nd)
    PROVE  getSortedDim(nd) \in [1 .. nd.work_dim -> DOMAIN nd.size]
<1> DEFINE D == DOMAIN nd.size
           w(d) == NumGroups(nd, d)
           Before(d, e) == w(d) > w(e) \/ (w(d) = w(e) /\ d < e)
           Right(order) == \A i \in 2 .. nd.work_dim : Before(order[i - 1], order[i])
<1>1. nd.work_dim \in 1 .. 3 /\ D = 0 .. nd.work_dim - 1 /\ \A d \in D : w(d) \in Nat
    BY LaunchIs
<1>2. ASSUME NEW d \in D, NEW e \in D, d # e PROVE Before(d, e) \/ Before(e, d)
    <2>1. d \in Int /\ e \in Int /\ w(d) \in Nat /\ w(e) \in Nat
        BY <1>1
    <2> HIDE DEF w
    <2>2. QED BY <1>2, <2>1
<1> HIDE DEF Before, D
<1>3. \E order \in [1 .. nd.work_dim -> D] : Right(order)
    <2>1. CASE nd.work_dim = 1
        <3>1. 0 \in D /\ 2 .. nd.work_dim = {}
            BY <1>1, <2>1
        <3>2. [i \in 1 .. nd.work_dim |-> 0] \in [1 .. nd.work_dim -> D]
            BY <3>1
        <3>3. QED BY <3>1, <3>2
    <2>2. CASE nd.work_dim = 2
        <3>1. 0 \in D /\ 1 \in D /\ 2 .. nd.work_dim = {2}
            BY <1>1, <2>2
        <3>2. PICK a \in D, b \in D : Before(a, b)
            BY <1>2, <3>1
        <3> DEFINE order == [i \in 1 .. nd.work_dim |-> IF i = 1 THEN a ELSE b]
        <3>3. order \in [1 .. nd.work_dim -> D] /\ order[1] = a /\ order[2] = b
            BY <2>2
        <3> HIDE DEF order
        <3>4. order[2 - 1] = a
            BY <3>3
        <3>5. QED BY <3>1, <3>2, <3>3, <3>4
    <2>3. CASE nd.work_dim = 3
        <3>1. 0 \in D /\ 1 \in D /\ 2 \in D /\ 2 .. nd.work_dim = {2, 3}
            BY <1>1, <2>3
        <3>2. /\ Before(0, 1) \/ Before(1, 0)
              /\ Before(0, 2) \/ Before(2, 0)
              /\ Before(1, 2) \/ Before(2, 1)
            BY <1>2, <3>1
        <3>3. PICK a \in D, b \in D, c \in D : Before(a, b) /\ Before(b, c)
            BY <3>1, <3>2
        <3> DEFINE order == [i \in 1 .. nd.work_dim |-> IF i = 1 THEN a ELSE IF i = 2 THEN b ELSE c]
        <3>4. order \in [1 .. nd.work_dim -> D] /\ order[1] = a /\ order[2] = b /\ order[3] = c
            BY <2>3
        <3> HIDE DEF order
        <3>5. order[2 - 1] = a /\ order[3 - 1] = b
            BY <3>4
        <3>6. QED BY <3>1, <3>3, <3>4, <3>5
    <2>4. nd.work_dim = 1 \/ nd.work_dim = 2 \/ nd.work_dim = 3
        BY <1>1
    <2>5. QED BY <2>1, <2>2, <2>3, <2>4
<1>4. getSortedDim(nd) = CHOOSE order \in [1 .. nd.work_dim -> D] : Right(order)
    BY DEF getSortedDim, Before, D
<1> HIDE DEF Right
<1>5. QED BY <1>3, <1>4 DEF D

-----------------------------------------------------------------------------
(* What is kept of a kernel.                                               *)

AnalysisFields == {"kernel", "nd", "subs", "args", "computed", "values", "toRead", "regions"}

InfoFields ==
    {"hasPartition", "partitionUnchanged", "need", "req", "real", "nd", "args", "order", "dim",
     "shifting", "shiftingDevice", "shiftingWgs", "shiftedId", "orig", "required", "shifted",
     "shiftData", "full", "analysis", "subkernels", "data"}

Shape(si) ==
    /\ DOMAIN si = InfoFields /\ DOMAIN si.analysis = AnalysisFields
    /\ si.req \in Requests
    /\ \E c \in Calls : si.nd = c.nd
    /\ si.order \in [1 .. si.nd.work_dim -> DOMAIN si.nd.size]
    /\ si.dim \in 0 .. si.nd.work_dim
    /\ si.need \in BOOLEAN /\ si.shifting \in BOOLEAN /\ si.partitionUnchanged \in BOOLEAN

\* t is si but for the fields F.
Unchanged(t, si, F) == DOMAIN t = DOMAIN si /\ \A f \in InfoFields \ F : t[f] = si[f]

LEMMA OfShape ==
    ASSUME NEW si, Shape(si)
    PROVE  /\ si # NoInfo /\ Request(si.req) /\ Len(si.req) \in Nat /\ Len(si.req) > 0
           /\ Launchable(si.nd) /\ si.nd.work_dim \in 1 .. 3 /\ si.dim \in Nat
           /\ \A d \in DOMAIN si.nd.size : Unit % NumGroups(si.nd, d) = 0
           /\ si.dim < si.nd.work_dim => splitDimension(si) \in DOMAIN si.nd.size
<1>1. DOMAIN NoInfo = {"hasPartition"} /\ DOMAIN si = InfoFields /\ "need" \in InfoFields
    BY DEF NoInfo, Shape, InfoFields
<1>2. Request(si.req)
    BY RequestsAssumption DEF Shape
<1>3. Len(si.req) \in Nat /\ Len(si.req) > 0
    BY <1>2 DEF Request
<1>4. Launchable(si.nd) /\ \A d \in DOMAIN si.nd.size : Unit % NumGroups(si.nd, d) = 0
    BY CallsAssumption, SharesAssumption DEF Shape
<1>5. si.nd.work_dim \in 1 .. 3 /\ si.dim \in Nat
    BY <1>4, LaunchIs DEF Shape
<1>6. si.dim < si.nd.work_dim => si.dim + 1 \in 1 .. si.nd.work_dim
    BY <1>5
<1>7. QED BY <1>1, <1>2, <1>3, <1>4, <1>5, <1>6 DEF Shape, splitDimension

\* What each step of the scheduler leaves as it was.
LEMMA NeedsAnalysisIs ==
    ASSUME NEW si, DOMAIN si = InfoFields, si.need \in BOOLEAN
    PROVE  /\ Unchanged(NeedsAnalysis(si), si, {"need"})
           /\ NeedsAnalysis(si).need \in BOOLEAN /\ (si.need => NeedsAnalysis(si).need)
           /\ ~NeedsAnalysis(si).need /\ EnableIndirections =>
                si.analysis.kernel.indirections = << >>
BY OptionsAssumption DEF NeedsAnalysis, Unchanged, InfoFields

LEMMA AsRequestedIs ==
    ASSUME NEW si, DOMAIN si = InfoFields
    PROVE  /\ Unchanged(AsRequested(si), si, {"real"})
           /\ AsRequested(si).real = IF si.partitionUnchanged THEN si.real ELSE si.req
BY DEF AsRequested, Unchanged, InfoFields

LEMMA SingleDeviceIs ==
    ASSUME NEW si, DOMAIN si = InfoFields
    PROVE  /\ Unchanged(SingleDevice(si), si, {"real", "dim"})
           /\ si.dim < si.nd.work_dim => SingleDevice(si) = si
           /\ ~(si.dim < si.nd.work_dim) =>
                /\ SingleDevice(si).real = <<[dev |-> 0, share |-> Unit]>>
                /\ SingleDevice(si).dim = 0
BY DEF SingleDevice, Unchanged, InfoFields

ShiftSubs(si) ==
    getShiftedPartition(si.orig, si.required[si.shiftingDevice], splitDimension(si), si.shiftingWgs)

ShiftId(si) ==
    ShiftedIndex(si.orig, si.required[si.shiftingDevice], splitDimension(si), si.shiftingWgs)

LEMMA ShiftPartitionIs ==
    ASSUME NEW si, DOMAIN si = InfoFields, DOMAIN si.analysis = AnalysisFields
    PROVE  /\ Unchanged(ShiftPartition(si), si, {"partitionUnchanged", "shiftedId", "shifted", "analysis"})
           /\ ShiftPartition(si).partitionUnchanged = TRUE
           /\ ShiftPartition(si).shiftedId = ShiftId(si)
           /\ ShiftPartition(si).shifted =
                [si.shifted EXCEPT ![si.shiftingDevice] = ShiftSubs(si)[ShiftId(si)]]
           /\ ShiftPartition(si).analysis = [si.analysis EXCEPT !.nd = si.orig, !.subs = ShiftSubs(si)]
BY DEF ShiftPartition, ShiftedIndex, ShiftSubs, ShiftId, Unchanged, InfoFields, AnalysisFields

NewReal(si, c) ==
    LET w == NumGroups(c.nd, splitDimension(si)) IN adaptGranudscr(FewerWgs(si.real, w), w)

NewSubs(si, c) == splitDim(c.nd, splitDimension(si), Shares(NewReal(si, c)))

LEMMA NewPartitionIs ==
    ASSUME NEW si, DOMAIN si = InfoFields, DOMAIN si.analysis = AnalysisFields, NEW c
    PROVE  /\ Unchanged(NewPartition(si, c), si, {"real", "orig", "required", "analysis"})
           /\ NewPartition(si, c).real = NewReal(si, c) /\ NewPartition(si, c).orig = c.nd
           /\ NewPartition(si, c).required = NewSubs(si, c)
           /\ NewPartition(si, c).analysis =
                [si.analysis EXCEPT !.nd = c.nd, !.subs = NewSubs(si, c)]
BY DEF NewPartition, NewReal, NewSubs, Unchanged, InfoFields, AnalysisFields

LEMMA InstantiatedIs ==
    ASSUME NEW si, DOMAIN si = InfoFields, NEW c
    PROVE  /\ Unchanged(Instantiated(si, c), si, {"analysis"})
           /\ Instantiated(si, c).analysis =
                setPartition(si.analysis.kernel, si.analysis.nd, si.analysis.subs, c.args)
           /\ DOMAIN Instantiated(si, c).analysis = AnalysisFields
           /\ Instantiated(si, c).analysis.subs = si.analysis.subs
           /\ Instantiated(si, c).analysis.nd = si.analysis.nd
BY DEF Instantiated, Unchanged, InfoFields, setPartition, NewAnalysis, AnalysisFields

LEMMA WithIndirectionsIs ==
    ASSUME NEW si, DOMAIN si = InfoFields, DOMAIN si.analysis = AnalysisFields
    PROVE  /\ Unchanged(WithIndirections(si), si, {"analysis"})
           /\ DOMAIN WithIndirections(si).analysis = AnalysisFields
           /\ \A f \in AnalysisFields \ {"toRead", "computed"} :
                WithIndirections(si).analysis[f] = si.analysis[f]
<1>1. ASSUME NEW an, DOMAIN an = AnalysisFields
      PROVE  /\ DOMAIN computeIndirections(an) = AnalysisFields
             /\ \A f \in AnalysisFields \ {"toRead", "computed"} : computeIndirections(an)[f] = an[f]
    <2> DEFINE indirections == an.kernel.indirections
               Left(s) == {id \in DOMAIN indirections \ an.computed : InGuards(an, indirections[id], s)}
               ends == [id \in DOMAIN indirections, b \in Pairs |->
                          IF Computed(b)
                          THEN {[id |-> id, arg |-> indirections[id].arg, lb |-> b[1], hb |-> b[2]]}
                          ELSE {}]
               toRead == [s \in SubKernels(an) |->
                            UNION {ends[id, AccessBounds(an, indirections[id], s)] : id \in Left(s)}]
               ids == {r.id : r \in UNION Range(toRead)}
    <2>1. computeIndirections(an) = [an EXCEPT !.toRead = toRead, !.computed = an.computed \cup ids]
        BY DEF computeIndirections
    <2> HIDE DEF toRead, ids
    <2>2. QED BY <1>1, <2>1 DEF AnalysisFields
<1>2. QED BY <1>1 DEF WithIndirections, Unchanged, InfoFields

LEMMA WithValuesIs ==
    ASSUME NEW si, DOMAIN si = InfoFields, DOMAIN si.analysis = AnalysisFields, NEW c
    PROVE  /\ Unchanged(WithValues(si, c), si, {"analysis", "partitionUnchanged"})
           /\ DOMAIN WithValues(si, c).analysis = AnalysisFields
           /\ \A f \in AnalysisFields \ {"values"} : WithValues(si, c).analysis[f] = si.analysis[f]
           /\ WithValues(si, c).partitionUnchanged =
                IF EnableIndirections THEN indirectionMissing(WithValues(si, c).analysis)
                ELSE si.partitionUnchanged
<1> DEFINE values == ReadValues(si, c)
<1>1. ASSUME NEW an, DOMAIN an = AnalysisFields, NEW v
      PROVE  /\ DOMAIN setIndirectionsValues(an, v) = AnalysisFields
             /\ \A f \in AnalysisFields \ {"values"} : setIndirectionsValues(an, v)[f] = an[f]
    BY <1>1 DEF setIndirectionsValues, AnalysisFields
<1>2. WithValues(si, c) =
        IF EnableIndirections
        THEN [si EXCEPT !.analysis = setIndirectionsValues(si.analysis, values),
                        !.partitionUnchanged = indirectionMissing(si.analysis)]
        ELSE si
    BY DEF WithValues
<1> HIDE DEF values
<1>3. indirectionMissing(si.analysis) = indirectionMissing(setIndirectionsValues(si.analysis, values))
    BY <1>1 DEF indirectionMissing, AnalysisFields
<1> DEFINE an == setIndirectionsValues(si.analysis, values)
<1>4. /\ DOMAIN an = AnalysisFields
      /\ \A f \in AnalysisFields \ {"values"} : an[f] = si.analysis[f]
    BY <1>1
<1> HIDE DEF an
<1>5. CASE EnableIndirections
    <2>1. WithValues(si, c) = [si EXCEPT !.analysis = an,
                                         !.partitionUnchanged = indirectionMissing(an)]
        BY <1>2, <1>3, <1>5 DEF an
    <2> DEFINE t == WithValues(si, c)
               missing == indirectionMissing(an)
    <2> HIDE DEF t, missing
    <2>2. t = [si EXCEPT !.analysis = an, !.partitionUnchanged = missing]
        BY <2>1 DEF t, missing
    <2>3. /\ Unchanged(t, si, {"analysis", "partitionUnchanged"})
          /\ t.analysis = an /\ t.partitionUnchanged = missing
        BY <2>2 DEF Unchanged, InfoFields
    <2>4. QED BY <1>4, <1>5, <2>3 DEF t, missing
<1>6. CASE ~EnableIndirections
    BY <1>2, <1>6 DEF Unchanged
<1>7. QED BY <1>5, <1>6

-----------------------------------------------------------------------------
(* The phases of a launch.                                                 *)

\* The launch has been cut, in the dimension tried.
Cut(si) ==
    /\ si.dim < si.nd.work_dim /\ si.orig = si.nd
    /\ Divided(si.nd, splitDimension(si), si.required) /\ Len(si.required) <= Len(si.req)

Shifting(si) ==
    /\ Covers(si.nd, splitDimension(si), si.required, si.shifted)
    /\ si.shiftingDevice \in 1 .. Len(si.req) /\ si.shiftingWgs \in Nat
    /\ Len(si.required) # 1

\* The analysis is instantiated. A piece may be missing for a device of the request:
\* that one cannot be the one shifted.
Analysing(si) ==
    /\ Cut(si) /\ si.real \in Seq(Piece)
    /\ ~si.shifting => si.analysis.subs = si.required /\ Len(si.real) = Len(si.required)
    /\ si.shifting => /\ Shifting(si) /\ Len(si.real) = Len(si.req)
                      /\ si.shiftingDevice \in DOMAIN si.required

\* Sub-kernels have been handed out, for the launch nd.
Ranges(si) == [i \in DOMAIN si.subkernels |-> si.subkernels[i].nd]

Rest(si) ==
    /\ ~si.partitionUnchanged /\ ~si.shifting /\ si.orig = si.nd /\ si.dim < si.nd.work_dim
    /\ \E d \in DOMAIN si.nd.size :
         /\ Divided(si.nd, d, si.required)
         /\ Covers(si.nd, d, si.required, Ranges(si))
         /\ \A i \in DOMAIN si.subkernels : /\ si.subkernels[i].splitdim = d
                                           /\ si.subkernels[i].numgroups = NumGroups(si.nd, d)

\* A launch that has been asked for: as the scheduler finds it in getIndirectionRegions,
\* once the partition is known, and once the analysis is.
Asking(si) ==
    /\ si.partitionUnchanged => si.need /\ Analysing(si)
    /\ ~si.partitionUnchanged /\ si.shifting => si.need /\ Cut(si) /\ Shifting(si)
    /\ ~si.need => Rest(si)

Ready(si) ==
    /\ si.need
    /\ si.partitionUnchanged => Analysing(si)
    /\ ~si.partitionUnchanged /\ si.shifting => /\ Cut(si) /\ Shifting(si)
                                                /\ si.real \in Seq(Piece)
                                                /\ Len(si.real) = Len(si.req)
    /\ ~si.partitionUnchanged /\ ~si.shifting => /\ si.dim < si.nd.work_dim
                                                 /\ Request(si.real)
                                                 /\ Len(si.real) <= Len(si.req)
                                                 /\ si.real = si.req \/ Len(si.real) = 1

LEMMA NeedsAnalysisIsAsking ==
    ASSUME NEW si, Shape(si), Asking(si)
    PROVE  /\ Shape(NeedsAnalysis(si)) /\ Asking(NeedsAnalysis(si))
           /\ NeedsAnalysis(si).nd = si.nd /\ NeedsAnalysis(si).hasPartition = si.hasPartition
<1> DEFINE t == NeedsAnalysis(si)
<1>1. /\ Unchanged(t, si, {"need"}) /\ t.need \in BOOLEAN /\ (si.need => t.need)
    BY NeedsAnalysisIs DEF Shape
<1> HIDE DEF t
<1>2. Shape(t) /\ t.nd = si.nd /\ t.hasPartition = si.hasPartition
    BY <1>1 DEF Shape, Unchanged, InfoFields
<1>3. (Cut(t) <=> Cut(si)) /\ (Shifting(t) <=> Shifting(si)) /\ (Rest(t) <=> Rest(si))
    BY <1>1 DEF Unchanged, InfoFields, Cut, Shifting, Rest, Ranges, splitDimension, Shape
<1>4. Analysing(t) <=> Analysing(si)
    BY <1>1, <1>3 DEF Unchanged, InfoFields, Analysing, Shape
<1>5. t.partitionUnchanged = si.partitionUnchanged /\ t.shifting = si.shifting
      /\ si.need \in BOOLEAN
    BY <1>1 DEF Unchanged, InfoFields, Shape
<1>6. Asking(t)
    BY <1>1, <1>3, <1>4, <1>5 DEF Asking
<1>7. QED BY <1>2, <1>6 DEF t

LEMMA ReadyIs ==
    ASSUME NEW si, Shape(si), Asking(si), si.need,
           NEW t, t = SingleDevice(AsRequested(si))
    PROVE  Shape(t) /\ Ready(t) /\ t.nd = si.nd /\ t.hasPartition = si.hasPartition
<1> DEFINE r == AsRequested(si)
<1>1. Unchanged(r, si, {"real"}) /\ r.real = IF si.partitionUnchanged THEN si.real ELSE si.req
    BY AsRequestedIs DEF Shape
<1>2. t = SingleDevice(r)
    OBVIOUS
<1> HIDE DEF r
<1>3. Shape(r) /\ r.nd = si.nd /\ r.hasPartition = si.hasPartition /\ r.need /\ r.dim = si.dim
      /\ r.partitionUnchanged = si.partitionUnchanged /\ r.shifting = si.shifting
      /\ r.req = si.req
    BY <1>1 DEF Shape, Unchanged, InfoFields
<1>4. /\ Unchanged(t, r, {"real", "dim"}) /\ (r.dim < r.nd.work_dim => t = r)
      /\ ~(r.dim < r.nd.work_dim) => t.real = <<[dev |-> 0, share |-> Unit]>> /\ t.dim = 0
    BY <1>2, <1>3, SingleDeviceIs DEF Shape
<1>5. CASE r.dim < r.nd.work_dim
    <2>1. t = r
        BY <1>4, <1>5
    <2>2. CASE si.partitionUnchanged
        <3>1. r.real = si.real
            BY <1>1, <2>2
        <3>2. Analysing(r) <=> Analysing(si)
            BY <1>1, <3>1 DEF Unchanged, InfoFields, Cut, Shifting, Analysing, splitDimension, Shape
        <3>3. QED BY <1>3, <2>1, <2>2, <3>2 DEF Asking, Ready
    <2>3. CASE ~si.partitionUnchanged
        <3>1. r.real = si.req
            BY <1>1, <2>3
        <3>2. (Cut(r) <=> Cut(si)) /\ (Shifting(r) <=> Shifting(si))
            BY <1>1, <3>1 DEF Unchanged, InfoFields, Cut, Shifting, splitDimension, Shape
        <3>3. Request(r.real) /\ Len(r.real) = Len(r.req) /\ Len(r.req) \in Nat
            BY <1>3, <3>1, OfShape
        <3>4. r.real \in Seq(Piece)
            BY <3>3 DEF Request
        <3>5. si.shifting => Cut(r) /\ Shifting(r)
            BY <2>3, <3>2 DEF Asking
        <3>6. r.real = r.req
            BY <1>3, <3>1
        <3>7. QED BY <3>4, <1>3, <1>5, <2>1, <2>3, <3>3, <3>5, <3>6 DEF Ready
    <2>4. QED BY <2>2, <2>3
<1>6. CASE ~(r.dim < r.nd.work_dim)
    <2>1. ~Cut(si)
        BY <1>3, <1>6 DEF Cut
    <2>2. ~si.partitionUnchanged /\ ~si.shifting
        BY <2>1 DEF Asking, Analysing
    <2>3. /\ t.real = <<[dev |-> 0, share |-> Unit]>> /\ t.dim = 0
          /\ t.nd = si.nd /\ t.req = si.req /\ t.hasPartition = si.hasPartition
          /\ ~t.partitionUnchanged /\ ~t.shifting /\ t.need
        BY <1>3, <1>4, <1>6, <2>2 DEF Unchanged, InfoFields, Shape
    <2>4. Shape(t)
        <3>1. si.nd.work_dim \in 1 .. 3
            BY OfShape
        <3>2. t.dim \in 0 .. t.nd.work_dim
            BY <2>3, <3>1
        <3>3. QED BY <1>3, <1>4, <2>3, <3>2 DEF Shape, Unchanged, InfoFields
    <2>5. t.dim < t.nd.work_dim
        BY <2>3, OfShape
    <2>6. Request(t.real) /\ Len(t.real) = 1
        <3> DEFINE p == [dev |-> 0, share |-> Unit]
        <3>1. p \in Piece /\ p.share = Unit /\ Unit \in Nat \ {0}
            BY UnitAssumption, DevicesAssumption DEF Piece, Dev
        <3> HIDE DEF p
        <3>2. <<p>> \in Seq(Piece) /\ Len(<<p>>) = 1 /\ <<p>>[1] = p
            BY <3>1
        <3>3. NamedOnce(<<p>>, 1)
            BY DEF NamedOnce
        <3>4. 1 * (2 * Unit) >= Unit /\ 1 \in 1 .. 1 /\ 1 .. 1 - 1 = {}
            BY <3>1
        <3>5. Request(<<p>>)
            BY <3>1, <3>2, <3>3, <3>4 DEF Request
        <3>6. QED BY <2>3, <3>2, <3>5 DEF p
    <2>7. Len(t.real) <= Len(t.req)
        BY <2>3, <2>6, OfShape
    <2>8. QED BY <2>3, <2>4, <2>5, <2>6, <2>7 DEF Ready
<1>7. QED BY <1>5, <1>6

\* The analysis of a launch that is cut differs only in its analysis.
LEMMA AnalysingStays ==
    ASSUME NEW si, Shape(si), Analysing(si), si.need,
           NEW t, Unchanged(t, si, {"analysis", "partitionUnchanged"}), DOMAIN t.analysis = AnalysisFields,
           t.analysis.subs = si.analysis.subs, t.partitionUnchanged \in BOOLEAN
    PROVE  /\ Shape(t) /\ Analysing(t) /\ t.need
           /\ t.nd = si.nd /\ t.hasPartition = si.hasPartition
BY DEF Unchanged, InfoFields, Cut, Shifting, Analysing, splitDimension, Shape

\* A launch cut for the scheduler's partition.
LEMMA NewPartitionIsCut ==
    ASSUME NEW si, Shape(si), Ready(si), ~si.partitionUnchanged, ~si.shifting,
           NEW c, c.nd = si.nd, NEW t, t = NewPartition(si, c)
    PROVE  /\ Shape(t) /\ Analysing(t) /\ t.need
           /\ t.nd = si.nd /\ t.hasPartition = si.hasPartition
<1> DEFINE d == splitDimension(si)
           w == NumGroups(c.nd, d)
           fewer == FewerWgs(si.real, w)
           real == NewReal(si, c)
           subs == NewSubs(si, c)
<1>1. /\ Launchable(c.nd) /\ d \in DOMAIN c.nd.size /\ Unit % w = 0 /\ w \in Nat \ {0}
      /\ Request(si.real) /\ Len(si.real) <= Len(si.req) /\ Len(si.req) \in Nat
      /\ Len(si.real) \in Nat /\ si.dim < si.nd.work_dim
    <2>1. /\ Request(si.real) /\ Len(si.real) <= Len(si.req) /\ si.dim < si.nd.work_dim
        BY DEF Ready
    <2>2. /\ Launchable(c.nd) /\ d \in DOMAIN c.nd.size /\ Unit % w = 0 /\ Len(si.req) \in Nat
        BY <2>1, OfShape
    <2>3. w \in Nat \ {0}
        BY <2>2, LaunchIs
    <2>4. Len(si.real) \in Nat
        BY <2>1 DEF Request
    <2>5. QED BY <2>1, <2>2, <2>3, <2>4
<1> HIDE DEF w
<1>2. Request(fewer) /\ Len(fewer) <= w /\ Len(fewer) <= Len(si.real)
    BY <1>1, FewerIsRequest
<1>3. /\ Parts(real, w) /\ real \in Seq(Piece)
      /\ Len(real) <= Len(fewer) /\ Len(real) \in Nat /\ Len(fewer) \in Nat
    <2>0. real = adaptGranudscr(fewer, w)
        BY DEF NewReal, w
    <2> HIDE DEF fewer, real
    <2>1. Parts(real, w) /\ Len(real) <= Len(fewer)
        BY <1>1, <1>2, <2>0, AdaptIsRight
    <2>2. QED BY <1>2, <2>1 DEF Parts, Request
<1> HIDE DEF real, fewer
<1>4. Divided(c.nd, d, subs) /\ Len(subs) = Len(real)
    BY <1>1, <1>3, SplitDivides DEF w, real, NewSubs
<1>5. /\ Unchanged(t, si, {"real", "orig", "required", "analysis"})
      /\ t.real = real /\ t.orig = c.nd /\ t.required = subs
      /\ t.analysis = [si.analysis EXCEPT !.nd = c.nd, !.subs = subs]
    <2>1. DOMAIN si = InfoFields /\ DOMAIN si.analysis = AnalysisFields
        BY DEF Shape
    <2>2. QED BY ZenonT(40), <2>1, NewPartitionIs DEF real
<1> HIDE DEF subs
<1>6. Shape(t) /\ DOMAIN t.analysis = AnalysisFields /\ t.analysis.subs = subs
    BY <1>5 DEF Shape, Unchanged, InfoFields, AnalysisFields
<1>7. /\ t.nd = si.nd /\ t.hasPartition = si.hasPartition /\ t.need /\ ~t.shifting
      /\ t.dim = si.dim /\ t.req = si.req /\ splitDimension(t) = d
    BY <1>5 DEF Unchanged, InfoFields, Shape, Ready, splitDimension
<1>8. Cut(t)
    <2>1. Len(t.required) <= Len(t.req)
        BY <1>1, <1>2, <1>3, <1>4, <1>5, <1>7
    <2> HIDE DEF d
    <2>2. QED BY <1>1, <1>4, <1>5, <1>7, <2>1 DEF Cut
<1>9. Analysing(t)
    BY <1>3, <1>4, <1>5, <1>6, <1>7, <1>8 DEF Analysing
<1>10. QED BY <1>6, <1>7, <1>9

\* A launch cut again to shift a device.
LEMMA ShiftPartitionIsCut ==
    ASSUME NEW si, Shape(si), Ready(si), ~si.partitionUnchanged, si.shifting, ~OutOfSubRanges(si),
           NEW t, t = ShiftPartition(si)
    PROVE  /\ Shape(t) /\ Analysing(t) /\ t.need
           /\ t.nd = si.nd /\ t.hasPartition = si.hasPartition
<1> DEFINE d == splitDimension(si)
           k == si.shiftingDevice
           part == si.required[k]
           subs == ShiftSubs(si)
           mid == ShiftId(si)
<1>1. Cut(si) /\ Shifting(si) /\ si.real \in Seq(Piece) /\ Len(si.real) = Len(si.req)
    BY DEF Ready
<1>2. /\ Launchable(si.nd) /\ d \in DOMAIN si.nd.size /\ Divided(si.nd, d, si.required)
      /\ si.orig = si.nd /\ si.shiftingWgs \in Nat
      /\ Covers(si.nd, d, si.required, si.shifted)
    BY <1>1, OfShape DEF Cut, Shifting
<1>3. k \in DOMAIN si.required
    <2>1. k \in 1 .. Len(si.req) /\ Len(si.req) \in Nat /\ Len(si.required) \in Nat
          /\ DOMAIN si.required = 1 .. Len(si.required)
        BY <1>1, <1>2, OfShape DEF Shifting, Divided
    <2>2. k <= Len(si.required)
        BY <2>1 DEF OutOfSubRanges
    <2>3. QED BY <2>1, <2>2
<1>4. Widens(si.nd, d, part, subs[mid])
    BY <1>2, <1>3, ShiftedWidens DEF ShiftSubs, ShiftId
<1>5. /\ Unchanged(t, si, {"partitionUnchanged", "shiftedId", "shifted", "analysis"})
      /\ t.partitionUnchanged = TRUE /\ t.shifted = [si.shifted EXCEPT ![k] = subs[mid]]
      /\ t.analysis = [si.analysis EXCEPT !.nd = si.orig, !.subs = subs]
    BY ShiftPartitionIs DEF Shape
<1> HIDE DEF subs, mid, k, part
<1>6. Shape(t)
    BY ZenonT(40), <1>5 DEF Shape, Unchanged, InfoFields, AnalysisFields
<1>7. /\ t.nd = si.nd /\ t.hasPartition = si.hasPartition /\ t.need /\ t.shifting
      /\ t.dim = si.dim /\ t.req = si.req /\ splitDimension(t) = d /\ t.orig = si.orig
      /\ t.required = si.required /\ t.real = si.real /\ t.shiftingDevice = k
      /\ t.shiftingWgs = si.shiftingWgs
    BY <1>5 DEF Unchanged, InfoFields, Shape, Ready, splitDimension, k
<1> HIDE DEF d
<1>8. Covers(t.nd, d, t.required, t.shifted)
    <2>1. DOMAIN t.shifted = DOMAIN si.required
        BY <1>2, <1>5 DEF Covers
    <2>2. \A i \in DOMAIN si.required : Widens(si.nd, d, si.required[i], t.shifted[i])
        BY <1>2, <1>3, <1>4, <1>5 DEF Covers, part
    <2>3. QED BY <1>7, <2>1, <2>2 DEF Covers
<1>9. Cut(t) /\ Shifting(t)
    BY <1>1, <1>7, <1>8 DEF Cut, Shifting, k, d
<1>10. Analysing(t)
    BY <1>1, <1>3, <1>7, <1>9 DEF Analysing
<1>11. QED BY <1>6, <1>7, <1>10

\* Whatever partition is analysed.
Prepared(si, c) ==
    IF si.partitionUnchanged THEN si ELSE Instantiated(Partitioned(si, c), c)

LEMMA PreparedIsAnalysing ==
    ASSUME NEW si, Shape(si), Ready(si), ~OutOfSubRanges(si), NEW c, c.nd = si.nd,
           NEW t, t = WithIndirections(Prepared(si, c))
    PROVE  /\ Shape(t) /\ Analysing(t) /\ t.need
           /\ t.nd = si.nd /\ t.hasPartition = si.hasPartition
           /\ BeyondParts(Prepared(si, c)) => BeyondParts(t)
<1> DEFINE p == Prepared(si, c)
           Good(x) == /\ Shape(x) /\ Analysing(x) /\ x.need
                      /\ x.nd = si.nd /\ x.hasPartition = si.hasPartition
<1>1. Good(p)
    <2>1. CASE si.partitionUnchanged
        BY <2>1 DEF Prepared, Ready
    <2>2. CASE ~si.partitionUnchanged
        <3> DEFINE q == Partitioned(si, c)
        <3>1. Good(q)
            <4>1. CASE si.shifting
                BY <2>2, <4>1, ShiftPartitionIsCut DEF Partitioned
            <4>2. CASE ~si.shifting
                BY <2>2, <4>2, NewPartitionIsCut DEF Partitioned
            <4>3. QED BY <4>1, <4>2
        <3> HIDE DEF q
        <3>2. /\ Unchanged(Instantiated(q, c), q, {"analysis"})
              /\ DOMAIN Instantiated(q, c).analysis = AnalysisFields
              /\ Instantiated(q, c).analysis.subs = q.analysis.subs
            BY <3>1, InstantiatedIs DEF Shape
        <3>3. Unchanged(Instantiated(q, c), q, {"analysis", "partitionUnchanged"})
              /\ Instantiated(q, c).partitionUnchanged \in BOOLEAN
            BY <3>1, <3>2 DEF Unchanged, Shape, InfoFields
        <3>4. Good(Instantiated(q, c))
            BY <3>1, <3>2, <3>3, AnalysingStays
        <3>5. QED BY <2>2, <3>4 DEF Prepared, q
    <2>3. QED BY <2>1, <2>2
<1> HIDE DEF p
<1>2. /\ Unchanged(t, p, {"analysis"}) /\ DOMAIN t.analysis = AnalysisFields
      /\ t.analysis.subs = p.analysis.subs
    <2>1. t = WithIndirections(p) /\ "subs" \in AnalysisFields \ {"toRead", "computed"}
        BY DEF p, AnalysisFields
    <2>2. QED BY <1>1, <2>1, WithIndirectionsIs DEF Shape
<1>3. Unchanged(t, p, {"analysis", "partitionUnchanged"}) /\ t.partitionUnchanged \in BOOLEAN
    BY <1>1, <1>2 DEF Unchanged, Shape, InfoFields
<1>4. BeyondParts(p) => BeyondParts(t)
    <2>1. t.real = p.real
        BY <1>2 DEF Unchanged, InfoFields
    <2>2. QED BY <1>2, <2>1 DEF BeyondParts
<1>5. QED BY <1>1, <1>2, <1>3, <1>4, AnalysingStays DEF p

LEMMA TwoNumbers ==
    ASSUME NEW a \in Nat, NEW b \in Nat
    PROVE  Max({a, b}) \in Nat /\ Min({a, b}) \in Nat
<1>1. \E x \in {a, b} : \A y \in {a, b} : x >= y
    OBVIOUS
<1>2. \E x \in {a, b} : \A y \in {a, b} : x =< y
    OBVIOUS
<1>3. QED BY <1>1, <1>2 DEF Max, Min

\* The shifts are numbers of work groups.
LEMMA WgsAre ==
    ASSUME NEW nd, Launchable(nd), NEW d \in DOMAIN nd.size, NEW wgs \in Nat
    PROVE  ShiftedWgs(nd, d) \in Nat /\ MoreWgs(wgs, nd, d) \in Nat
<1>1. NumGroups(nd, d) \in Nat /\ ShiftInit \in Nat /\ ShiftStep \in Nat
    BY LaunchIs, OptionsAssumption
<1> DEFINE w == NumGroups(nd, d)
           more == IF ShiftStep > 0 THEN wgs + ShiftStep ELSE 2 * wgs
<1>2. more \in Nat /\ w \div 100 \in Nat
    BY <1>1
<1>3. ShiftedWgs(nd, d) = (IF ShiftInit > 0 THEN ShiftInit ELSE Max({w \div 100, 1}))
      /\ MoreWgs(wgs, nd, d) = Min({more, w})
    BY DEF ShiftedWgs, MoreWgs
<1> HIDE DEF w, more
<1>4. Max({w \div 100, 1}) \in Nat /\ Min({more, w}) \in Nat
    BY <1>1, <1>2, TwoNumbers DEF w
<1>5. QED BY <1>1, <1>3, <1>4

\* What is handed out for a launch that has been cut.
LEMMA HandedRests ==
    ASSUME NEW si, Shape(si), Cut(si), ~si.partitionUnchanged, ~si.shifting,
           NEW subs, Covers(si.nd, splitDimension(si), si.required, subs),
           DOMAIN si.real = DOMAIN si.required, NEW data, NEW t, t = Handed(si, subs, data)
    PROVE  Shape(t) /\ Rest(t) /\ t.nd = si.nd /\ t.hasPartition = si.hasPartition
<1>1. /\ Unchanged(t, si, {"subkernels", "data"})
      /\ t.subkernels = [i \in DOMAIN si.real |-> SubKernelOf(si, i, subs[i])]
    BY DEF Handed, Unchanged, Shape, InfoFields
<1>2. /\ Shape(t) /\ t.nd = si.nd /\ t.hasPartition = si.hasPartition /\ t.required = si.required
      /\ ~t.partitionUnchanged /\ ~t.shifting /\ t.orig = si.nd /\ t.dim < t.nd.work_dim
    BY <1>1 DEF Unchanged, Shape, InfoFields, Cut
<1> DEFINE d == splitDimension(si)
<1>3. \A i \in DOMAIN si.real : /\ Ranges(t)[i] = subs[i] /\ t.subkernels[i].splitdim = d
                                /\ t.subkernels[i].numgroups = NumGroups(si.nd, d)
    BY <1>1 DEF Ranges, SubKernelOf, Cut
<1>4. DOMAIN Ranges(t) = DOMAIN si.required
    BY <1>1 DEF Ranges
<1>5. Covers(si.nd, d, si.required, Ranges(t))
    BY <1>3, <1>4 DEF Covers
<1>6. d \in DOMAIN si.nd.size /\ Divided(si.nd, d, si.required)
    BY OfShape DEF Cut
<1>9. DOMAIN t.subkernels = DOMAIN si.real
    BY <1>1
<1> HIDE DEF d
<1>7. Rest(t)
    BY <1>2, <1>3, <1>5, <1>6, <1>9 DEF Rest
<1>8. QED BY <1>2, <1>7

\* The parts are handed out as they are.
LEMMA FilledRests ==
    ASSUME NEW si, Shape(si), Analysing(si), ~si.partitionUnchanged, ~si.shifting,
           NEW data, NEW t, t = Handed(si, si.analysis.subs, data)
    PROVE  Shape(t) /\ Rest(t) /\ t.nd = si.nd /\ t.hasPartition = si.hasPartition
<1> DEFINE d == splitDimension(si)
<1>1. /\ Cut(si) /\ si.analysis.subs = si.required /\ si.real \in Seq(Piece)
      /\ Len(si.real) = Len(si.required)
    BY DEF Analysing
<1>2. d \in DOMAIN si.nd.size /\ Launchable(si.nd) /\ Divided(si.nd, d, si.required)
    BY <1>1, OfShape DEF Cut
<1>3. Covers(si.nd, d, si.required, si.required) /\ DOMAIN si.real = DOMAIN si.required
    <2>1. DOMAIN si.required = 1 .. Len(si.required)
        BY <1>2 DEF Divided
    <2>2. DOMAIN si.real = 1 .. Len(si.real)
        BY <1>1
    <2> HIDE DEF d
    <2>3. Covers(si.nd, d, si.required, si.required)
        BY <1>2, ItselfWidens
    <2>4. QED BY <1>1, <2>1, <2>2, <2>3
<1>4. QED BY <1>1, <1>3, HandedRests

\* What the shift of a device records.
LEMMA ShiftIs ==
    ASSUME NEW si, DOMAIN si = InfoFields
    PROVE  Unchanged(Shift(si), si, {"shiftData"})
BY DEF Shift, Unchanged, InfoFields

LEMMA ShiftRecords ==
    ASSUME NEW si, Shape(si), Analysing(si), NEW t, t = Shift(si)
    PROVE  /\ Shape(t) /\ Analysing(t) /\ t.nd = si.nd /\ t.hasPartition = si.hasPartition
           /\ t.partitionUnchanged = si.partitionUnchanged /\ t.shifting = si.shifting
           /\ t.need = si.need
<1>1. Unchanged(t, si, {"shiftData"})
    BY ShiftIs DEF Shape
<1>2. QED
    BY <1>1 DEF Unchanged, InfoFields, Cut, Shifting, Analysing, splitDimension, Shape

\* The widened parts are handed out once every device has been shifted: the last of the
\* request is the last part.
LEMMA ShiftedRests ==
    ASSUME NEW si, Shape(si), Analysing(si), ~si.partitionUnchanged, si.shifting, ShiftEnds(si),
           NEW t, t = FillShift(si)
    PROVE  Shape(t) /\ Rest(t) /\ t.nd = si.nd /\ t.hasPartition = si.hasPartition
<1> DEFINE d == splitDimension(si)
           shares == [i \in DOMAIN si.real |->
                        [si.real[i] EXCEPT !.share = (si.shifted[i].size[d] * Unit) \div si.orig.size[d]]]
           u == [si EXCEPT !.partitionUnchanged = FALSE, !.shifting = FALSE, !.real = shares]
<1>1. t = Handed(u, si.shifted, si.shiftData)
    BY DEF FillShift
<1>2. /\ Cut(si) /\ Shifting(si) /\ si.real \in Seq(Piece) /\ Len(si.real) = Len(si.req)
      /\ si.shiftingDevice \in DOMAIN si.required
    BY DEF Analysing
<1>3. DOMAIN si.real = DOMAIN si.required
    <2>1. /\ DOMAIN si.required = 1 .. Len(si.required) /\ Len(si.required) \in Nat
          /\ Len(si.required) <= Len(si.req) /\ Len(si.req) \in Nat
        BY <1>2, OfShape DEF Cut, Divided
    <2>2. si.shiftingDevice = Len(si.real) /\ DOMAIN si.real = 1 .. Len(si.real)
        BY <1>2 DEF ShiftEnds
    <2>3. QED BY <1>2, <2>1, <2>2
<1> HIDE DEF shares
<1>4. /\ Unchanged(u, si, {"partitionUnchanged", "shifting", "real"})
      /\ u.partitionUnchanged = FALSE /\ u.shifting = FALSE /\ u.real = shares
    BY DEF Unchanged, Shape, InfoFields
<1> HIDE DEF u
<1>5. /\ Shape(u) /\ u.nd = si.nd /\ u.hasPartition = si.hasPartition
      /\ u.required = si.required /\ splitDimension(u) = d
    BY <1>4 DEF Unchanged, Shape, InfoFields, splitDimension
<1>6. Cut(u)
    BY <1>2, <1>4, <1>5 DEF Unchanged, Shape, InfoFields, Cut
<1>7. DOMAIN u.real = DOMAIN u.required
    BY <1>3, <1>4, <1>5 DEF shares
<1>8. Covers(u.nd, splitDimension(u), u.required, si.shifted)
    BY <1>2, <1>5 DEF Shifting
<1>9. QED BY <1>1, <1>4, <1>5, <1>6, <1>7, <1>8, HandedRests

\* The launch is asked for again, for the next device or with larger shifts,
LEMMA NextShiftAsks ==
    ASSUME NEW si, Shape(si), Analysing(si), ~si.partitionUnchanged, si.shifting, si.need,
           NEW t, t = NextShift(si)
    PROVE  Shape(t) /\ Asking(t) /\ t.need /\ t.nd = si.nd /\ t.hasPartition = si.hasPartition
<1>1. /\ Cut(si) /\ Shifting(si) /\ Len(si.real) = Len(si.req)
    BY DEF Analysing
<1>2. Len(si.req) \in Nat /\ Len(si.req) > 0 /\ si.shiftingDevice \in 1 .. Len(si.req)
    BY <1>1, OfShape DEF Shifting
<1>3. /\ Unchanged(t, si, {"shiftingDevice", "shiftingWgs"})
      /\ t.shiftingDevice \in 1 .. Len(si.req)
      /\ t.shiftingWgs = si.shiftingWgs
           \/ t.shiftingWgs = MoreWgs(si.shiftingWgs, si.orig, splitDimension(si))
    <2>1. DOMAIN si = InfoFields
        BY DEF Shape
    <2>2. CASE si.shiftingDevice < Len(si.real)
        <3>1. t = [si EXCEPT !.shiftingDevice = si.shiftingDevice + 1]
            BY <2>2 DEF NextShift
        <3>2. QED BY <1>1, <1>2, <2>1, <2>2, <3>1 DEF Unchanged, InfoFields
    <2>3. CASE ~(si.shiftingDevice < Len(si.real))
        <3> DEFINE more == MoreWgs(si.shiftingWgs, si.orig, splitDimension(si))
        <3>1. t = [si EXCEPT !.shiftingDevice = 1, !.shiftingWgs = more]
            BY <2>3 DEF NextShift
        <3> HIDE DEF more
        <3>2. Unchanged(t, si, {"shiftingDevice", "shiftingWgs"}) /\ t.shiftingDevice = 1
              /\ t.shiftingWgs = more
            BY <2>1, <3>1 DEF Unchanged, InfoFields
        <3>3. QED BY <1>2, <3>2 DEF more
    <2>4. QED BY <2>2, <2>3
<1>4. t.shiftingWgs \in Nat
    <2>1. /\ si.orig = si.nd /\ si.shiftingWgs \in Nat /\ Launchable(si.nd)
          /\ splitDimension(si) \in DOMAIN si.nd.size
        BY <1>1, OfShape DEF Cut, Shifting
    <2>2. QED BY <1>3, <2>1, WgsAre
<1>5. /\ Shape(t) /\ t.nd = si.nd /\ t.hasPartition = si.hasPartition /\ t.need
      /\ t.partitionUnchanged = si.partitionUnchanged /\ t.shifting = si.shifting
      /\ t.req = si.req /\ t.required = si.required /\ t.shifted = si.shifted
      /\ t.orig = si.orig /\ t.dim = si.dim /\ splitDimension(t) = splitDimension(si)
    BY <1>3 DEF Unchanged, InfoFields, Shape, splitDimension
<1>6. Cut(t) /\ Shifting(t)
    BY <1>1, <1>3, <1>4, <1>5 DEF Cut, Shifting
<1>7. QED BY <1>5, <1>6 DEF Asking

\* for the first device when sub-kernels may write the same elements,
LEMMA StartShiftingAsks ==
    ASSUME NEW si, Shape(si), Analysing(si), ~si.partitionUnchanged, ~si.shifting, si.need,
           Len(si.real) # 1, NEW t, t = StartShifting(si)
    PROVE  Shape(t) /\ Asking(t) /\ t.need /\ t.nd = si.nd /\ t.hasPartition = si.hasPartition
<1> DEFINE d == splitDimension(si)
<1>1. Cut(si)
    BY DEF Analysing
<1>2. /\ d \in DOMAIN si.nd.size /\ Launchable(si.nd) /\ Divided(si.nd, d, si.required)
      /\ si.orig = si.nd /\ Len(si.req) \in Nat /\ Len(si.req) > 0
    BY <1>1, OfShape DEF Cut
<1>3. /\ Unchanged(t, si, {"shifting", "shiftingDevice", "shiftingWgs", "shifted", "shiftData", "full"})
      /\ t.shifting /\ t.shiftingDevice = 1 /\ t.shifted = si.required
      /\ t.shiftingWgs = ShiftedWgs(si.orig, d)
    BY DEF StartShifting, Unchanged, InfoFields, Shape
<1>4. /\ Shape(t) /\ t.nd = si.nd /\ t.hasPartition = si.hasPartition /\ t.need
      /\ t.partitionUnchanged = si.partitionUnchanged
      /\ t.req = si.req /\ t.required = si.required
      /\ t.orig = si.orig /\ t.dim = si.dim /\ splitDimension(t) = d
    BY ZenonT(40), <1>3 DEF Unchanged, InfoFields, Shape, splitDimension
<1> HIDE DEF d
<1>5. Cut(t)
    BY <1>1, <1>4 DEF Cut, d
<1>6. Shifting(t)
    <2>1. Covers(si.nd, d, si.required, si.required)
        BY <1>2, ItselfWidens
    <2>2. t.shiftingWgs \in Nat
        <3>1. ShiftedWgs(si.nd, d) \in Nat
            BY <1>2, WgsAre
        <3>2. QED BY <1>2, <1>3, <3>1
    <2>3. Len(si.required) # 1
        BY DEF Analysing
    <2>4. QED BY <1>2, <1>3, <1>4, <2>1, <2>2, <2>3 DEF Shifting
<1>7. QED BY <1>3, <1>4, <1>5, <1>6 DEF Asking

\* or in the next dimension.
LEMMA NextDimensionAsks ==
    ASSUME NEW si, Shape(si), Analysing(si), ~si.partitionUnchanged, ~si.shifting, si.need,
           NEW t, t = [si EXCEPT !.dim = @ + 1]
    PROVE  Shape(t) /\ Asking(t) /\ t.need /\ t.nd = si.nd /\ t.hasPartition = si.hasPartition
<1>1. Unchanged(t, si, {"dim"}) /\ t.dim = si.dim + 1
    BY DEF Unchanged, InfoFields, Shape
<1>2. si.dim \in 0 .. si.nd.work_dim /\ si.nd.work_dim \in 1 .. 3 /\ si.dim < si.nd.work_dim
    BY OfShape DEF Analysing, Cut, Shape
<1>3. t.dim \in 0 .. si.nd.work_dim
    BY <1>1, <1>2
<1>4. QED BY <1>1, <1>3 DEF Unchanged, InfoFields, Shape, Asking

\* What an analysis ends in: the launch is asked for again, or handed out.
AsksAgain(si, t) == Shape(t) /\ Asking(t) /\ t.need /\ t.nd = si.nd /\ t.hasPartition = si.hasPartition
HandsOut(si, t) == Shape(t) /\ Rest(t) /\ t.nd = si.nd /\ t.hasPartition = si.hasPartition

LEMMA OutcomeIs ==
    ASSUME NEW si, Shape(si), Analysing(si), ~si.partitionUnchanged, si.need, Outcome(si)
    PROVE  \E t : \/ Again(t) /\ AsksAgain(si, t)
                  \/ Done(t) /\ HandsOut(si, t)
<1>1. CASE Single(si) /\ Done(FillSingle(si))
    <2>1. HandsOut(si, FillSingle(si))
        BY <1>1, FilledRests DEF FillSingle, Single, HandsOut
    <2>2. QED BY <1>1, <2>1
<1>2. CASE si.shifting /\ \E shifted \in {Shift(si)} :
             \/ ShiftEnds(shifted) /\ Done(FillShift(shifted))
             \/ ~ShiftEnds(shifted) /\ Again(NextShift(shifted))
    <2> DEFINE s == Shift(si)
    <2>1. /\ Shape(s) /\ Analysing(s) /\ s.nd = si.nd /\ s.hasPartition = si.hasPartition
          /\ s.partitionUnchanged = si.partitionUnchanged /\ s.shifting = si.shifting
          /\ s.need = si.need
        BY ShiftRecords
    <2>2. \/ ShiftEnds(s) /\ Done(FillShift(s))
          \/ ~ShiftEnds(s) /\ Again(NextShift(s))
        BY <1>2
    <2> HIDE DEF s
    <2>3. CASE ShiftEnds(s) /\ Done(FillShift(s))
        <3>1. HandsOut(si, FillShift(s))
            BY <1>2, <2>1, <2>3, ShiftedRests DEF HandsOut
        <3>2. QED BY <2>3, <3>1
    <2>4. CASE Again(NextShift(s))
        <3>1. AsksAgain(si, NextShift(s))
            BY <1>2, <2>1, NextShiftAsks DEF AsksAgain
        <3>2. QED BY <2>4, <3>1
    <2>5. QED BY <2>2, <2>3, <2>4
<1>3. CASE ~si.shifting /\ Again([si EXCEPT !.dim = @ + 1])
    <2>1. AsksAgain(si, [si EXCEPT !.dim = @ + 1])
        BY <1>3, NextDimensionAsks DEF AsksAgain
    <2>2. QED BY <1>3, <2>1
<1>4. CASE ~si.shifting /\ Len(si.real) # 1 /\ Again(StartShifting(si))
    <2>1. AsksAgain(si, StartShifting(si))
        BY <1>4, StartShiftingAsks DEF AsksAgain
    <2>2. QED BY <1>4, <2>1
<1>5. CASE ~si.shifting /\ Done(FillMulti([si EXCEPT !.partitionUnchanged = FALSE]))
    <2> DEFINE u == [si EXCEPT !.partitionUnchanged = FALSE]
    <2>1. Unchanged(u, si, {"partitionUnchanged"}) /\ u.partitionUnchanged = FALSE
        BY DEF Unchanged, InfoFields, Shape
    <2>2. Unchanged(u, si, {"analysis", "partitionUnchanged"}) /\ u.analysis = si.analysis
          /\ u.shifting = si.shifting
        BY <2>1 DEF Unchanged, InfoFields, Shape
    <2> HIDE DEF u
    <2>3. Shape(u) /\ Analysing(u) /\ u.nd = si.nd /\ u.hasPartition = si.hasPartition
        <3>1. DOMAIN u.analysis = AnalysisFields
            BY <2>2 DEF Shape
        <3>2. QED BY <2>1, <2>2, <3>1, AnalysingStays
    <2>4. HandsOut(si, FillMulti(u))
        BY <1>5, <2>1, <2>2, <2>3, FilledRests DEF FillMulti, HandsOut
    <2>5. QED BY <1>5, <2>4 DEF u
<1>6. QED BY <1>1, <1>2, <1>3, <1>4, <1>5 DEF Outcome, Single

\* The assertion of getPartition: a sub-kernel ends within a launch that begins at zero.
LEMMA RestInRange ==
    ASSUME NEW si, Shape(si), Rest(si), ZeroOffsets
    PROVE  GranuIntervalsInRange(si)
<1> DEFINE e == splitDimension(si)
<1>1. e \in DOMAIN si.nd.size /\ Launchable(si.nd) /\ si.orig = si.nd
    BY OfShape DEF Rest
<1>2. DOMAIN si.nd.offset = DOMAIN si.nd.size /\ si.nd.size[e] \in Nat
    BY <1>1, LaunchIs
<1>3. si.nd.offset[e] = 0
    BY <1>1, <1>2 DEF ZeroOffsets, Shape
<1>4. PICK d \in DOMAIN si.nd.size : /\ Divided(si.nd, d, si.required)
                                     /\ Covers(si.nd, d, si.required, Ranges(si))
    BY DEF Rest
<1> HIDE DEF e
<1>5. ASSUME NEW i \in DOMAIN si.subkernels
      PROVE  si.subkernels[i].nd.offset[e] + si.subkernels[i].nd.size[e] <= si.orig.size[e]
    <2> DEFINE sub == si.subkernels[i].nd
    <2>1. Widens(si.nd, d, si.required[i], sub)
        BY <1>4 DEF Covers, Ranges
    <2> HIDE DEF sub
    <2>2. CASE e = d
        <3>1. /\ sub.offset[d] \in Int /\ sub.size[d] \in Nat
              /\ LastId(sub, d) <= LastId(si.nd, d)
            BY <2>1 DEF Widens
        <3>2. QED BY <1>1, <1>2, <1>3, <2>2, <3>1 DEF LastId, sub
    <2>3. CASE e # d
        <3>1. sub = [Part(si.nd, d, sub.offset[d], sub.size[d]) EXCEPT !.orig = sub.orig]
            BY <2>1 DEF Widens
        <3> DEFINE o == sub.offset[d]
                   s == sub.size[d]
                   any == sub.orig
        <3>2. sub = [Part(si.nd, d, o, s) EXCEPT !.orig = any]
            BY <3>1
        <3> HIDE DEF o, s, any
        <3>3. DOMAIN si.nd = {"work_dim", "orig", "size", "offset", "ls"}
            BY <1>1, LaunchIs
        <3>4. sub.offset[e] = si.nd.offset[e] /\ sub.size[e] = si.nd.size[e]
            BY <1>1, <1>2, <2>3, <3>2, <3>3 DEF Part
        <3>5. QED BY <1>1, <1>2, <1>3, <3>4 DEF sub
    <2>4. QED BY <2>2, <2>3
<1>6. QED BY <1>5 DEF GranuIntervalsInRange, e

\* Where the program may end.
EndsInShift(si) == si.shifting /\ (Dropped(si) \/ BeyondParts(si))

\* There are parts enough but in a shift.
LEMMA NoneBeyond ==
    ASSUME NEW si, Analysing(si), BeyondParts(si)
    PROVE  si.shifting
<1>1. ASSUME ~si.shifting PROVE FALSE
    <2>1. Len(si.real) = Len(si.analysis.subs) /\ Len(si.real) \in Nat
        BY <1>1 DEF Analysing
    <2>2. QED BY <2>1 DEF BeyondParts
<1>2. QED BY <1>1

\* A device without a sub-range has been dropped from the request.
LEMMA DroppedDevice ==
    ASSUME NEW si, Shape(si), Ready(si), OutOfSubRanges(si)
    PROVE  EndsInShift(si)
<1>1. Shifting(si) /\ si.shiftingDevice > Len(si.required)
    BY DEF Ready, OutOfSubRanges
<1>2. Len(si.req) \in Nat /\ si.shiftingDevice \in 1 .. Len(si.req)
    BY <1>1, OfShape DEF Shifting
<1>3. Len(si.required) < Len(si.req)
    <2>1. Len(si.required) \in Nat
        BY DEF Ready, OutOfSubRanges, Cut, Divided
    <2>2. QED BY <1>1, <1>2, <2>1
<1>4. QED BY <1>3 DEF EndsInShift, Dropped, Ready, OutOfSubRanges

\* The launch as it is asked for.
LEMMA FirstRequestAsks ==
    ASSUME NEW si, si = NoInfo \/ (Shape(si) /\ Rest(si)),
           NEW c \in Calls, NEW granu \in Requests, NEW again \in BOOLEAN,
           NEW t, t = FirstRequest(si, c, granu, again)
    PROVE  Shape(t) /\ Asking(t) /\ t.nd = c.nd /\ t.hasPartition
<1>1. /\ getSortedDim(c.nd) \in [1 .. c.nd.work_dim -> DOMAIN c.nd.size]
      /\ 0 \in 0 .. c.nd.work_dim
    BY CallsAssumption, Sorted, LaunchIs
<1> DEFINE order == getSortedDim(c.nd)
<1>2. CASE si = NoInfo
    <2> DEFINE an == NewAnalysis(Kernels[c.kernel], c.nd, << >>, c.args)
    <2>1. DOMAIN an = AnalysisFields
        BY DEF NewAnalysis, AnalysisFields
    <2>2. t = [hasPartition |-> TRUE, partitionUnchanged |-> FALSE, need |-> TRUE,
               req |-> granu, real |-> granu, nd |-> c.nd, args |-> c.args,
               order |-> order, dim |-> 0,
               shifting |-> FALSE, shiftingDevice |-> 1, shiftingWgs |-> 0, shiftedId |-> 1,
               orig |-> NoRange, required |-> <<>>, shifted |-> <<>>,
               shiftData |-> <<>>, full |-> <<>>,
               analysis |-> an,
               subkernels |-> <<>>, data |-> <<>>]
        BY <1>2 DEF FirstRequest
    <2> HIDE DEF an, order
    <2>3. /\ DOMAIN t = InfoFields /\ t.analysis = an /\ t.req = granu /\ t.nd = c.nd
          /\ t.order = order /\ t.dim = 0 /\ t.need = TRUE /\ t.shifting = FALSE
          /\ t.partitionUnchanged = FALSE /\ t.hasPartition
        BY <2>2 DEF InfoFields
    <2>4. QED BY <1>1, <2>1, <2>3 DEF Shape, Asking, order
<1>3. CASE Shape(si) /\ Rest(si)
    <2>1. si # NoInfo
        BY <1>3, OfShape
    <2> DEFINE need == again \/ si.nd # c.nd \/ si.args # c.args
    <2>2. t = [si EXCEPT !.hasPartition = TRUE, !.need = need, !.req = granu, !.nd = c.nd,
                         !.args = c.args, !.order = order, !.dim = 0]
        BY <2>1 DEF FirstRequest
    <2>3. need \in BOOLEAN /\ (~need => si.nd = c.nd)
        OBVIOUS
    <2> HIDE DEF need, order
    <2>4. /\ Unchanged(t, si, {"hasPartition", "need", "req", "nd", "args", "order", "dim"})
          /\ t.hasPartition /\ t.need = need /\ t.req = granu /\ t.nd = c.nd
          /\ t.order = order /\ t.dim = 0
        BY ZenonT(40), <1>3, <2>2 DEF Unchanged, Shape, InfoFields
    <2>5. Shape(t)
        BY <1>1, <1>3, <2>3, <2>4 DEF Unchanged, Shape, InfoFields, order
    <2>6. ~t.partitionUnchanged /\ ~t.shifting
        BY <1>3, <2>4 DEF Unchanged, Shape, InfoFields, Rest
    <2>7. ~need => Rest(t)
        <3>1. t.dim < t.nd.work_dim
            BY <2>4, CallsAssumption, LaunchIs
        <3>2. QED BY <1>3, <2>3, <2>4, <3>1 DEF Unchanged, Shape, InfoFields, Rest, Ranges
    <2>8. QED BY <2>4, <2>5, <2>6, <2>7 DEF Asking
<1>4. QED BY <1>2, <1>3

-----------------------------------------------------------------------------
(* The inductive invariant.                                                *)

ForCall(si) == si.hasPartition /\ si.nd = call.nd

KeptOf(k) ==
    info[k] # NoInfo =>
       /\ Shape(info[k])
       /\ IF info[k].hasPartition THEN pc # "idle" /\ k = call.kernel ELSE Rest(info[k])

PhaseOf ==
    /\ pc = "idle" /\ call # NoCall => SI # NoInfo /\ SI.nd = call.nd
    /\ pc = "regions" => SI = NoInfo \/ ~SI.hasPartition \/ (ForCall(SI) /\ Asking(SI) /\ SI.need)
    /\ pc = "values" => SI # NoInfo /\ ForCall(SI) /\ IF SI.need THEN Analysing(SI) ELSE Rest(SI)
    /\ pc = "partition" => SI # NoInfo /\ ForCall(SI) /\ Rest(SI)
    /\ pc = "aborted" /\ ZeroOffsets => EndsInShift(SI)

SchedulerInv ==
    /\ DOMAIN info = DOMAIN Kernels
    /\ call \in Calls \cup {NoCall} /\ (pc # "idle" => call \in Calls)
    /\ \A k \in DOMAIN Kernels : KeptOf(k)
    /\ PhaseOf

\* A step that changes what is kept of the kernel of the launch alone.
Becomes(t, next) == /\ info' = [info EXCEPT ![call.kernel] = t] /\ pc' = next
                    /\ UNCHANGED <<call, calls>>

LEMMA OfCall ==
    ASSUME SchedulerInv, pc # "idle"
    PROVE  /\ call \in Calls /\ call.kernel \in DOMAIN info /\ Launchable(call.nd)
           /\ SI = NoInfo \/ Shape(SI)
BY CallsAssumption DEF SchedulerInv, KeptOf, SI

LEMMA BecomesInv ==
    ASSUME SchedulerInv, pc # "idle", NEW t, Shape(t), t.hasPartition, t.nd = call.nd,
           NEW next, Becomes(t, next),
           \/ next = "regions" /\ Asking(t) /\ t.need
           \/ next = "values" /\ IF t.need THEN Analysing(t) ELSE Rest(t)
           \/ next = "partition" /\ Rest(t)
           \/ next = "aborted" /\ (ZeroOffsets => EndsInShift(t))
    PROVE  SchedulerInv'
<1>1. /\ call \in Calls /\ call.kernel \in DOMAIN info
      /\ call' = call /\ pc' = next /\ info' = [info EXCEPT ![call.kernel] = t]
    BY OfCall DEF Becomes
<1>2. SI' = t
    BY <1>1 DEF SI
<1>3. next # "idle" /\ t # NoInfo
    BY OfShape
<1>4. ASSUME NEW k \in DOMAIN Kernels PROVE KeptOf(k)'
    <2>1. CASE k = call.kernel
        BY <1>1, <1>3, <2>1 DEF KeptOf
    <2>2. CASE k # call.kernel
        <3>1. info'[k] = info[k] /\ KeptOf(k)
            BY <1>1, <2>2 DEF SchedulerInv
        <3>2. info[k] # NoInfo => ~info[k].hasPartition
            BY <2>2, <3>1 DEF KeptOf
        <3>3. QED BY <3>1, <3>2 DEF KeptOf
    <2>3. QED BY <2>1, <2>2
<1>5. PhaseOf'
    BY <1>1, <1>2, <1>3 DEF PhaseOf, ForCall
<1>6. DOMAIN info' = DOMAIN Kernels
    BY <1>1 DEF SchedulerInv
<1>7. QED BY <1>1, <1>4, <1>5, <1>6 DEF SchedulerInv

\* The launch as it is asked for.
LEMMA AskedIs ==
    ASSUME SchedulerInv, pc = "regions", NEW asked \in Asked
    PROVE  /\ Shape(asked) /\ Asking(asked) /\ asked.nd = call.nd /\ asked.hasPartition
           /\ \/ SI # NoInfo /\ SI.hasPartition /\ SI.need /\ asked = SI
              \/ /\ SI = NoInfo \/ (Shape(SI) /\ Rest(SI) /\ ~SI.hasPartition)
                 /\ \E granu \in Requests, again \in BOOLEAN :
                      asked = FirstRequest(SI, call, granu, again)
<1>1. PhaseOf /\ call \in Calls /\ call.kernel \in DOMAIN Kernels /\ (SI = NoInfo \/ Shape(SI))
    BY OfCall DEF SchedulerInv
<1>2. CASE SI # NoInfo /\ SI.hasPartition
    <2>1. asked = SI
        BY <1>2 DEF Asked
    <2>2. QED BY <1>1, <1>2, <2>1 DEF PhaseOf, ForCall
<1>3. CASE SI = NoInfo \/ ~SI.hasPartition
    <2>1. SI = NoInfo \/ (Shape(SI) /\ Rest(SI) /\ ~SI.hasPartition)
        BY <1>1, <1>3 DEF SchedulerInv, KeptOf, SI
    <2>2. PICK granu \in Requests, again \in BOOLEAN : asked = FirstRequest(SI, call, granu, again)
        <3>1. CASE SI = NoInfo
            BY <3>1 DEF Asked
        <3>2. CASE SI # NoInfo
            <4>1. SI.req \in Requests
                BY <2>1, <3>2 DEF Shape
            <4>2. QED BY <1>3, <3>2, <4>1 DEF Asked
        <3>3. QED BY <3>1, <3>2
    <2>3. QED BY <1>1, <2>1, <2>2, FirstRequestAsks
<1>4. QED BY <1>2, <1>3

\* What getIndirectionRegions does of it.
Indirected(part) ==
    \/ Becomes(WithIndirections(part), "values")
    \/ BeyondParts(part) /\ Becomes(WithIndirections(part), "aborted")

Enters(si) ==
    LET ready == SingleDevice(AsRequested(si))
    IN  \/ ~si.need /\ Becomes(si, "values")
        \/ si.need /\ OutOfSubRanges(ready) /\ Becomes(ready, "aborted")
        \/ /\ si.need /\ ~OutOfSubRanges(ready)
           /\ Indirected(Prepared(ready, call))

LEMMA AskingCases ==
    ASSUME getIndirectionRegions
    PROVE  pc = "regions" /\ \E asked \in Asked : Enters(NeedsAnalysis(asked))
<1>1. pc = "regions" /\ UNCHANGED <<call, calls>>
    BY DEF getIndirectionRegions
<1>2. PICK asked \in Asked : \E si \in {NeedsAnalysis(asked)} :
       \/ /\ ~si.need
          /\ info' = [info EXCEPT ![call.kernel] = si]
          /\ pc' = "values"
       \/ /\ si.need
          /\ \E ready \in {SingleDevice(AsRequested(si))} :
               \/ /\ OutOfSubRanges(ready)
                  /\ info' = [info EXCEPT ![call.kernel] = ready]
                  /\ pc' = "aborted"
               \/ /\ ~OutOfSubRanges(ready)
                  /\ \E part \in IF ready.partitionUnchanged THEN {ready}
                                 ELSE {Instantiated(x, call) : x \in {Partitioned(ready, call)}} :
                       /\ info' = [info EXCEPT ![call.kernel] = WithIndirections(part)]
                       /\ pc' \in Reached(part, "values")
    BY DEF getIndirectionRegions
<1> DEFINE si == NeedsAnalysis(asked)
           ready == SingleDevice(AsRequested(si))
<1> HIDE DEF si
<1>3. \/ ~si.need /\ info' = [info EXCEPT ![call.kernel] = si] /\ pc' = "values"
      \/ /\ si.need /\ OutOfSubRanges(ready)
         /\ info' = [info EXCEPT ![call.kernel] = ready] /\ pc' = "aborted"
      \/ /\ si.need /\ ~OutOfSubRanges(ready)
         /\ \E part \in IF ready.partitionUnchanged THEN {ready}
                        ELSE {Instantiated(x, call) : x \in {Partitioned(ready, call)}} :
              /\ info' = [info EXCEPT ![call.kernel] = WithIndirections(part)]
              /\ pc' \in Reached(part, "values")
    BY <1>2 DEF si
<1>4. Enters(si)
    <2> HIDE DEF ready
    <2>1. \/ ~si.need /\ Becomes(si, "values")
          \/ si.need /\ OutOfSubRanges(ready) /\ Becomes(ready, "aborted")
          \/ si.need /\ ~OutOfSubRanges(ready) /\ Indirected(Prepared(ready, call))
        BY <1>1, <1>3 DEF Becomes, Prepared, Indirected, Reached
    <2>2. QED BY <2>1 DEF Enters, ready
<1>5. QED BY <1>1, <1>4 DEF si

LEMMA AskingStep ==
    ASSUME SchedulerInv, getIndirectionRegions
    PROVE  SchedulerInv'
<1>1. PICK asked \in Asked : Enters(NeedsAnalysis(asked))
    BY AskingCases
<1>2. pc = "regions"
    BY AskingCases
<1>3. Shape(asked) /\ Asking(asked) /\ asked.nd = call.nd /\ asked.hasPartition
    BY <1>2, AskedIs
<1> DEFINE si == NeedsAnalysis(asked)
           ready == SingleDevice(AsRequested(si))
<1>4. Shape(si) /\ Asking(si) /\ si.nd = call.nd /\ si.hasPartition
    BY <1>3, NeedsAnalysisIsAsking
<1> HIDE DEF si
<1>5. \/ ~si.need /\ Becomes(si, "values")
      \/ si.need /\ OutOfSubRanges(ready) /\ Becomes(ready, "aborted")
      \/ si.need /\ ~OutOfSubRanges(ready) /\ Indirected(Prepared(ready, call))
    BY <1>1 DEF si, Enters
<1>6. CASE ~si.need /\ Becomes(si, "values")
    <2>1. Rest(si)
        BY <1>4, <1>6 DEF Asking
    <2>2. QED BY <1>2, <1>4, <1>6, <2>1, BecomesInv
<1>7. CASE si.need /\ OutOfSubRanges(ready) /\ Becomes(ready, "aborted")
    <2>1. Shape(ready) /\ Ready(ready) /\ ready.nd = call.nd /\ ready.hasPartition
        BY <1>4, <1>7, ReadyIs
    <2> HIDE DEF ready
    <2>2. EndsInShift(ready)
        BY <1>7, <2>1, DroppedDevice
    <2>3. QED BY <1>2, <1>7, <2>1, <2>2, BecomesInv
<1>8. CASE si.need /\ ~OutOfSubRanges(ready) /\ Indirected(Prepared(ready, call))
    <2>1. Shape(ready) /\ Ready(ready) /\ ready.nd = call.nd /\ ready.hasPartition
        BY <1>4, <1>8, ReadyIs
    <2> DEFINE part == Prepared(ready, call)
               t == WithIndirections(part)
    <2> HIDE DEF ready
    <2>2. Shape(t) /\ Analysing(t) /\ t.need /\ t.nd = call.nd /\ t.hasPartition
        BY <1>8, <2>1, PreparedIsAnalysing
    <2>3. BeyondParts(part) => BeyondParts(t)
        BY <1>8, <2>1, PreparedIsAnalysing
    <2>4. Becomes(t, "values") \/ (BeyondParts(t) /\ Becomes(t, "aborted"))
        BY <1>8, <2>3 DEF Indirected
    <2> HIDE DEF t
    <2>5. BeyondParts(t) => EndsInShift(t)
        BY <2>2, NoneBeyond DEF EndsInShift
    <2>6. QED BY <1>2, <2>2, <2>4, <2>5, BecomesInv
<1>9. QED BY <1>5, <1>6, <1>7, <1>8

\* What setIndirectionValues analyses.
Valued(si) ==
    /\ Unchanged(si, SI, {"analysis", "partitionUnchanged"}) /\ DOMAIN si.analysis = AnalysisFields
    /\ si.analysis.subs = SI.analysis.subs /\ si.analysis.kernel = SI.analysis.kernel
    /\ si.partitionUnchanged \in BOOLEAN

LEMMA PerformAnalysisIs ==
    ASSUME NEW si, DOMAIN si = InfoFields, DOMAIN si.analysis = AnalysisFields,
           NEW t, t = [si EXCEPT !.analysis = performAnalysis(@)]
    PROVE  /\ Unchanged(t, si, {"analysis"}) /\ DOMAIN t.analysis = AnalysisFields
           /\ t.analysis.subs = si.analysis.subs /\ t.analysis.kernel = si.analysis.kernel
<1>1. /\ DOMAIN performAnalysis(si.analysis) = AnalysisFields
      /\ performAnalysis(si.analysis).subs = si.analysis.subs
      /\ performAnalysis(si.analysis).kernel = si.analysis.kernel
    <2> DEFINE regions == [arg \in DOMAIN si.analysis.kernel.args |->
           [kind \in Kinds |->
              [s \in SubKernels(si.analysis) |->
                 computeRegion(si.analysis, si.analysis.kernel.args[arg][kind], s)]]]
    <2>1. performAnalysis(si.analysis) = [si.analysis EXCEPT !.regions = regions]
        BY DEF performAnalysis
    <2> HIDE DEF regions
    <2>2. QED BY <2>1 DEF AnalysisFields
<1> DEFINE an == performAnalysis(si.analysis)
<1>2. t = [si EXCEPT !.analysis = an]
    OBVIOUS
<1> HIDE DEF an
<1>3. Unchanged(t, si, {"analysis"}) /\ t.analysis = an
    BY <1>2 DEF Unchanged, InfoFields
<1>4. QED BY <1>1, <1>3 DEF an

LEMMA ValuesCases ==
    ASSUME SchedulerInv, setIndirectionValues, EnableIndirections
    PROVE  /\ pc = "values" /\ SI # NoInfo /\ SI.hasPartition /\ Shape(SI) /\ SI.nd = call.nd
           /\ UNCHANGED <<call, calls>>
           /\ \/ ~SI.need /\ Becomes([SI EXCEPT !.partitionUnchanged = FALSE], "partition")
              \/ SI.need /\ BeyondParts(SI) /\ pc' = "aborted" /\ info' = info
              \/ SI.need /\ \E si : /\ Valued(si)
                                   /\ \/ si.partitionUnchanged /\ Becomes(si, "regions")
                                      \/ ~si.partitionUnchanged /\ Outcome(si)
<1>1. pc = "values" /\ PhaseOf /\ pc # "idle" /\ UNCHANGED <<call, calls>>
    BY DEF setIndirectionValues, SchedulerInv
<1>2. SI # NoInfo /\ SI.hasPartition /\ SI.nd = call.nd /\ Shape(SI)
    BY <1>1, OfCall DEF PhaseOf, ForCall
<1>3. CASE ~SI.need /\ Done([SI EXCEPT !.partitionUnchanged = FALSE])
    BY <1>1, <1>2, <1>3 DEF Done, Becomes
<1>4. CASE SI.need /\ \E si \in {WithValues(SI, call)} :
             \/ EnableIndirections /\ indirectionMissing(si.analysis) /\ Again(si)
             \/ /\ ~(EnableIndirections /\ indirectionMissing(si.analysis))
                /\ \E analysed \in {[si EXCEPT !.analysis = performAnalysis(@)]} : Outcome(analysed)
    <2> DEFINE si == WithValues(SI, call)
               a == [si EXCEPT !.analysis = performAnalysis(@)]
    <2>1. \/ indirectionMissing(si.analysis) /\ Again(si)
          \/ ~indirectionMissing(si.analysis) /\ Outcome(a)
        BY <1>4
    <2>2. /\ Unchanged(si, SI, {"analysis", "partitionUnchanged"}) /\ DOMAIN si.analysis = AnalysisFields
          /\ \A f \in AnalysisFields \ {"values"} : si.analysis[f] = SI.analysis[f]
          /\ si.partitionUnchanged = indirectionMissing(si.analysis)
        BY <1>2, WithValuesIs DEF Shape
    <2> HIDE DEF si
    <2>3. Valued(si)
        BY <2>2 DEF AnalysisFields, indirectionMissing, Valued
    <2>4. CASE indirectionMissing(si.analysis) /\ Again(si)
        <3>1. Becomes(si, "regions")
            BY <1>1, <2>4 DEF Again, Becomes
        <3>2. QED BY <1>1, <1>2, <1>4, <2>2, <2>3, <2>4, <3>1
    <2>5. CASE ~indirectionMissing(si.analysis) /\ Outcome(a)
        <3>1. DOMAIN si = InfoFields
            BY <1>2, <2>2 DEF Unchanged, Shape
        <3>2. /\ Unchanged(a, si, {"analysis"}) /\ DOMAIN a.analysis = AnalysisFields
              /\ a.analysis.subs = si.analysis.subs /\ a.analysis.kernel = si.analysis.kernel
            BY <2>2, <3>1, PerformAnalysisIs
        <3> HIDE DEF a
        <3>3. a.partitionUnchanged = FALSE
            BY <2>2, <2>5, <3>2 DEF Unchanged, InfoFields, indirectionMissing
        <3>4. Valued(a)
            BY <2>3, <3>2, <3>3 DEF Valued, Unchanged, InfoFields
        <3>5. QED BY <1>1, <1>2, <1>4, <2>5, <3>3, <3>4
    <2>6. QED BY <2>1, <2>4, <2>5
<1>5. CASE SI.need /\ BeyondParts(SI) /\ pc' = "aborted" /\ UNCHANGED info
    BY <1>1, <1>2, <1>5
<1>6. QED BY <1>3, <1>4, <1>5 DEF setIndirectionValues

LEMMA ValuedStays ==
    ASSUME SchedulerInv, pc = "values", SI.need, NEW si, Valued(si)
    PROVE  Shape(si) /\ Analysing(si) /\ si.need /\ si.nd = call.nd /\ si.hasPartition
<1>1. Analysing(SI) /\ SI # NoInfo /\ SI.hasPartition /\ SI.nd = call.nd /\ Shape(SI)
    BY OfCall DEF SchedulerInv, PhaseOf, ForCall
<1>2. QED BY <1>1, AnalysingStays DEF Valued

LEMMA ValuesStep ==
    ASSUME SchedulerInv, setIndirectionValues, EnableIndirections
    PROVE  SchedulerInv'
<1>1. /\ pc = "values" /\ SI.hasPartition /\ Shape(SI) /\ SI.nd = call.nd
      /\ UNCHANGED <<call, calls>>
    BY ValuesCases
<1>2. \/ ~SI.need /\ Becomes([SI EXCEPT !.partitionUnchanged = FALSE], "partition")
      \/ SI.need /\ BeyondParts(SI) /\ pc' = "aborted" /\ info' = info
      \/ SI.need /\ \E si : /\ Valued(si)
                           /\ \/ si.partitionUnchanged /\ Becomes(si, "regions")
                              \/ ~si.partitionUnchanged /\ Outcome(si)
    BY ValuesCases
<1>3. CASE ~SI.need /\ Becomes([SI EXCEPT !.partitionUnchanged = FALSE], "partition")
    <2> DEFINE t == [SI EXCEPT !.partitionUnchanged = FALSE]
    <2>1. Unchanged(t, SI, {"partitionUnchanged"}) /\ t.partitionUnchanged = FALSE
        BY <1>1 DEF Unchanged, Shape, InfoFields
    <2>2. Becomes(t, "partition")
        BY <1>3
    <2>3. Rest(SI)
        BY <1>1, <1>3 DEF SchedulerInv, PhaseOf
    <2> HIDE DEF t
    <2>4. Shape(t) /\ Rest(t) /\ t.hasPartition /\ t.nd = call.nd
        BY ZenonT(40), <1>1, <2>1, <2>3 DEF Unchanged, Shape, InfoFields, Rest, Ranges
    <2>5. QED BY <1>1, <2>2, <2>4, BecomesInv
<1>4. CASE SI.need /\ \E si : /\ Valued(si)
                             /\ \/ si.partitionUnchanged /\ Becomes(si, "regions")
                                \/ ~si.partitionUnchanged /\ Outcome(si)
    <2>1. PICK si : Valued(si) /\ (\/ si.partitionUnchanged /\ Becomes(si, "regions")
                                   \/ ~si.partitionUnchanged /\ Outcome(si))
        BY <1>4
    <2>2. Shape(si) /\ Analysing(si) /\ si.need /\ si.nd = call.nd /\ si.hasPartition
        BY <1>1, <1>4, <2>1, ValuedStays
    <2>3. CASE si.partitionUnchanged /\ Becomes(si, "regions")
        <3>1. Asking(si)
            BY <2>2, <2>3 DEF Asking
        <3>2. QED BY <1>1, <2>2, <2>3, <3>1, BecomesInv
    <2>4. CASE ~si.partitionUnchanged /\ Outcome(si)
        <3>1. PICK t : \/ Again(t) /\ AsksAgain(si, t)
                       \/ Done(t) /\ HandsOut(si, t)
            BY <2>2, <2>4, OutcomeIs
        <3>2. CASE Again(t) /\ AsksAgain(si, t)
            <4>1. Becomes(t, "regions")
                BY <1>1, <3>2 DEF Again, Becomes
            <4>2. QED BY <1>1, <2>2, <3>2, <4>1, BecomesInv DEF AsksAgain
        <3>3. CASE Done(t) /\ HandsOut(si, t)
            <4>1. Becomes(t, "partition")
                BY <1>1, <3>3 DEF Done, Becomes
            <4>2. QED BY <1>1, <2>2, <3>3, <4>1, BecomesInv DEF HandsOut
        <3>4. QED BY <3>1, <3>2, <3>3
    <2>5. QED BY <2>1, <2>3, <2>4
<1>5. CASE SI.need /\ BeyondParts(SI) /\ pc' = "aborted" /\ info' = info
    <2>1. EndsInShift(SI)
        <3>1. Analysing(SI)
            BY <1>1, <1>5 DEF SchedulerInv, PhaseOf
        <3>2. QED BY <1>1, <1>5, <3>1, NoneBeyond DEF EndsInShift
    <2>2. SI' = SI /\ call' = call /\ pc # "idle"
        BY <1>1, <1>5 DEF SI
    <2>3. \A k \in DOMAIN Kernels : KeptOf(k)'
        BY <1>5, <2>2 DEF SchedulerInv, KeptOf
    <2>4. PhaseOf'
        BY <1>5, <2>1, <2>2 DEF PhaseOf
    <2>5. QED BY <1>5, <2>2, <2>3, <2>4 DEF SchedulerInv
<1>6. QED BY <1>2, <1>3, <1>4, <1>5

LEMMA PartitionStep ==
    ASSUME SchedulerInv, getPartition
    PROVE  SchedulerInv'
<1>1. /\ pc = "partition" /\ PhaseOf /\ pc # "idle" /\ UNCHANGED <<call, calls>>
      /\ info' = [info EXCEPT ![call.kernel].hasPartition = FALSE]
      /\ pc' = IF GranuIntervalsInRange(SI) THEN "idle" ELSE "aborted"
    BY DEF getPartition, SchedulerInv
<1>2. SI # NoInfo /\ SI.hasPartition /\ SI.nd = call.nd /\ Rest(SI)
    BY <1>1 DEF PhaseOf, ForCall
<1>3. Shape(SI) /\ call \in Calls /\ call.kernel \in DOMAIN info
    BY <1>1, <1>2, OfCall
<1> DEFINE t == [SI EXCEPT !.hasPartition = FALSE]
<1>4. info' = [info EXCEPT ![call.kernel] = t]
    BY <1>1 DEF SI
<1>5. Unchanged(t, SI, {"hasPartition"}) /\ ~t.hasPartition
    BY <1>3 DEF Unchanged, Shape, InfoFields
<1> HIDE DEF t
<1>6. Shape(t) /\ Rest(t) /\ t.nd = call.nd /\ t # NoInfo
    <2>1. Shape(t) /\ Rest(t) /\ t.nd = call.nd
        BY <1>2, <1>3, <1>5 DEF Unchanged, Shape, InfoFields, Rest, Ranges
    <2>2. QED BY <2>1, OfShape
<1>7. SI' = t
    BY <1>1, <1>3, <1>4 DEF SI
<1>8. ASSUME NEW k \in DOMAIN Kernels PROVE KeptOf(k)'
    <2>1. CASE k = call.kernel
        BY <1>3, <1>4, <1>5, <1>6, <2>1 DEF KeptOf
    <2>2. CASE k # call.kernel
        <3>1. info'[k] = info[k] /\ KeptOf(k)
            BY <1>4, <2>2 DEF SchedulerInv
        <3>2. info[k] # NoInfo => ~info[k].hasPartition
            BY <2>2, <3>1 DEF KeptOf
        <3>3. QED BY <3>1, <3>2 DEF KeptOf
    <2>3. QED BY <2>1, <2>2
<1>9. PhaseOf'
    <2>1. ZeroOffsets => GranuIntervalsInRange(SI)
        BY <1>2, <1>3, RestInRange
    <2>2. QED BY <1>1, <1>6, <1>7, <2>1 DEF PhaseOf
<1>10. QED BY <1>1, <1>3, <1>4, <1>8, <1>9 DEF SchedulerInv

LEMMA LaunchStep ==
    ASSUME SchedulerInv, enqueueNDRangeKernel
    PROVE  SchedulerInv'
<1>1. pc = "idle" /\ pc' = "regions" /\ call' \in Calls /\ info' = info
    BY DEF enqueueNDRangeKernel
<1>2. ASSUME NEW k \in DOMAIN Kernels PROVE KeptOf(k)'
    <2>1. KeptOf(k)
        BY DEF SchedulerInv
    <2>2. QED BY <1>1, <2>1 DEF KeptOf
<1>3. SI' = NoInfo \/ ~SI'.hasPartition
    <2>1. call'.kernel \in DOMAIN Kernels
        BY <1>1, CallsAssumption
    <2>2. QED BY <1>1, <2>1 DEF SchedulerInv, KeptOf, SI
<1>4. PhaseOf'
    BY <1>1, <1>3 DEF PhaseOf
<1>5. QED BY <1>1, <1>2, <1>4 DEF SchedulerInv

\* No sub-kernel is without its launch: the invariant, for the option ENABLEINDIR,
\* which is set unless the user clears it.
LEMMA SchedulerInvHolds ==
    ASSUME EnableIndirections
    PROVE  Spec => []SchedulerInv
<1>1. Init => SchedulerInv
    BY DEF Init, SchedulerInv, KeptOf, PhaseOf
<1>2. SchedulerInv /\ [Next]_vars => SchedulerInv'
    <2> SUFFICES ASSUME SchedulerInv, [Next]_vars PROVE SchedulerInv'
        OBVIOUS
    <2>1. CASE UNCHANGED vars
        BY <2>1 DEF vars, SchedulerInv, KeptOf, PhaseOf, ForCall, SI
    <2>2. QED BY <2>1, AskingStep, ValuesStep, PartitionStep, LaunchStep DEF Next
<1>3. QED BY <1>1, <1>2, PTL DEF Spec

\* Every work item of a launch is run by a sub-kernel handed out for it, and by one only
\* unless the sub-kernels were widened.
THEOREM WorkItemsRun ==
    ASSUME EnableIndirections
    PROVE  Spec => []EveryWorkItemRuns
<1>1. ASSUME SchedulerInv PROVE EveryWorkItemRuns
    <2> SUFFICES ASSUME HandedOut PROVE
          /\ WorkItems(call.nd) = UNION {RunBy(i) : i \in SubKernelsOfCall}
          /\ \A i, j \in SubKernelsOfCall :
               i # j /\ RunBy(i) \cap RunBy(j) # {} =>
                 \E k \in SubKernelsOfCall : SI.subkernels[k].nd # SI.required[k]
        BY DEF EveryWorkItemRuns
    <2>1. pc = "idle" /\ call # NoCall /\ call \in Calls /\ call.kernel \in DOMAIN Kernels
        BY <1>1, CallsAssumption DEF HandedOut, SchedulerInv
    <2>2. SI # NoInfo /\ SI.nd = call.nd
        BY <1>1, <2>1 DEF SchedulerInv, PhaseOf
    <2>3. Shape(SI) /\ Rest(SI)
        BY <1>1, <2>1, <2>2 DEF SchedulerInv, KeptOf, SI
    <2>4. PICK d \in DOMAIN SI.nd.size : /\ Divided(SI.nd, d, SI.required)
                                         /\ Covers(SI.nd, d, SI.required, Ranges(SI))
        BY <2>3 DEF Rest
    <2> DEFINE subs == Ranges(SI)
    <2>5. Launchable(SI.nd)
        BY <2>3, OfShape
    <2>6. /\ WorkItems(SI.nd) = UNION {WorkItems(subs[i]) : i \in DOMAIN subs}
          /\ \A i, j \in DOMAIN subs :
               i # j /\ WorkItems(subs[i]) \cap WorkItems(subs[j]) # {} =>
                 \E k \in DOMAIN subs : subs[k] # SI.required[k]
        <3> HIDE DEF subs
        <3>1. Covers(SI.nd, d, SI.required, subs)
            BY <2>4 DEF subs
        <3>2. QED BY <2>4, <2>5, <3>1, CoversAll
    <2>7. DOMAIN subs = SubKernelsOfCall
          /\ \A i \in SubKernelsOfCall : subs[i] = SI.subkernels[i].nd /\ WorkItems(subs[i]) = RunBy(i)
        BY DEF Ranges, SubKernelsOfCall, RunBy
    <2> HIDE DEF subs
    <2>8. QED BY <2>2, <2>6, <2>7
<1>2. QED BY <1>1, SchedulerInvHolds, PTL

\* Local ids: a number of work groups more or less changes nothing.
LEMMA WithinGroup ==
    ASSUME NEW l \in Nat \ {0}, NEW q \in Nat, NEW x \in Nat, q * l <= x
    PROVE  (x - q * l) % l = x % l
<1> DEFINE y == x - q * l
           b == y \div l
           r == y % l
<1>1. q * l \in Nat /\ y \in Nat
    OBVIOUS
<1>2. x = q * l + y
    BY <1>1
<1> HIDE DEF y
<1>3. b \in Nat /\ r \in 0 .. l - 1 /\ y = l * b + r
    BY <1>1
<1> HIDE DEF b, r
<1>4. l * (q + b) = l * q + l * b
    BY <1>3, Distributes
<1>5. x = l * (q + b) + r
    <2>1. l * q \in Int /\ l * b \in Int /\ q * l = l * q /\ l * (q + b) \in Int
        BY <1>3
    <2>2. QED BY <1>2, <1>3, <1>4, <2>1
<1> DEFINE k == q + b
<1>6. k \in Nat
    BY <1>3
<1> HIDE DEF k
<1>7. x % l = r
    BY <1>3, <1>5, <1>6 DEF k
<1>8. QED BY <1>7 DEF r, y

\* A sub-kernel of a launch that begins at zero, cut between work groups.
LEMMA TransparentRun ==
    ASSUME NEW nd, Launchable(nd), NEW d \in DOMAIN nd.size, nd.offset[d] = 0,
           NEW part, NEW sub, Widens(nd, d, part, sub),
           part.offset[d] \in Nat, LastId(part, d) \in Int,
           NEW wi \in WorkItems(sub), NEW func \in Functions, NEW e \in 0 .. 2
    PROVE  Transformed(func, e, sub, NumGroups(nd, d), d, wi) = Builtin(func, e, nd, wi)
<1> DEFINE o == sub.offset[d]
           s == sub.size[d]
           any == sub.orig
           n == nd.work_dim
<1>1. /\ DOMAIN nd = {"work_dim", "orig", "size", "offset", "ls"}
      /\ n \in 1 .. 3 /\ DOMAIN nd.size = 0 .. n - 1 /\ DOMAIN nd.offset = 0 .. n - 1
      /\ nd.ls[d] \in Nat \ {0} /\ NumGroups(nd, d) * nd.ls[d] = nd.size[d]
    BY LaunchIs
<1>2. sub = [Part(nd, d, o, s) EXCEPT !.orig = any]
    BY DEF Widens
<1> HIDE DEF o, s, any
<1>3. /\ sub.work_dim = n /\ sub.ls = nd.ls
      /\ sub.offset = [nd.offset EXCEPT ![d] = o] /\ sub.size = [nd.size EXCEPT ![d] = s]
    BY <1>1, <1>2 DEF Part
<1>4. \A a \in 0 .. n - 1 : a # d => sub.offset[a] = nd.offset[a] /\ sub.size[a] = nd.size[a]
    BY <1>1, <1>3
<1>5. d \in 0 .. n - 1
    BY <1>1
<1>6. /\ wi \in WorkItems(nd) /\ o <= wi[d] /\ wi[d] \in Nat
    <2>1. wi \in WorkItems(nd) /\ o <= wi[d]
        BY WidenedItems DEF o
    <2>2. Range3(nd, n)
        <3>1. PICK m \in 1 .. 3 : nd \in NDRanges(m)
            BY DEF Launchable
        <3>2. nd.size \in [0 .. m - 1 -> Nat] /\ nd.offset \in [0 .. m - 1 -> Nat]
              /\ nd.work_dim = m
            BY <3>1 DEF NDRanges
        <3>3. QED BY <3>2 DEF Range3
    <2>3. wi \in [0 .. n - 1 -> Nat]
        BY <1>1, <2>1, <2>2, Items
    <2>4. QED BY <1>5, <2>1, <2>3
<1>7. CASE e # d
    <2>1. Transformed(func, e, sub, NumGroups(nd, d), d, wi) = Builtin(func, e, sub, wi)
        BY <1>7 DEF Transformed, Functions
    <2>2. CASE e >= n
        BY <1>3, <2>1, <2>2 DEF Builtin
    <2>3. CASE ~(e >= n)
        <3>1. e \in 0 .. n - 1
            BY <1>1, <2>3
        <3>2. sub.offset[e] = nd.offset[e] /\ sub.size[e] = nd.size[e] /\ sub.ls[e] = nd.ls[e]
            BY <1>3, <1>4, <1>7, <3>1
        <3>3. QED BY <1>3, <2>1, <3>2 DEF Builtin, NumGroups, Functions
    <2>4. QED BY <2>2, <2>3
<1>8. CASE e = d
    <2>1. ~(e >= n)
        BY <1>1, <1>5, <1>8
    <2>2. PICK q \in Nat : o = q * nd.ls[d]
        <3>1. PICK q \in Nat : o = nd.offset[d] + q * nd.ls[d]
            BY DEF Widens, BeginsGroup, o
        <3>2. q * nd.ls[d] \in Nat
            BY <1>1
        <3>3. QED BY <3>1, <3>2
    <2>3. (wi[d] - o) % nd.ls[d] = wi[d] % nd.ls[d]
        BY <1>1, <1>6, <2>2, WithinGroup
    <2>4. wi[d] - nd.offset[d] = wi[d]
        BY <1>6
    <2>5. sub.offset[d] = o
        BY DEF o
    <2>6. CASE func = "GET_GLOBAL_ID"
        BY <1>3, <1>8, <2>1, <2>6 DEF Transformed, Builtin
    <2>7. CASE func = "GET_LOCAL_ID"
        BY <1>3, <1>8, <2>1, <2>3, <2>4, <2>5, <2>7 DEF Transformed, Builtin
    <2>8. CASE func = "GET_GROUP_ID"
        BY <1>3, <1>8, <2>1, <2>4, <2>8 DEF Transformed, Builtin
    <2>9. CASE func = "GET_GLOBAL_SIZE"
        BY <1>1, <1>3, <1>8, <2>1, <2>9 DEF Transformed, Builtin
    <2>10. CASE func = "GET_LOCAL_SIZE"
        BY <1>3, <1>8, <2>1, <2>10 DEF Transformed, Builtin
    <2>11. CASE func = "GET_NUM_GROUPS"
        BY <1>8, <2>1, <2>11 DEF Transformed, Builtin
    <2>12. QED BY <2>6, <2>7, <2>8, <2>9, <2>10, <2>11 DEF Functions
<1>9. QED BY <1>7, <1>8

\* A work item cannot tell that it runs in a sub-kernel of a launch that begins at zero: a
\* sub-kernel handed out begins with a work group, and knows the launch it is part of.
THEOREM RunsAreTransparent ==
    ASSUME EnableIndirections, ZeroOffsets
    PROVE  Spec => []SplitIsTransparent
<1>1. ASSUME SchedulerInv PROVE SplitIsTransparent
    <2> SUFFICES ASSUME HandedOut, NEW i \in SubKernelsOfCall, NEW wi \in RunBy(i),
                        NEW func \in Functions, NEW e \in 0 .. 2
                 PROVE  Called(RunOf(SI.subkernels[i]), wi, func, e) = Builtin(func, e, call.nd, wi)
        BY DEF SplitIsTransparent
    <2> DEFINE sub == SI.subkernels[i].nd
    <2>1. /\ pc = "idle" /\ call \in Calls /\ call.kernel \in DOMAIN info
          /\ SI # NoInfo /\ SI.nd = call.nd
        BY <1>1, CallsAssumption DEF HandedOut, SchedulerInv, PhaseOf
    <2>2. Shape(SI) /\ Rest(SI)
        BY <1>1, <2>1 DEF SchedulerInv, KeptOf, SI
    <2>3. PICK d \in DOMAIN SI.nd.size :
               /\ Divided(SI.nd, d, SI.required)
               /\ Covers(SI.nd, d, SI.required, Ranges(SI))
               /\ \A k \in DOMAIN SI.subkernels : /\ SI.subkernels[k].splitdim = d
                                                 /\ SI.subkernels[k].numgroups = NumGroups(SI.nd, d)
        BY <2>2 DEF Rest
    <2>4. Launchable(SI.nd) /\ SI.nd.offset[d] = 0
        <3>1. Launchable(SI.nd)
            BY <2>2, OfShape
        <3>2. d \in DOMAIN call.nd.offset
            BY <2>1, <3>1, LaunchIs
        <3>3. QED BY <2>1, <3>1, <3>2 DEF ZeroOffsets
    <2>5. i \in DOMAIN SI.required /\ Widens(SI.nd, d, SI.required[i], sub)
        BY <2>3 DEF SubKernelsOfCall, Covers, Ranges
    <2>6. SI.required[i].offset[d] \in Nat /\ LastId(SI.required[i], d) \in Int
        <3>1. SI.required[i].offset[d] \in Nat /\ SI.required[i].size[d] \in Nat
            BY <2>3, <2>5 DEF Divided
        <3>2. QED BY <3>1 DEF LastId
    <2>7. wi \in WorkItems(sub)
        BY DEF RunBy
    <2> HIDE DEF sub
    <2>8. Transformed(func, e, sub, NumGroups(SI.nd, d), d, wi) = Builtin(func, e, SI.nd, wi)
        BY <2>3, <2>4, <2>5, <2>6, <2>7, TransparentRun
    <2>9. QED BY <2>1, <2>3, <2>8 DEF Called, RunOf, SubKernelsOfCall, sub
<1>2. QED BY <1>1, SchedulerInvHolds, PTL

\* Of launches that begin at zero, none ends the program but one that is being shifted,
\* after the adaptation of its request has dropped a device or with fewer parts to analyse
\* than it has devices: the vectors that are read by device are long enough for all others.
THEOREM AbortsAreOfShifts ==
    ASSUME EnableIndirections, ZeroOffsets
    PROVE  Spec => []AbortsOnlyInShifts
<1>1. SchedulerInv => AbortsOnlyInShifts
    BY DEF SchedulerInv, PhaseOf, EndsInShift, AbortsOnlyInShifts
<1>2. QED BY <1>1, SchedulerInvHolds, PTL

-----------------------------------------------------------------------------
(* What is handed out holds what the sub-kernels read.                     *)

\* The data of a sub-kernel hold what its work items read and what it writes.
DataCovers(c, data, run) ==
    \A a \in DOMAIN Kernels[c.kernel].args :
      /\ \A wi \in WorkItems(run.nd) : \A e \in AccessedIn(c, a, "load", run, wi) :
           Includes(data[a].required, e)
      /\ \A e \in data[a].written.elements : Includes(data[a].required, e)

Supplied(si, c) ==
    \A i \in DOMAIN si.subkernels : DataCovers(c, si.data[i], RunOf(si.subkernels[i]))

\* A result is in the written region of a device, and of none that has not run all the
\* work items storing to it.
ResultsKept(si, c) ==
    \A a \in DOMAIN Kernels[c.kernel].args, i \in DOMAIN si.subkernels :
      \A wi \in WorkItems(si.subkernels[i].nd) :
        /\ \A e \in AccessedIn(c, a, "store", RunOf(si.subkernels[i]), wi) :
             /\ \E j \in DOMAIN si.subkernels : Includes(si.data[j][a].written, e)
             /\ \A j \in DOMAIN si.subkernels :
                  Includes(si.data[j][a].written, e) => wi \in WorkItems(si.subkernels[j].nd)
        /\ \A r \in Reductions : \A e \in AccessedIn(c, a, r, RunOf(si.subkernels[i]), wi) :
             \/ Includes(si.data[i][a].accumulated[r], e)
             \/ Includes(si.data[i][a].written, e)

RestCovers(si, c) ==
    Supplied(si, c) /\ (Unwidened(si) /\ OrBoundsFound(si.analysis) => ResultsKept(si, c))

\* Without shifts a device keeps what its own work items write, and nothing else.
KeepsOwn(c, data, D, i, run) ==
    \A a \in DOMAIN Kernels[c.kernel].args : \A wi \in WorkItems(run.nd) :
      /\ \A e \in AccessedIn(c, a, "store", run, wi) :
           /\ Includes(data[i][a].written, e)
           /\ \A j \in D : Includes(data[j][a].written, e) => j = i
      /\ \A r \in Reductions : \A e \in AccessedIn(c, a, r, run, wi) :
           Includes(data[i][a].accumulated[r], e) \/ Includes(data[i][a].written, e)

\* The first n devices have been shifted.
ShiftCovers(si, c, n) ==
    \A i \in 1 .. n : DataCovers(c, si.shiftData[i], RunAs(si, si.shifted[i]))

\* The sub-range analysed for the device shifted is its own, and is not the part it was
\* asked to run.
ShiftedIs(si) ==
    /\ si.shiftedId \in DOMAIN si.analysis.subs
    /\ si.analysis.subs[si.shiftedId] = si.shifted[si.shiftingDevice]
    /\ si.shifted[si.shiftingDevice] # si.required[si.shiftingDevice]

Covering(si, c) ==
    si.shifting => /\ DOMAIN si.shiftData = 1 .. Len(si.req)
                   /\ ShiftCovers(si, c, si.shiftingDevice - 1)
                   /\ si.partitionUnchanged => ShiftedIs(si)

\* The regions found are those of the launch c.
SoundFor(si, c) ==
    \A a \in DOMAIN Kernels[c.kernel].args, kind \in Kinds, s \in SubKernels(si.analysis) :
      si.analysis.regions[a][kind][s].known =>
        \A wi \in WorkItems(si.analysis.subs[s]) :
          AccessedIn(c, a, kind, RunAs(si, si.analysis.subs[s]), wi) \subseteq
            Region(si.analysis, a, kind, s)

\* The kernel analysed has the arguments and the indirections of its code.
KernelIs(si, k) ==
    /\ DOMAIN si.analysis.kernel.args = DOMAIN Kernels[k].args
    /\ \A a \in DOMAIN Kernels[k].args :
         DOMAIN si.analysis.kernel.args[a]["store"] = DOMAIN Kernels[k].args[a]["store"]
    /\ DOMAIN si.analysis.kernel.indirections = DOMAIN Kernels[k].indirections

\* Without indirections two launches that differ in the index arrays access the same.
LEMMA SameAccesses ==
    ASSUME NEW c, NEW b, b.kernel = c.kernel, b.args = c.args,
           DOMAIN Kernels[c.kernel].indirections = {},
           NEW a, NEW kind, NEW run, NEW wi
    PROVE  AccessedIn(b, a, kind, run, wi) = AccessedIn(c, a, kind, run, wi)
<1> DEFINE indirections == Kernels[c.kernel].indirections
           Read(l) == [no \in DOMAIN indirections |-> ReadIn(run, wi, l, indirections[no])]
           Passes(g, args, read) == \A v \in ValuesIn(run, wi, g.expr, args, read) :
                                      Compares(g.pred, Called(run, wi, g.func, g.dim), v)
           T(access, args, read) ==
             IF \A i \in DOMAIN access.guards : Passes(access.guards[i], args, read)
             THEN ValuesIn(run, wi, access.expr, args, read) ELSE {}
<1>1. \A access : Touched(c, access, run, wi) = T(access, c.args, Read(c))
    BY DEF Touched
<1>2. \A access : Touched(b, access, run, wi) = T(access, b.args, Read(b))
    BY DEF Touched
<1>3. Read(b) = Read(c)
    OBVIOUS
<1> HIDE DEF T, Read
<1>4. \A access : Touched(b, access, run, wi) = Touched(c, access, run, wi)
    BY <1>1, <1>2, <1>3
<1>5. QED BY <1>4 DEF AccessedIn

LEMMA SameLaunch ==
    ASSUME NEW c, NEW b, b.kernel = c.kernel, b.args = c.args,
           DOMAIN Kernels[c.kernel].indirections = {}, NEW si, RestCovers(si, b)
    PROVE  RestCovers(si, c)
<1>1. ASSUME NEW data, NEW run, DataCovers(b, data, run) PROVE DataCovers(c, data, run)
    BY <1>1, SameAccesses DEF DataCovers
<1>2. Supplied(si, c)
    BY <1>1 DEF RestCovers, Supplied
<1>3. ASSUME ResultsKept(si, b), NEW a \in DOMAIN Kernels[c.kernel].args,
             NEW i \in DOMAIN si.subkernels, NEW wi \in WorkItems(si.subkernels[i].nd),
             NEW run, run = RunOf(si.subkernels[i])
      PROVE  /\ \A e \in AccessedIn(c, a, "store", run, wi) :
                  /\ \E j \in DOMAIN si.subkernels : Includes(si.data[j][a].written, e)
                  /\ \A j \in DOMAIN si.subkernels :
                       Includes(si.data[j][a].written, e) => wi \in WorkItems(si.subkernels[j].nd)
             /\ \A r \in Reductions : \A e \in AccessedIn(c, a, r, run, wi) :
                  \/ Includes(si.data[i][a].accumulated[r], e)
                  \/ Includes(si.data[i][a].written, e)
    <2>1. /\ \A e \in AccessedIn(b, a, "store", run, wi) :
               /\ \E j \in DOMAIN si.subkernels : Includes(si.data[j][a].written, e)
               /\ \A j \in DOMAIN si.subkernels :
                    Includes(si.data[j][a].written, e) => wi \in WorkItems(si.subkernels[j].nd)
          /\ \A r \in Reductions : \A e \in AccessedIn(b, a, r, run, wi) :
               \/ Includes(si.data[i][a].accumulated[r], e)
               \/ Includes(si.data[i][a].written, e)
        BY <1>3 DEF ResultsKept
    <2>2. AccessedIn(b, a, "store", run, wi) = AccessedIn(c, a, "store", run, wi)
        BY SameAccesses
    <2>3. \A r \in Reductions : AccessedIn(b, a, r, run, wi) = AccessedIn(c, a, r, run, wi)
        BY SameAccesses
    <2>4. QED BY <2>1, <2>2, <2>3
<1>4. ResultsKept(si, b) => ResultsKept(si, c)
    BY <1>3 DEF ResultsKept
<1>5. QED BY <1>2, <1>4 DEF RestCovers

\* What is handed out depends on the sub-kernels, their data, the parts and the analysis.
LEMMA RestStays ==
    ASSUME NEW si, NEW t, NEW c, RestCovers(si, c),
           t.subkernels = si.subkernels, t.data = si.data, t.required = si.required,
           t.analysis = si.analysis
    PROVE  RestCovers(t, c)
    BY DEF RestCovers, Supplied, ResultsKept, Unwidened

-----------------------------------------------------------------------------
(* The data of a sub-kernel, from the regions of its analysis.             *)

LEMMA MultiCovers ==
    ASSUME NEW si, NEW c, SoundFor(si, c), KernelIs(si, c.kernel), NEW i \in SubKernels(si.analysis)
    PROVE  DataCovers(c, [a \in Arguments(si.analysis) |-> MultiData(si.analysis, a, i)],
                      RunAs(si, si.analysis.subs[i]))
<1> DEFINE an == si.analysis
           data == [a \in Arguments(an) |-> MultiData(an, a, i)]
           run == RunAs(si, an.subs[i])
<1>1. run.nd = an.subs[i]
    BY DEF RunAs
<1> HIDE DEF run
<1>2. ASSUME NEW a \in DOMAIN Kernels[c.kernel].args
      PROVE  /\ \A wi \in WorkItems(run.nd) : \A e \in AccessedIn(c, a, "load", run, wi) :
                  Includes(data[a].required, e)
             /\ \A e \in data[a].written.elements : Includes(data[a].required, e)
    <2> DEFINE known == BoundsComputed(an, a, "load") /\ BoundsComputed(an, a, "atomicSum")
               loaded == Region(an, a, "load", i)
               written == WrittenRegion(an, a, i)
               others == UNION {[q \in Reductions |-> Region(an, a, q, i)][r] : r \in Reductions}
               all == loaded \cup written \cup MergeRegion(an, a) \cup others
    <2>1. a \in Arguments(an)
        BY DEF KernelIs, Arguments
    <2>2. data[a] = MultiData(an, a, i)
        BY <2>1
    <2>3. MultiData(an, a, i).required = RegionOf(all, known)
          /\ MultiData(an, a, i).written = Only(written)
        BY DEF MultiData
    <2>4. known => \A wi \in WorkItems(run.nd) : AccessedIn(c, a, "load", run, wi) \subseteq loaded
        <3>1. known => an.regions[a]["load"][i].known
            BY DEF BoundsComputed
        <3>2. "load" \in Kinds
            BY DEF Kinds
        <3>3. QED BY <1>1, <3>1, <3>2 DEF SoundFor, run
    <2> HIDE DEF known, loaded, written, others, data
    <2>5. \A e : e \in all \/ ~known => Includes(data[a].required, e)
        BY <2>2, <2>3 DEF RegionOf, Only, Undefined, Includes
    <2>6. data[a].written.elements = written
        BY <2>2, <2>3 DEF Only
    <2>7. QED BY <2>4, <2>5, <2>6
<1>3. QED BY <1>2 DEF DataCovers, run

LEMMA SingleCovers ==
    ASSUME NEW si, NEW c, SoundFor(si, c), KernelIs(si, c.kernel), 1 \in SubKernels(si.analysis)
    PROVE  DataCovers(c, [a \in Arguments(si.analysis) |-> SingleData(si.analysis, a)],
                      RunAs(si, si.analysis.subs[1]))
<1> DEFINE an == si.analysis
           data == [a \in Arguments(an) |-> SingleData(an, a)]
           run == RunAs(si, an.subs[1])
<1>1. run.nd = an.subs[1]
    BY DEF RunAs
<1> HIDE DEF run
<1>2. ASSUME NEW a \in DOMAIN Kernels[c.kernel].args
      PROVE  /\ \A wi \in WorkItems(run.nd) : \A e \in AccessedIn(c, a, "load", run, wi) :
                  Includes(data[a].required, e)
             /\ \A e \in data[a].written.elements : Includes(data[a].required, e)
    <2> DEFINE writes == Kinds \ {"load"}
               known == \A kind \in writes : BoundsComputed(an, a, kind)
               both == known /\ BoundsComputed(an, a, "load")
               written == IF known THEN UNION {Region(an, a, kind, 1) : kind \in writes} ELSE {}
               loaded == IF known THEN Region(an, a, "load", 1) ELSE {}
    <2>1. a \in Arguments(an)
        BY DEF KernelIs, Arguments
    <2>2. data[a] = SingleData(an, a)
        BY <2>1
    <2>3. SingleData(an, a).required = RegionOf(loaded \cup written, both)
          /\ SingleData(an, a).written = RegionOf(written, known)
        BY DEF SingleData
    <2>4. both => \A wi \in WorkItems(run.nd) : AccessedIn(c, a, "load", run, wi) \subseteq loaded
        <3>1. both => an.regions[a]["load"][1].known
            BY DEF BoundsComputed
        <3>2. "load" \in Kinds
            BY DEF Kinds
        <3>3. both => loaded = Region(an, a, "load", 1)
            OBVIOUS
        <3> HIDE DEF both, loaded
        <3>4. QED BY <1>1, <3>1, <3>2, <3>3 DEF SoundFor, run
    <2> HIDE DEF both, known, loaded, written, data
    <2>5. \A e : e \in loaded \cup written \/ ~both => Includes(data[a].required, e)
        BY <2>2, <2>3 DEF RegionOf, Only, Undefined, Includes
    <2>6. data[a].written.elements = written
        BY <2>2, <2>3 DEF RegionOf, Only, Undefined
    <2>7. QED BY <2>4, <2>5, <2>6
<1>3. QED BY <1>2 DEF DataCovers, run

LEMMA ShiftedCovers ==
    ASSUME NEW si, NEW c, SoundFor(si, c), KernelIs(si, c.kernel), ShiftedIs(si)
    PROVE  DataCovers(c, [a \in Arguments(si.analysis) |-> ShiftedData(si, a)],
                      RunAs(si, si.shifted[si.shiftingDevice]))
<1> DEFINE an == si.analysis
           s == si.shiftedId
           data == [a \in Arguments(an) |-> ShiftedData(si, a)]
           run == RunAs(si, an.subs[s])
<1>1. run.nd = an.subs[s] /\ s \in SubKernels(an)
      /\ run = RunAs(si, si.shifted[si.shiftingDevice])
    BY DEF RunAs, ShiftedIs, SubKernels
<1> HIDE DEF run
<1>2. ASSUME NEW a \in DOMAIN Kernels[c.kernel].args
      PROVE  /\ \A wi \in WorkItems(run.nd) : \A e \in AccessedIn(c, a, "load", run, wi) :
                  Includes(data[a].required, e)
             /\ \A e \in data[a].written.elements : Includes(data[a].required, e)
    <2> DEFINE known == BoundsComputed(an, a, "load") /\ BoundsComputed(an, a, "atomicSum")
               loaded == Region(an, a, "load", s)
               written == si.shiftData[si.shiftingDevice][a].written.elements
                            \cup WrittenRegion(an, a, s)
               others == UNION {[q \in Reductions |-> Region(an, a, q, s)][r] : r \in Reductions}
               all == loaded \cup written \cup others
    <2>1. a \in Arguments(an)
        BY DEF KernelIs, Arguments
    <2>2. data[a] = ShiftedData(si, a)
        BY <2>1
    <2>3. ShiftedData(si, a).required = RegionOf(all, known)
          /\ ShiftedData(si, a).written = Only(written)
        BY DEF ShiftedData
    <2>4. known => \A wi \in WorkItems(run.nd) : AccessedIn(c, a, "load", run, wi) \subseteq loaded
        <3>1. known => an.regions[a]["load"][s].known
            BY <1>1 DEF BoundsComputed
        <3>2. "load" \in Kinds
            BY DEF Kinds
        <3>3. QED BY <1>1, <3>1, <3>2 DEF SoundFor, run
    <2> HIDE DEF known, loaded, written, others, data
    <2>5. \A e : e \in all \/ ~known => Includes(data[a].required, e)
        BY <2>2, <2>3 DEF RegionOf, Only, Undefined, Includes
    <2>6. data[a].written.elements = written
        BY <2>2, <2>3 DEF Only
    <2>7. QED BY <2>4, <2>5, <2>6
<1>3. QED BY <1>1, <1>2 DEF DataCovers, run

\* A single device keeps everything, in a region that is undefined when some of it is
\* not known.
LEMMA SingleKeeps ==
    ASSUME NEW si, NEW c, SoundFor(si, c), KernelIs(si, c.kernel), 1 \in SubKernels(si.analysis),
           NEW data, data = <<[a \in Arguments(si.analysis) |-> SingleData(si.analysis, a)]>>
    PROVE  KeepsOwn(c, data, {1}, 1, RunAs(si, si.analysis.subs[1]))
<1> DEFINE an == si.analysis
           run == RunAs(si, an.subs[1])
<1>1. run.nd = an.subs[1]
    BY DEF RunAs
<1> HIDE DEF run
<1>2. ASSUME NEW a \in DOMAIN Kernels[c.kernel].args, NEW wi \in WorkItems(run.nd),
             NEW kind \in Kinds \ {"load"}, NEW e \in AccessedIn(c, a, kind, run, wi)
      PROVE  Includes(data[1][a].written, e)
    <2> DEFINE writes == Kinds \ {"load"}
               known == \A r \in writes : BoundsComputed(an, a, r)
               written == IF known THEN UNION {Region(an, a, r, 1) : r \in writes} ELSE {}
    <2>1. a \in Arguments(an)
        BY DEF KernelIs, Arguments
    <2>2. data[1][a].written = RegionOf(written, known)
        BY <2>1 DEF SingleData
    <2>3. known => e \in written
        <3>1. known => an.regions[a][kind][1].known
            BY DEF BoundsComputed
        <3>2. known => e \in Region(an, a, kind, 1)
            BY <1>1, <3>1 DEF SoundFor, run
        <3>3. QED BY <3>2
    <2> HIDE DEF known, written
    <2>4. QED BY <2>2, <2>3 DEF RegionOf, Only, Undefined, Includes
<1>3. "store" \in Kinds \ {"load"} /\ Reductions \subseteq Kinds \ {"load"}
    BY DEF Kinds, Reductions
<1>4. QED BY <1>2, <1>3 DEF KeepsOwn, run

\* Several devices keep what they store when no two regions overlap, and contribute what
\* they accumulate.
LEMMA MultiKeeps ==
    ASSUME NEW si, NEW c, SoundFor(si, c), KernelIs(si, c.kernel),
           NEW n \in Nat, SubKernels(si.analysis) = 1 .. n, NEW i \in 1 .. n,
           Status(si.analysis) = "SUCCESS", OrBoundsFound(si.analysis),
           NEW data, data = [j \in 1 .. n |->
                               [a \in Arguments(si.analysis) |-> MultiData(si.analysis, a, j)]]
    PROVE  KeepsOwn(c, data, 1 .. n, i, RunAs(si, si.analysis.subs[i]))
<1> DEFINE an == si.analysis
           run == RunAs(si, an.subs[i])
<1>1. run.nd = an.subs[i]
    BY DEF RunAs
<1> HIDE DEF run
<1>2. ASSUME NEW a \in DOMAIN Kernels[c.kernel].args
      PROVE  /\ a \in Arguments(an) /\ ~ArgumentFails(an, a) /\ Overlap(an, a) = {}
             /\ \A j \in 1 .. n : data[j][a].written = Only(Region(an, a, "store", j))
             /\ \A r \in Reductions :
                  data[i][a].accumulated[r] =
                    RegionOf(Region(an, a, r, i), r # "atomicSum" \/ BoundsComputed(an, a, r))
    <2>1. a \in Arguments(an)
        BY DEF KernelIs, Arguments
    <2>2. ~ArgumentFails(an, a) /\ ~ArgumentMerges(an, a)
        BY <2>1 DEF Status
    <2>3. Overlap(an, a) = {} /\ MergeRegion(an, a) = {}
        BY <2>2 DEF ArgumentMerges, MergeRegion
    <2>4. ASSUME NEW j \in 1 .. n
          PROVE  data[j][a].written = Only(Region(an, a, "store", j))
        <3>1. data[j][a] = MultiData(an, a, j)
            BY <2>1
        <3>2. MultiData(an, a, j).written = Only(WrittenRegion(an, a, j))
            BY DEF MultiData
        <3>3. WrittenRegion(an, a, j) = Region(an, a, "store", j)
            BY <2>3 DEF WrittenRegion
        <3>4. QED BY <3>1, <3>2, <3>3
    <2>5. ASSUME NEW r \in Reductions
          PROVE  data[i][a].accumulated[r] =
                   RegionOf(Region(an, a, r, i), r # "atomicSum" \/ BoundsComputed(an, a, r))
        <3>1. data[i][a] = MultiData(an, a, i)
            BY <2>1
        <3>2. QED BY <3>1 DEF MultiData
    <2>6. QED BY <2>1, <2>2, <2>3, <2>4, <2>5
<1>3. ASSUME NEW a \in DOMAIN Kernels[c.kernel].args, NEW wi \in WorkItems(run.nd),
             NEW e \in AccessedIn(c, a, "store", run, wi)
      PROVE  /\ Includes(data[i][a].written, e)
             /\ \A j \in 1 .. n : Includes(data[j][a].written, e) => j = i
    <2>1. BoundsComputed(an, a, "store")
        <3>1. Kernels[c.kernel].args[a]["store"] # << >>
            BY DEF AccessedIn
        <3>2. DOMAIN an.kernel.args[a]["store"] # {}
            BY DEF AccessedIn, KernelIs
        <3>3. an.kernel.args[a]["store"] # << >>
            BY <3>2
        <3>4. QED BY <1>2, <3>3 DEF ArgumentFails
    <2>2. e \in Region(an, a, "store", i)
        <3>1. an.regions[a]["store"][i].known /\ "store" \in Kinds
            BY <2>1 DEF BoundsComputed, Kinds
        <3>2. QED BY <1>1, <3>1 DEF SoundFor, run
    <2>3. ASSUME NEW j \in 1 .. n, e \in Region(an, a, "store", j) PROVE j = i
        <3> SUFFICES ASSUME j # i PROVE FALSE
            OBVIOUS
        <3> DEFINE R(s) == Region(an, a, "store", s)
                   both == R(i) \cap R(j)
        <3>1. \/ <<i, j>> \in {q \in SubKernels(an) \X SubKernels(an) : q[1] < q[2]}
              \/ <<j, i>> \in {q \in SubKernels(an) \X SubKernels(an) : q[1] < q[2]}
            OBVIOUS
        <3>2. e \in Overlap(an, a)
            BY <2>2, <2>3, <3>1 DEF Overlap
        <3>3. QED BY <1>2, <3>2
    <2>4. ASSUME NEW j \in 1 .. n
          PROVE  Includes(data[j][a].written, e) <=> e \in Region(an, a, "store", j)
        <3>1. data[j][a].written = Only(Region(an, a, "store", j))
            BY <1>2
        <3>2. QED BY <3>1 DEF Only, Includes
    <2>5. QED BY <2>2, <2>3, <2>4
<1>4. ASSUME NEW a \in DOMAIN Kernels[c.kernel].args, NEW wi \in WorkItems(run.nd),
             NEW r \in Reductions, NEW e \in AccessedIn(c, a, r, run, wi)
      PROVE  Includes(data[i][a].accumulated[r], e)
    <2> DEFINE known == BoundsComputed(an, a, r)
    <2>1. r # "atomicSum" => known
        BY <1>2 DEF ArgumentFails, OrBoundsFound, Reductions
    <2>2. known => e \in Region(an, a, r, i)
        <3>1. known => an.regions[a][r][i].known
            BY DEF BoundsComputed
        <3>2. r \in Kinds
            BY DEF Kinds, Reductions
        <3>3. QED BY <1>1, <3>1, <3>2 DEF SoundFor, run
    <2>3. data[i][a].accumulated[r] = RegionOf(Region(an, a, r, i), r # "atomicSum" \/ known)
        BY <1>2
    <2> HIDE DEF known
    <2>4. QED BY <2>1, <2>2, <2>3 DEF RegionOf, Only, Undefined, Includes
<1>5. QED BY <1>3, <1>4 DEF KeepsOwn, run

-----------------------------------------------------------------------------
(* Through the steps of the scheduler.                                     *)

\* A range is run the same for t as for si.
LEMMA SameRun ==
    ASSUME NEW si, NEW t, t.orig = si.orig, t.order = si.order, t.dim = si.dim, NEW nd
    PROVE  RunAs(t, nd) = RunAs(si, nd)
BY DEF RunAs, splitDimension

LEMMA SoundStays ==
    ASSUME NEW si, NEW t, t.orig = si.orig, t.order = si.order, t.dim = si.dim,
           t.analysis = si.analysis, NEW c, SoundFor(t, c)
    PROVE  SoundFor(si, c)
<1>1. \A nd : RunAs(t, nd) = RunAs(si, nd)
    BY SameRun
<1>2. ASSUME NEW a \in DOMAIN Kernels[c.kernel].args, NEW kind \in Kinds,
             NEW s \in SubKernels(si.analysis), si.analysis.regions[a][kind][s].known,
             NEW wi \in WorkItems(si.analysis.subs[s])
      PROVE  AccessedIn(c, a, kind, RunAs(si, si.analysis.subs[s]), wi) \subseteq
               Region(si.analysis, a, kind, s)
    <2>1. AccessedIn(c, a, kind, RunAs(t, t.analysis.subs[s]), wi) \subseteq
            Region(t.analysis, a, kind, s)
        BY <1>2 DEF SoundFor
    <2>2. RunAs(t, t.analysis.subs[s]) = RunAs(si, si.analysis.subs[s])
        BY <1>1
    <2>3. QED BY <2>1, <2>2
<1>3. QED BY <1>2 DEF SoundFor

LEMMA CoveringStays ==
    ASSUME NEW si, NEW c, Covering(si, c), NEW t,
           Unchanged(t, si, {"hasPartition", "need", "real", "analysis", "partitionUnchanged"}),
           t.analysis.subs = si.analysis.subs, t.partitionUnchanged => si.partitionUnchanged
    PROVE  Covering(t, c)
<1>1. /\ t.orig = si.orig /\ t.order = si.order /\ t.dim = si.dim
      /\ t.shifting = si.shifting /\ t.shiftData = si.shiftData /\ t.req = si.req
      /\ t.shiftingDevice = si.shiftingDevice /\ t.shifted = si.shifted
      /\ t.shiftedId = si.shiftedId /\ t.required = si.required
    BY DEF Unchanged, InfoFields
<1>2. \A nd : RunAs(t, nd) = RunAs(si, nd)
    BY <1>1, SameRun
<1>3. \A n : ShiftCovers(si, c, n) => ShiftCovers(t, c, n)
    BY <1>1, <1>2 DEF ShiftCovers
<1>4. ShiftedIs(si) => ShiftedIs(t)
    BY <1>1 DEF ShiftedIs
<1>5. QED BY <1>1, <1>3, <1>4 DEF Covering

\* The partition of a shifted device is its widened sub-range and what is beside it.
LEMMA ShiftPartitionCovers ==
    ASSUME NEW si, Shape(si), Ready(si), ~si.partitionUnchanged, si.shifting, ~OutOfSubRanges(si),
           NEW c, Covering(si, c), NEW t, t = ShiftPartition(si)
    PROVE  Covering(t, c)
<1> DEFINE d == splitDimension(si)
           k == si.shiftingDevice
           subs == ShiftSubs(si)
           mid == ShiftId(si)
<1>1. Cut(si) /\ Shifting(si)
    BY DEF Ready
<1>2. /\ Launchable(si.nd) /\ d \in DOMAIN si.nd.size /\ Divided(si.nd, d, si.required)
      /\ si.orig = si.nd /\ si.shiftingWgs \in Nat /\ DOMAIN si.shifted = DOMAIN si.required
      /\ k \in 1 .. Len(si.req) /\ Len(si.req) \in Nat
    BY <1>1, OfShape DEF Cut, Shifting, Covers
<1>3. k \in DOMAIN si.required
    <2>1. Len(si.required) \in Nat /\ DOMAIN si.required = 1 .. Len(si.required)
        BY <1>2 DEF Divided
    <2>2. k <= Len(si.required)
        BY <1>2, <2>1 DEF OutOfSubRanges
    <2>3. QED BY <1>2, <2>1, <2>2
<1>4. mid \in DOMAIN subs
    BY <1>2, <1>3, ShiftedWidens DEF ShiftSubs, ShiftId
<1>11. subs[mid] # si.required[k]
    <2>1. Len(si.required) # 1
        BY <1>1 DEF Shifting
    <2>2. QED BY <1>2, <1>3, <2>1, ShiftedDiffers DEF ShiftSubs, ShiftId
<1>5. /\ Unchanged(t, si, {"partitionUnchanged", "shiftedId", "shifted", "analysis"})
      /\ t.shifted = [si.shifted EXCEPT ![k] = subs[mid]] /\ t.shiftedId = mid
      /\ t.analysis = [si.analysis EXCEPT !.nd = si.orig, !.subs = subs]
    BY ShiftPartitionIs DEF Shape
<1> HIDE DEF subs, mid, d
<1>6. t.analysis.subs = subs
    BY <1>5 DEF Shape, AnalysisFields
<1>7. /\ t.orig = si.orig /\ t.order = si.order /\ t.dim = si.dim
      /\ t.shifting = si.shifting /\ t.shiftData = si.shiftData /\ t.req = si.req
      /\ t.shiftingDevice = k /\ t.required = si.required
    BY <1>5 DEF Unchanged, InfoFields
<1>8. ShiftedIs(t)
    BY <1>2, <1>3, <1>4, <1>5, <1>6, <1>7, <1>11 DEF ShiftedIs
<1>9. ShiftCovers(t, c, k - 1)
    <2>1. ASSUME NEW i \in 1 .. k - 1
          PROVE  DataCovers(c, t.shiftData[i], RunAs(t, t.shifted[i]))
        <3>1. i # k
            BY <1>2
        <3>2. t.shifted[i] = si.shifted[i]
            BY <1>5, <3>1
        <3>3. DataCovers(c, si.shiftData[i], RunAs(si, si.shifted[i]))
            BY DEF Covering, ShiftCovers
        <3>4. RunAs(t, t.shifted[i]) = RunAs(si, si.shifted[i])
            BY <1>7, <3>2, SameRun
        <3>5. QED BY <1>7, <3>3, <3>4
    <2>2. QED BY <2>1 DEF ShiftCovers
<1>10. QED BY <1>7, <1>8, <1>9 DEF Covering

\* Injecting values changes no access list but the values in it.
LEMMA InjectedIs ==
    ASSUME NEW kernel, NEW nd, NEW args, NEW n, n = injectArgsValues(kernel, nd, args)
    PROVE  /\ DOMAIN n.args = DOMAIN kernel.args
           /\ \A a \in DOMAIN kernel.args :
                DOMAIN n.args[a]["store"] = DOMAIN kernel.args[a]["store"]
           /\ DOMAIN n.indirections = DOMAIN kernel.indirections
<1> DEFINE All(accesses) == [i \in DOMAIN accesses |-> Injected(accesses[i], nd, args)]
<1>1. /\ n.args = [a \in DOMAIN kernel.args |-> [kind \in Kinds |-> All(kernel.args[a][kind])]]
      /\ n.indirections = All(kernel.indirections)
    BY DEF injectArgsValues
<1>2. \A accesses : DOMAIN All(accesses) = DOMAIN accesses
    OBVIOUS
<1> HIDE DEF All
<1>3. ASSUME NEW a \in DOMAIN kernel.args
      PROVE  DOMAIN n.args[a]["store"] = DOMAIN kernel.args[a]["store"]
    <2>1. "store" \in Kinds
        BY DEF Kinds
    <2>2. n.args[a] = [kind \in Kinds |-> All(kernel.args[a][kind])]
        BY <1>1
    <2>3. n.args[a]["store"] = All(kernel.args[a]["store"])
        BY <2>1, <2>2
    <2>4. QED BY <1>2, <2>3
<1>4. QED BY <1>1, <1>2, <1>3

\* What is analysed of a launch.
LEMMA PreparedCovers ==
    ASSUME NEW si, Shape(si), Ready(si), ~OutOfSubRanges(si), NEW c, c.nd = si.nd,
           Covering(si, c), KernelIs(si, c.kernel),
           NEW t, t = WithIndirections(Prepared(si, c))
    PROVE  /\ Covering(t, c) /\ KernelIs(t, c.kernel) /\ t.args = si.args
           /\ t.shifting => t.partitionUnchanged
<1> DEFINE p == Prepared(si, c)
           Good(x) == /\ Covering(x, c) /\ KernelIs(x, c.kernel) /\ x.args = si.args
                      /\ x.shifting => x.partitionUnchanged
                      /\ DOMAIN x = InfoFields /\ DOMAIN x.analysis = AnalysisFields
<1>0. DOMAIN si = InfoFields /\ DOMAIN si.analysis = AnalysisFields
    BY DEF Shape
<1>1. Good(p)
    <2>1. CASE si.partitionUnchanged
        BY <1>0, <2>1 DEF Prepared
    <2>2. CASE ~si.partitionUnchanged
        <3> DEFINE q == Partitioned(si, c)
        <3>1. Good(q)
            <4>1. CASE si.shifting
                <5>1. q = ShiftPartition(si)
                    BY <4>1 DEF Partitioned
                <5> HIDE DEF q
                <5>2. Covering(q, c)
                    BY <2>2, <4>1, <5>1, ShiftPartitionCovers
                <5>3. /\ Unchanged(q, si, {"partitionUnchanged", "shiftedId", "shifted", "analysis"})
                      /\ q.partitionUnchanged = TRUE
                      /\ q.analysis = [si.analysis EXCEPT !.nd = si.orig, !.subs = ShiftSubs(si)]
                    BY <1>0, <5>1, ShiftPartitionIs
                <5>4. q.args = si.args /\ DOMAIN q = InfoFields
                    BY <1>0, <5>3 DEF Unchanged, InfoFields
                <5>5. DOMAIN q.analysis = AnalysisFields /\ q.analysis.kernel = si.analysis.kernel
                    BY <1>0, <5>3 DEF AnalysisFields
                <5>6. QED BY <5>2, <5>3, <5>4, <5>5 DEF KernelIs
            <4>2. CASE ~si.shifting
                <5>1. q = NewPartition(si, c)
                    BY <4>2 DEF Partitioned
                <5> HIDE DEF q
                <5>2. /\ Unchanged(q, si, {"real", "orig", "required", "analysis"})
                      /\ q.analysis = [si.analysis EXCEPT !.nd = c.nd, !.subs = NewSubs(si, c)]
                    BY <1>0, <5>1, NewPartitionIs
                <5>3. q.args = si.args /\ DOMAIN q = InfoFields /\ q.shifting = si.shifting
                    BY <1>0, <5>2 DEF Unchanged, InfoFields
                <5>4. DOMAIN q.analysis = AnalysisFields /\ q.analysis.kernel = si.analysis.kernel
                    BY <1>0, <5>2 DEF AnalysisFields
                <5>5. QED BY <4>2, <5>3, <5>4 DEF KernelIs, Covering
            <4>3. QED BY <4>1, <4>2
        <3> HIDE DEF q
        <3> DEFINE u == Instantiated(q, c)
        <3>2. /\ Unchanged(u, q, {"analysis"}) /\ DOMAIN u.analysis = AnalysisFields
              /\ u.analysis.subs = q.analysis.subs
              /\ u.analysis = setPartition(q.analysis.kernel, q.analysis.nd, q.analysis.subs, c.args)
            BY <3>1, InstantiatedIs
        <3> HIDE DEF u
        <3>3. KernelIs(u, c.kernel)
            <4>1. u.analysis.kernel = injectArgsValues(q.analysis.kernel, q.analysis.nd, c.args)
                BY <3>2 DEF setPartition, NewAnalysis
            <4>2. /\ DOMAIN u.analysis.kernel.args = DOMAIN q.analysis.kernel.args
                  /\ \A a \in DOMAIN q.analysis.kernel.args :
                       DOMAIN u.analysis.kernel.args[a]["store"] = DOMAIN q.analysis.kernel.args[a]["store"]
                  /\ DOMAIN u.analysis.kernel.indirections = DOMAIN q.analysis.kernel.indirections
                BY <4>1, InjectedIs
            <4>3. QED BY <3>1, <4>2 DEF KernelIs
        <3>4. /\ u.args = q.args /\ DOMAIN u = InfoFields /\ u.shifting = q.shifting
              /\ u.partitionUnchanged = q.partitionUnchanged
            BY <3>1, <3>2 DEF Unchanged, InfoFields
        <3>5. Covering(u, c)
            <4>1. Unchanged(u, q, {"hasPartition", "need", "real", "analysis", "partitionUnchanged"})
                BY <3>2 DEF Unchanged
            <4>2. QED BY <3>1, <3>2, <3>4, <4>1, CoveringStays
        <3>6. QED BY <2>2, <3>1, <3>2, <3>3, <3>4, <3>5 DEF Prepared, q, u
    <2>3. QED BY <2>1, <2>2
<1> HIDE DEF p
<1>2. /\ Unchanged(t, p, {"analysis"})
      /\ t.analysis.subs = p.analysis.subs /\ t.analysis.kernel = p.analysis.kernel
    <2>1. t = WithIndirections(p)
        BY DEF p
    <2>2. {"subs", "kernel"} \subseteq AnalysisFields \ {"toRead", "computed"}
        BY DEF AnalysisFields
    <2>3. QED BY <1>1, <2>1, <2>2, WithIndirectionsIs
<1>3. /\ Unchanged(t, p, {"hasPartition", "need", "real", "analysis", "partitionUnchanged"})
      /\ t.args = p.args /\ t.shifting = p.shifting /\ t.partitionUnchanged = p.partitionUnchanged
    BY <1>2 DEF Unchanged, InfoFields
<1>4. Covering(t, c)
    BY <1>1, <1>2, <1>3, CoveringStays
<1>5. KernelIs(t, c.kernel)
    BY <1>1, <1>2 DEF KernelIs
<1>6. QED BY <1>1, <1>3, <1>4, <1>5

LEMMA HandedCovers ==
    ASSUME NEW si, DOMAIN si = InfoFields, NEW subs, NEW data, NEW c,
           \A i \in DOMAIN si.real : DataCovers(c, data[i], RunAs(si, subs[i])),
           NEW t, t = Handed(si, subs, data)
    PROVE  /\ Supplied(t, c) /\ Unchanged(t, si, {"subkernels", "data"})
<1>1. /\ Unchanged(t, si, {"subkernels", "data"}) /\ t.data = data
      /\ t.subkernels = [i \in DOMAIN si.real |-> SubKernelOf(si, i, subs[i])]
    BY DEF Handed, Unchanged, InfoFields
<1>2. ASSUME NEW i \in DOMAIN si.real
      PROVE  RunOf(t.subkernels[i]) = RunAs(si, subs[i])
    <2>1. t.subkernels[i] = SubKernelOf(si, i, subs[i])
        BY <1>1
    <2>2. QED BY <2>1 DEF SubKernelOf, RunOf, RunAs
<1>3. QED BY <1>1, <1>2 DEF Supplied

LEMMA HandedKeeps ==
    ASSUME NEW si, DOMAIN si = InfoFields, NEW subs, NEW data, NEW c,
           \A i \in DOMAIN si.real : KeepsOwn(c, data, DOMAIN si.real, i, RunAs(si, subs[i])),
           NEW t, t = Handed(si, subs, data)
    PROVE  ResultsKept(t, c)
<1>1. /\ t.data = data
      /\ t.subkernels = [i \in DOMAIN si.real |-> SubKernelOf(si, i, subs[i])]
    BY DEF Handed, InfoFields
<1>2. ASSUME NEW i \in DOMAIN si.real
      PROVE  RunOf(t.subkernels[i]) = RunAs(si, subs[i]) /\ t.subkernels[i].nd = subs[i]
    <2>1. t.subkernels[i] = SubKernelOf(si, i, subs[i])
        BY <1>1
    <2>2. QED BY <2>1 DEF SubKernelOf, RunOf, RunAs
<1>3. DOMAIN t.subkernels = DOMAIN si.real
    BY <1>1
<1>4. ASSUME NEW a \in DOMAIN Kernels[c.kernel].args, NEW i \in DOMAIN si.real,
             NEW wi \in WorkItems(t.subkernels[i].nd)
      PROVE  /\ \A e \in AccessedIn(c, a, "store", RunOf(t.subkernels[i]), wi) :
                  /\ Includes(t.data[i][a].written, e)
                  /\ \A j \in DOMAIN si.real :
                       Includes(t.data[j][a].written, e) => wi \in WorkItems(t.subkernels[j].nd)
             /\ \A r \in Reductions : \A e \in AccessedIn(c, a, r, RunOf(t.subkernels[i]), wi) :
                  \/ Includes(t.data[i][a].accumulated[r], e)
                  \/ Includes(t.data[i][a].written, e)
    <2>1. wi \in WorkItems(RunAs(si, subs[i]).nd)
        BY <1>2 DEF RunAs
    <2>2. KeepsOwn(c, data, DOMAIN si.real, i, RunAs(si, subs[i]))
        OBVIOUS
    <2>3. RunOf(t.subkernels[i]) = RunAs(si, subs[i])
        BY <1>2
    <2>4. QED BY <1>1, <2>1, <2>2, <2>3 DEF KeepsOwn
<1>5. ASSUME NEW a \in DOMAIN Kernels[c.kernel].args, NEW i \in DOMAIN t.subkernels,
             NEW wi \in WorkItems(t.subkernels[i].nd)
      PROVE  /\ \A e \in AccessedIn(c, a, "store", RunOf(t.subkernels[i]), wi) :
                  /\ \E j \in DOMAIN t.subkernels : Includes(t.data[j][a].written, e)
                  /\ \A j \in DOMAIN t.subkernels :
                       Includes(t.data[j][a].written, e) => wi \in WorkItems(t.subkernels[j].nd)
             /\ \A r \in Reductions : \A e \in AccessedIn(c, a, r, RunOf(t.subkernels[i]), wi) :
                  \/ Includes(t.data[i][a].accumulated[r], e)
                  \/ Includes(t.data[i][a].written, e)
    BY <1>3, <1>4
<1>6. QED BY <1>5 DEF ResultsKept

\* The sub-kernels of a launch that is cut have the parts for sub-ranges.
LEMMA PartsAnalysed ==
    ASSUME NEW si, Analysing(si), ~si.shifting
    PROVE  DOMAIN si.real = SubKernels(si.analysis) /\ DOMAIN si.real = 1 .. Len(si.real)
<1>1. /\ Cut(si) /\ si.analysis.subs = si.required /\ si.real \in Seq(Piece)
      /\ Len(si.real) = Len(si.required)
    BY DEF Analysing
<1>2. DOMAIN si.required = 1 .. Len(si.required)
    BY <1>1 DEF Cut, Divided
<1>3. DOMAIN si.real = 1 .. Len(si.real)
    BY <1>1
<1>4. QED BY <1>1, <1>2, <1>3 DEF SubKernels

LEMMA SingleRests ==
    ASSUME NEW si, Shape(si), Analysing(si), Single(si), NEW c, KernelIs(si, c.kernel),
           SoundFor(FillSingle(si), c)
    PROVE  RestCovers(FillSingle(si), c)
<1> DEFINE data == <<[a \in Arguments(si.analysis) |-> SingleData(si.analysis, a)]>>
           t == FillSingle(si)
<1>1. t = Handed(si, si.analysis.subs, data)
    BY DEF FillSingle
<1>2. SoundFor(si, c)
    <2>1. t.orig = si.orig /\ t.order = si.order /\ t.dim = si.dim /\ t.analysis = si.analysis
        BY <1>1 DEF Handed, Shape, InfoFields
    <2>2. QED BY <2>1, SoundStays
<1>3. DOMAIN si.real = {1} /\ 1 \in SubKernels(si.analysis)
    BY PartsAnalysed DEF Single
<1>4. DataCovers(c, data[1], RunAs(si, si.analysis.subs[1]))
    BY <1>2, <1>3, SingleCovers
<1>5. KeepsOwn(c, data, {1}, 1, RunAs(si, si.analysis.subs[1]))
    BY <1>2, <1>3, SingleKeeps
<1> HIDE DEF data, t
<1>6. Supplied(t, c)
    BY <1>1, <1>3, <1>4, HandedCovers DEF Shape
<1>7. ResultsKept(t, c)
    BY <1>1, <1>3, <1>5, HandedKeeps DEF Shape
<1>8. QED BY <1>6, <1>7 DEF RestCovers, t

LEMMA MultiRests ==
    ASSUME NEW si, Shape(si), Analysing(si), ~si.shifting, Status(si.analysis) = "SUCCESS",
           NEW c, KernelIs(si, c.kernel), SoundFor(FillMulti(si), c)
    PROVE  RestCovers(FillMulti(si), c)
<1> DEFINE data == [i \in DOMAIN si.real |->
                      [a \in Arguments(si.analysis) |-> MultiData(si.analysis, a, i)]]
           t == FillMulti(si)
<1>1. t = Handed(si, si.analysis.subs, data)
    BY DEF FillMulti
<1>2. SoundFor(si, c)
    <2>1. t.orig = si.orig /\ t.order = si.order /\ t.dim = si.dim /\ t.analysis = si.analysis
        BY <1>1 DEF Handed, Shape, InfoFields
    <2>2. QED BY <2>1, SoundStays
<1>3. ASSUME NEW i \in DOMAIN si.real
      PROVE  DataCovers(c, data[i], RunAs(si, si.analysis.subs[i]))
    BY <1>2, PartsAnalysed, MultiCovers
<1>4. ASSUME OrBoundsFound(si.analysis), NEW i \in DOMAIN si.real
      PROVE  KeepsOwn(c, data, DOMAIN si.real, i, RunAs(si, si.analysis.subs[i]))
    BY <1>2, <1>4, PartsAnalysed, MultiKeeps
<1>5. t.analysis = si.analysis
    BY <1>1 DEF Handed, Shape, InfoFields
<1> HIDE DEF data, t
<1>6. Supplied(t, c)
    BY <1>1, <1>3, HandedCovers DEF Shape
<1>7. OrBoundsFound(si.analysis) => ResultsKept(t, c)
    BY <1>1, <1>4, HandedKeeps DEF Shape
<1>8. QED BY <1>5, <1>6, <1>7 DEF RestCovers, t

\* What is recorded of the device shifted covers what it runs.
LEMMA ShiftRecorded ==
    ASSUME NEW si, Shape(si), Analysing(si), si.shifting, NEW c, KernelIs(si, c.kernel),
           SoundFor(Shift(si), c), DOMAIN si.shiftData = 1 .. Len(si.req), ShiftedIs(si),
           ShiftCovers(si, c, si.shiftingDevice - 1)
    PROVE  ShiftCovers(Shift(si), c, si.shiftingDevice) /\ DOMAIN Shift(si).shiftData = 1 .. Len(si.req)
<1> DEFINE s == Shift(si)
           k == si.shiftingDevice
           data == [a \in Arguments(si.analysis) |-> ShiftedData(si, a)]
<1>1. Unchanged(s, si, {"shiftData"}) /\ s.shiftData = [si.shiftData EXCEPT ![k] = data]
    BY DEF Shift, Unchanged, Shape, InfoFields
<1>2. k \in 1 .. Len(si.req) /\ Len(si.req) \in Nat
    BY OfShape DEF Analysing, Shifting
<1> HIDE DEF s
<1>3. /\ s.orig = si.orig /\ s.order = si.order /\ s.dim = si.dim /\ s.analysis = si.analysis
      /\ s.shifted = si.shifted
    BY <1>1 DEF Unchanged, InfoFields
<1>4. DataCovers(c, data, RunAs(si, si.shifted[k]))
    BY <1>3, SoundStays, ShiftedCovers DEF s
<1> HIDE DEF data
<1>5. ASSUME NEW i \in 1 .. k
      PROVE  DataCovers(c, s.shiftData[i], RunAs(s, s.shifted[i]))
    <2>0. RunAs(s, s.shifted[i]) = RunAs(si, si.shifted[i])
        BY <1>3, SameRun
    <2>1. CASE i = k
        <3>1. s.shiftData[i] = data
            BY <1>1, <1>2, <2>1
        <3>2. QED BY <1>4, <2>0, <2>1, <3>1
    <2>2. CASE i # k
        <3>1. s.shiftData[i] = si.shiftData[i]
            BY <1>1, <2>2
        <3>2. i \in 1 .. k - 1
            BY <1>2, <2>2
        <3>3. DataCovers(c, si.shiftData[i], RunAs(si, si.shifted[i]))
            BY <3>2 DEF ShiftCovers
        <3>4. QED BY <2>0, <3>1, <3>3
    <2>3. QED BY <2>1, <2>2
<1>6. DOMAIN s.shiftData = 1 .. Len(si.req)
    BY <1>1
<1>7. QED BY <1>5, <1>6 DEF ShiftCovers, s, k

LEMMA ShiftedAllRest ==
    ASSUME NEW si, Shape(si), Analysing(si), si.shifting, ShiftEnds(si), ShiftedIs(si),
           NEW c, ShiftCovers(si, c, si.shiftingDevice)
    PROVE  RestCovers(FillShift(si), c)
<1> DEFINE d == splitDimension(si)
           shares == [i \in DOMAIN si.real |->
                        [si.real[i] EXCEPT !.share = (si.shifted[i].size[d] * Unit) \div si.orig.size[d]]]
           u == [si EXCEPT !.partitionUnchanged = FALSE, !.shifting = FALSE, !.real = shares]
<1>1. FillShift(si) = Handed(u, si.shifted, si.shiftData)
    BY DEF FillShift
<1>2. si.real \in Seq(Piece) /\ si.shiftingDevice = Len(si.real)
    BY DEF Analysing, ShiftEnds
<1>3. DOMAIN shares = 1 .. si.shiftingDevice
    BY <1>2
<1> HIDE DEF shares
<1>4. /\ Unchanged(u, si, {"partitionUnchanged", "shifting", "real"}) /\ u.real = shares
    BY DEF Unchanged, Shape, InfoFields
<1> HIDE DEF u
<1>5. DOMAIN u = InfoFields /\ u.orig = si.orig /\ u.order = si.order /\ u.dim = si.dim
    BY <1>4 DEF Unchanged, Shape, InfoFields
<1>6. \A i \in DOMAIN u.real : DataCovers(c, si.shiftData[i], RunAs(u, si.shifted[i]))
    BY <1>3, <1>4, <1>5, SameRun DEF ShiftCovers
<1> DEFINE t == FillShift(si)
           k == si.shiftingDevice
<1>7. Supplied(t, c) /\ Unchanged(t, u, {"subkernels", "data"})
    BY <1>1, <1>5, <1>6, HandedCovers
<1>8. t.subkernels = [i \in DOMAIN u.real |-> SubKernelOf(u, i, si.shifted[i])]
    BY <1>1, <1>5 DEF Handed, InfoFields
<1> HIDE DEF t
<1>9. k \in DOMAIN u.real
    BY <1>3, <1>4 DEF Analysing, Shifting
<1>10. t.subkernels[k].nd = si.shifted[k] /\ k \in DOMAIN t.subkernels
    BY <1>8, <1>9 DEF SubKernelOf
<1>11. t.required = si.required
    BY <1>4, <1>7 DEF Unchanged, InfoFields
<1>12. ~Unwidened(t)
    BY <1>10, <1>11 DEF Unwidened, ShiftedIs
<1>13. QED BY <1>7, <1>12 DEF RestCovers, t

LEMMA NextShiftCovers ==
    ASSUME NEW si, Shape(si), Analysing(si), ~si.partitionUnchanged, si.shifting,
           NEW c, ShiftCovers(si, c, si.shiftingDevice), DOMAIN si.shiftData = 1 .. Len(si.req),
           NEW t, t = NextShift(si)
    PROVE  Covering(t, c)
<1>1. DOMAIN si = InfoFields /\ si.shiftingDevice \in Int
    BY DEF Shape, Analysing, Shifting
<1>2. /\ Unchanged(t, si, {"shiftingDevice", "shiftingWgs"})
      /\ t.shiftingDevice = si.shiftingDevice + 1 \/ t.shiftingDevice = 1
    <2>1. CASE si.shiftingDevice < Len(si.real)
        <3>1. t = [si EXCEPT !.shiftingDevice = si.shiftingDevice + 1]
            BY <2>1 DEF NextShift
        <3>2. QED BY <1>1, <3>1 DEF Unchanged, InfoFields
    <2>2. CASE ~(si.shiftingDevice < Len(si.real))
        <3> DEFINE more == MoreWgs(si.shiftingWgs, si.orig, splitDimension(si))
        <3>1. t = [si EXCEPT !.shiftingDevice = 1, !.shiftingWgs = more]
            BY <2>2 DEF NextShift
        <3> HIDE DEF more
        <3>2. QED BY <1>1, <3>1 DEF Unchanged, InfoFields
    <2>3. QED BY <2>1, <2>2
<1>3. /\ t.orig = si.orig /\ t.order = si.order /\ t.dim = si.dim
      /\ t.shiftData = si.shiftData /\ t.req = si.req /\ t.shifted = si.shifted
      /\ t.partitionUnchanged = si.partitionUnchanged
    BY <1>2 DEF Unchanged, InfoFields
<1>4. ASSUME NEW i \in 1 .. t.shiftingDevice - 1
      PROVE  DataCovers(c, t.shiftData[i], RunAs(t, t.shifted[i]))
    <2>1. i \in 1 .. si.shiftingDevice
        BY <1>1, <1>2
    <2>2. DataCovers(c, si.shiftData[i], RunAs(si, si.shifted[i]))
        BY <2>1 DEF ShiftCovers
    <2>3. RunAs(t, t.shifted[i]) = RunAs(si, si.shifted[i])
        BY <1>3, SameRun
    <2>4. QED BY <1>3, <2>2, <2>3
<1>5. QED BY <1>3, <1>4 DEF Covering, ShiftCovers

LEMMA StartShiftingCovers ==
    ASSUME NEW si, Shape(si), ~si.partitionUnchanged, NEW c, NEW t, t = StartShifting(si)
    PROVE  Covering(t, c)
<1>1. /\ t.shiftingDevice = 1 /\ t.partitionUnchanged = si.partitionUnchanged
      /\ t.req = si.req /\ DOMAIN t.shiftData = DOMAIN si.req
    BY DEF StartShifting, Shape, InfoFields
<1>2. si.req \in Seq(Piece)
    BY OfShape DEF Request
<1>3. DOMAIN si.req = 1 .. Len(si.req)
    BY <1>2
<1>4. QED BY <1>1, <1>3 DEF Covering, ShiftCovers

-----------------------------------------------------------------------------
(* The invariant of what is kept, and of the launch.                       *)

KeptCovers(si, k) ==
    \E c \in Calls : c.kernel = k /\ c.nd = si.nd /\ c.args = si.args /\ RestCovers(si, c)

\* What is known of si when pc is next, for the launch c.
PhaseCovers(next, si, c) ==
    /\ KernelIs(si, c.kernel) /\ si.args = c.args
    /\ next = "regions" => Covering(si, c)
    /\ next = "values" => IF si.need THEN Covering(si, c) /\ (si.shifting => si.partitionUnchanged)
                          ELSE RestCovers(si, c)
    /\ next = "partition" => RestCovers(si, c)

CoverInv ==
    /\ \A k \in DOMAIN Kernels :
         info[k] # NoInfo => /\ KernelIs(info[k], k)
                             /\ ~info[k].hasPartition => KeptCovers(info[k], k)
    /\ pc = "idle" /\ call # NoCall => RestCovers(SI, call)
    /\ pc # "idle" /\ SI # NoInfo /\ SI.hasPartition => PhaseCovers(pc, SI, call)

LEMMA BecomesCovers ==
    ASSUME SchedulerInv, CoverInv, pc # "idle", NEW t, Shape(t), t.hasPartition, NEW next, next # "idle",
           Becomes(t, next), PhaseCovers(next, t, call)
    PROVE  CoverInv'
<1>1. /\ call \in Calls /\ call.kernel \in DOMAIN info
      /\ call' = call /\ pc' = next /\ info' = [info EXCEPT ![call.kernel] = t]
    BY OfCall DEF Becomes
<1>2. SI' = t
    BY <1>1 DEF SI
<1>3. ASSUME NEW k \in DOMAIN Kernels, info'[k] # NoInfo
      PROVE  KernelIs(info'[k], k) /\ (~info'[k].hasPartition => KeptCovers(info'[k], k))
    <2>1. CASE k = call.kernel
        BY <1>1, <2>1 DEF PhaseCovers
    <2>2. CASE k # call.kernel
        <3>1. info'[k] = info[k]
            BY <1>1, <2>2
        <3>2. QED BY <1>3, <3>1 DEF CoverInv
    <2>3. QED BY <2>1, <2>2
<1>4. QED BY <1>1, <1>2, <1>3 DEF CoverInv

\* The regions are those of the launch, in the state the analysis ends in.
LEMMA SoundAfter ==
    ASSUME SchedulerInv, pc # "idle", NEW t, Shape(t), t.hasPartition, NEW next, Becomes(t, next),
           AnalysisIsSound',
           \/ next = "partition" /\ t.need
           \/ next = "regions" /\ t.shifting /\ ~t.partitionUnchanged
    PROVE  SoundFor(t, call)
<1>1. /\ call.kernel \in DOMAIN info
      /\ call' = call /\ pc' = next /\ info' = [info EXCEPT ![call.kernel] = t]
    BY OfCall DEF Becomes
<1>2. SI' = t /\ t # NoInfo
    BY <1>1, OfShape DEF SI
<1>3. JustAnalysed'
    BY <1>1, <1>2 DEF JustAnalysed
<1>4. QED BY <1>1, <1>2, <1>3 DEF AnalysisIsSound, SoundFor, ArgsOfCall

\* The outcomes of an analysis.
LEMMA OutcomeCovers ==
    ASSUME SchedulerInv, pc # "idle", UNCHANGED <<call, calls>>, AnalysisIsSound',
           NEW si, Shape(si), Analysing(si), ~si.partitionUnchanged, si.need, si.hasPartition,
           Outcome(si), KernelIs(si, call.kernel), si.args = call.args,
           si.shifting => /\ DOMAIN si.shiftData = 1 .. Len(si.req) /\ ShiftedIs(si)
                          /\ ShiftCovers(si, call, si.shiftingDevice - 1)
    PROVE  \E t, next : /\ Shape(t) /\ t.hasPartition /\ next # "idle"
                        /\ Becomes(t, next) /\ PhaseCovers(next, t, call)
<1> DEFINE Held(t) == /\ Shape(t) /\ t.hasPartition /\ t.args = si.args /\ t.need
                      /\ t.analysis = si.analysis
           Goal == \E t, next : /\ Shape(t) /\ t.hasPartition /\ next # "idle"
                                /\ Becomes(t, next) /\ PhaseCovers(next, t, call)
<1>1. ASSUME NEW t, Held(t), \/ Again(t) /\ Covering(t, call)
                             \/ Done(t) /\ RestCovers(t, call)
      PROVE  Goal
    <2>1. KernelIs(t, call.kernel) /\ t.args = call.args
        BY <1>1 DEF KernelIs
    <2>2. \/ Becomes(t, "regions") /\ PhaseCovers("regions", t, call)
          \/ Becomes(t, "partition") /\ PhaseCovers("partition", t, call)
        BY <1>1, <2>1 DEF Again, Done, Becomes, PhaseCovers
    <2>3. QED BY <1>1, <2>2
<1>2. ASSUME NEW t, Held(t), Done(t) PROVE SoundFor(t, call)
    <2>1. Becomes(t, "partition")
        BY <1>2 DEF Done, Becomes
    <2>2. QED BY <1>2, <2>1, SoundAfter
<1>3. ASSUME NEW t, Held(t), Again(t), t.shifting, ~t.partitionUnchanged PROVE SoundFor(t, call)
    <2>1. Becomes(t, "regions")
        BY <1>3 DEF Again, Becomes
    <2>2. QED BY <1>3, <2>1, SoundAfter
<1>4. DOMAIN si = InfoFields
    BY DEF Shape
<1>5. ASSUME NEW u, Shape(u), u.hasPartition, u.args = si.args, u.need, u.analysis = si.analysis,
             NEW subs, NEW data
      PROVE  Held(Handed(u, subs, data))
    <2>1. Unchanged(Handed(u, subs, data), u, {"subkernels", "data"})
        BY <1>5 DEF Handed, Unchanged, Shape, InfoFields
    <2> DEFINE t == Handed(u, subs, data)
    <2> HIDE DEF t
    <2>2. Unchanged(t, u, {"subkernels", "data"})
        BY <2>1 DEF t
    <2>3. Held(t)
        BY <1>5, <2>2 DEF Unchanged, Shape, InfoFields
    <2>4. QED BY <2>3 DEF t
<1>6. CASE Single(si) /\ Done(FillSingle(si))
    <2>1. Held(FillSingle(si))
        BY <1>5 DEF FillSingle
    <2>2. SoundFor(FillSingle(si), call)
        BY <1>2, <1>6, <2>1
    <2>3. RestCovers(FillSingle(si), call)
        BY <1>6, <2>2, SingleRests
    <2>4. QED BY <1>1, <1>6, <2>1, <2>3
<1>7. CASE si.shifting /\ \E shifted \in {Shift(si)} :
             \/ ShiftEnds(shifted) /\ Done(FillShift(shifted))
             \/ ~ShiftEnds(shifted) /\ Again(NextShift(shifted))
    <2> DEFINE s == Shift(si)
    <2>1. /\ Shape(s) /\ Analysing(s) /\ s.hasPartition
          /\ ~s.partitionUnchanged /\ s.shifting /\ s.need
        BY <1>7, ShiftRecords
    <2>2. /\ Unchanged(s, si, {"shiftData"})
        BY <1>4, ShiftIs
    <2>3. \/ ShiftEnds(s) /\ Done(FillShift(s))
          \/ ~ShiftEnds(s) /\ Again(NextShift(s))
        BY <1>7
    <2>4. /\ SoundFor(s, call) =>
                ShiftCovers(s, call, si.shiftingDevice) /\ DOMAIN s.shiftData = 1 .. Len(si.req)
        BY <1>7, ShiftRecorded
    <2> HIDE DEF s
    <2>5. /\ s.args = si.args /\ s.analysis = si.analysis /\ s.req = si.req
          /\ s.shiftingDevice = si.shiftingDevice /\ ShiftedIs(s)
        BY <1>7, <2>2 DEF Unchanged, InfoFields, ShiftedIs
    <2>6. CASE ShiftEnds(s) /\ Done(FillShift(s))
        <3> DEFINE d == splitDimension(s)
                   shares == [i \in DOMAIN s.real |->
                                [s.real[i] EXCEPT !.share = (s.shifted[i].size[d] * Unit) \div s.orig.size[d]]]
                   u == [s EXCEPT !.partitionUnchanged = FALSE, !.shifting = FALSE, !.real = shares]
                   t == FillShift(s)
        <3>1. t = Handed(u, s.shifted, s.shiftData)
            BY DEF FillShift
        <3> HIDE DEF shares
        <3>2. Unchanged(u, s, {"partitionUnchanged", "shifting", "real"}) /\ u.shifting = FALSE
              /\ u.partitionUnchanged = FALSE
            BY <2>1 DEF Unchanged, Shape, InfoFields
        <3> HIDE DEF u, t
        <3>3. Shape(u) /\ u.hasPartition /\ u.args = si.args /\ u.need /\ u.analysis = si.analysis
            BY ZenonT(40), <2>1, <2>5, <3>2 DEF Unchanged, Shape, InfoFields
        <3>4. Held(t)
            BY <1>5, <3>1, <3>3
        <3>5. SoundFor(t, call)
            BY <1>2, <2>6, <3>4 DEF t
        <3>6. SoundFor(s, call)
            <4>1. /\ t.orig = s.orig /\ t.order = s.order /\ t.dim = s.dim /\ t.analysis = s.analysis
                <5>1. Unchanged(t, u, {"subkernels", "data"})
                    BY <3>1, <3>3 DEF Handed, Unchanged, Shape, InfoFields
                <5>2. QED BY <3>2, <5>1 DEF Unchanged, InfoFields
            <4>2. QED BY <3>5, <4>1, SoundStays
        <3>7. RestCovers(t, call)
            BY <2>1, <2>4, <2>5, <2>6, <3>6, ShiftedAllRest DEF t
        <3>8. QED BY <1>1, <2>6, <3>4, <3>7 DEF t
    <2>7. CASE ~ShiftEnds(s) /\ Again(NextShift(s))
        <3> DEFINE t == NextShift(s)
                   more == MoreWgs(s.shiftingWgs, s.orig, splitDimension(s))
        <3>1. Unchanged(t, s, {"shiftingDevice", "shiftingWgs"})
            <4>1. t = [s EXCEPT !.shiftingDevice = s.shiftingDevice + 1]
                  \/ t = [s EXCEPT !.shiftingDevice = 1, !.shiftingWgs = more]
                BY DEF NextShift
            <4> HIDE DEF t, more
            <4>2. QED BY <2>1, <4>1 DEF Unchanged, Shape, InfoFields
        <3>2. Shape(t) /\ t.hasPartition /\ t.need
            BY <2>1, NextShiftAsks
        <3> HIDE DEF t
        <3>3. /\ t.args = s.args /\ t.analysis = s.analysis /\ t.orig = s.orig /\ t.order = s.order
              /\ t.dim = s.dim /\ t.shifting = s.shifting /\ t.partitionUnchanged = s.partitionUnchanged
            BY <3>1 DEF Unchanged, InfoFields
        <3>4. Held(t)
            BY <2>5, <3>2, <3>3
        <3>5. SoundFor(t, call)
            BY <1>3, <2>1, <2>7, <3>3, <3>4 DEF t
        <3>6. SoundFor(s, call)
            BY <3>3, <3>5, SoundStays
        <3>7. Covering(t, call)
            BY <2>1, <2>4, <2>5, <3>6, NextShiftCovers DEF t
        <3>8. QED BY <1>1, <2>7, <3>4, <3>7 DEF t
    <2>8. QED BY <2>3, <2>6, <2>7
<1>8. CASE ~si.shifting /\ Again([si EXCEPT !.dim = @ + 1])
    <2> DEFINE t == [si EXCEPT !.dim = @ + 1]
    <2>1. Unchanged(t, si, {"dim"})
        BY <1>4 DEF Unchanged, InfoFields
    <2>2. Shape(t)
        BY <1>8, NextDimensionAsks
    <2> HIDE DEF t
    <2>3. Held(t) /\ Covering(t, call)
        BY <1>8, <2>1, <2>2 DEF Unchanged, InfoFields, Covering
    <2>4. QED BY <1>1, <1>8, <2>3 DEF t
<1>9. CASE ~si.shifting /\ Len(si.real) # 1 /\ Again(StartShifting(si))
    <2> DEFINE t == StartShifting(si)
    <2>1. Shape(t) /\ t.need /\ t.hasPartition
        BY <1>9, StartShiftingAsks
    <2>2. t.args = si.args /\ t.analysis = si.analysis
        BY <1>4 DEF StartShifting, InfoFields
    <2>3. Covering(t, call)
        BY StartShiftingCovers
    <2> HIDE DEF t
    <2>4. QED BY <1>1, <1>9, <2>1, <2>2, <2>3 DEF t
<1>10. CASE /\ ~si.shifting /\ Status(si.analysis) = "SUCCESS"
             /\ Done(FillMulti([si EXCEPT !.partitionUnchanged = FALSE]))
    <2> DEFINE u == [si EXCEPT !.partitionUnchanged = FALSE]
    <2>1. Unchanged(u, si, {"partitionUnchanged"}) /\ u.partitionUnchanged = FALSE
        BY <1>4 DEF Unchanged, InfoFields
    <2> HIDE DEF u
    <2>2. Unchanged(u, si, {"analysis", "partitionUnchanged"}) /\ u.analysis = si.analysis
          /\ u.shifting = si.shifting /\ u.args = si.args
        BY <2>1 DEF Unchanged, InfoFields
    <2>3. Shape(u) /\ Analysing(u) /\ u.need /\ u.hasPartition
        <3>1. DOMAIN u.analysis = AnalysisFields
            BY <2>2 DEF Shape
        <3>2. QED BY <2>1, <2>2, <3>1, AnalysingStays
    <2>4. Held(FillMulti(u))
        BY <1>5, <2>2, <2>3 DEF FillMulti
    <2>5. SoundFor(FillMulti(u), call)
        BY <1>2, <1>10, <2>4 DEF u
    <2>6. KernelIs(u, call.kernel)
        BY <2>2 DEF KernelIs
    <2>7. RestCovers(FillMulti(u), call)
        BY <1>10, <2>2, <2>3, <2>5, <2>6, MultiRests
    <2>8. QED BY <1>1, <1>10, <2>4, <2>7 DEF u
<1>11. QED BY <1>6, <1>7, <1>8, <1>9, <1>10 DEF Outcome, Single

LEMMA CoverAskingStep ==
    ASSUME SchedulerInv, CoverInv, getIndirectionRegions, EnableIndirections
    PROVE  CoverInv'
<1>1. PICK asked \in Asked : Enters(NeedsAnalysis(asked))
    BY AskingCases
<1>2. pc = "regions" /\ call \in Calls /\ call.kernel \in DOMAIN Kernels
    BY AskingCases, OfCall DEF SchedulerInv
<1>3. /\ Shape(asked) /\ Asking(asked) /\ asked.nd = call.nd /\ asked.hasPartition
      /\ \/ SI # NoInfo /\ SI.hasPartition /\ SI.need /\ asked = SI
         \/ /\ SI = NoInfo \/ (Shape(SI) /\ Rest(SI) /\ ~SI.hasPartition)
            /\ \E granu \in Requests, again \in BOOLEAN :
                 asked = FirstRequest(SI, call, granu, again)
    BY <1>2, AskedIs
<1> DEFINE Known(x) == KernelIs(x, call.kernel) /\ x.args = call.args /\ Covering(x, call)
           Reuses(x) == \E b \in Calls : b.kernel = call.kernel /\ b.args = call.args /\ RestCovers(x, b)
<1>4. Known(asked) /\ (~asked.need => Reuses(asked))
    <2>1. CASE SI # NoInfo /\ SI.hasPartition /\ SI.need /\ asked = SI
        BY <1>2, <2>1 DEF CoverInv, PhaseCovers
    <2>2. CASE /\ SI = NoInfo \/ (Shape(SI) /\ Rest(SI) /\ ~SI.hasPartition)
               /\ \E granu \in Requests, again \in BOOLEAN :
                    asked = FirstRequest(SI, call, granu, again)
        <3>1. PICK granu \in Requests, again \in BOOLEAN : asked = FirstRequest(SI, call, granu, again)
            BY <2>2
        <3>2. CASE SI = NoInfo
            <4> DEFINE an == NewAnalysis(Kernels[call.kernel], call.nd, << >>, call.args)
                       order == getSortedDim(call.nd)
            <4>1. an.kernel = Kernels[call.kernel]
                BY DEF NewAnalysis
            <4>2. asked = [hasPartition |-> TRUE, partitionUnchanged |-> FALSE, need |-> TRUE,
                   req |-> granu, real |-> granu, nd |-> call.nd, args |-> call.args,
                   order |-> order, dim |-> 0,
                   shifting |-> FALSE, shiftingDevice |-> 1, shiftingWgs |-> 0, shiftedId |-> 1,
                   orig |-> NoRange, required |-> <<>>, shifted |-> <<>>,
                   shiftData |-> <<>>, full |-> <<>>,
                   analysis |-> an,
                   subkernels |-> <<>>, data |-> <<>>]
                BY <3>1, <3>2 DEF FirstRequest
            <4> HIDE DEF an, order
            <4>3. asked.analysis = an /\ asked.args = call.args /\ asked.need = TRUE
                  /\ asked.shifting = FALSE
                BY <4>2
            <4>4. QED BY <4>1, <4>3 DEF KernelIs, Covering
        <3>3. CASE SI # NoInfo
            <4> DEFINE need == again \/ SI.nd # call.nd \/ SI.args # call.args
                       order == getSortedDim(call.nd)
            <4>1. asked = [SI EXCEPT !.hasPartition = TRUE, !.need = need, !.req = granu,
                                     !.nd = call.nd, !.args = call.args, !.order = order, !.dim = 0]
                BY <3>1, <3>3 DEF FirstRequest
            <4>2. Shape(SI) /\ Rest(SI) /\ ~SI.hasPartition
                BY <2>2, <3>3
            <4>3. ~need => SI.nd = call.nd /\ SI.args = call.args
                OBVIOUS
            <4> HIDE DEF need, order
            <4>4. /\ asked.args = call.args /\ asked.need = need /\ asked.analysis = SI.analysis
                  /\ asked.shifting = SI.shifting /\ asked.subkernels = SI.subkernels
                  /\ asked.data = SI.data /\ asked.required = SI.required
                BY <4>1, <4>2 DEF Shape, InfoFields
            <4>5. KernelIs(SI, call.kernel) /\ KeptCovers(SI, call.kernel)
                BY <1>2, <3>3, <4>2 DEF CoverInv, SI
            <4>6. Known(asked)
                BY <4>2, <4>4, <4>5 DEF KernelIs, Covering, Rest
            <4>7. ~asked.need => Reuses(asked)
                BY <4>3, <4>4, <4>5, RestStays DEF KeptCovers
            <4>8. QED BY <4>6, <4>7
        <3>4. QED BY <3>2, <3>3
    <2>3. QED BY <1>3, <2>1, <2>2
<1> DEFINE si == NeedsAnalysis(asked)
           ready == SingleDevice(AsRequested(si))
<1>5. Shape(si) /\ Asking(si) /\ si.nd = call.nd /\ si.hasPartition
    BY <1>3, NeedsAnalysisIsAsking
<1>6. /\ Unchanged(si, asked, {"need"}) /\ (asked.need => si.need)
      /\ ~si.need => si.analysis.kernel.indirections = << >>
    <2>1. /\ Unchanged(si, asked, {"need"}) /\ (asked.need => si.need)
          /\ ~si.need => asked.analysis.kernel.indirections = << >>
        BY <1>3, NeedsAnalysisIs DEF Shape
    <2> HIDE DEF si
    <2>2. si.analysis = asked.analysis
        BY <2>1 DEF Unchanged, InfoFields
    <2>3. QED BY <2>1, <2>2
<1> HIDE DEF si
<1>7. Known(si)
    <2>1. /\ si.args = asked.args /\ si.analysis = asked.analysis
          /\ si.partitionUnchanged = asked.partitionUnchanged
          /\ Unchanged(si, asked, {"hasPartition", "need", "real", "analysis", "partitionUnchanged"})
        BY <1>6 DEF Unchanged, InfoFields
    <2>2. QED BY <1>4, <2>1, CoveringStays DEF KernelIs
<1>8. ~si.need => RestCovers(si, call)
    <2> SUFFICES ASSUME ~si.need PROVE RestCovers(si, call)
        OBVIOUS
    <2>1. PICK b \in Calls : b.kernel = call.kernel /\ b.args = call.args /\ RestCovers(asked, b)
        BY <1>3, <1>4, <1>6 DEF Shape
    <2>2. RestCovers(si, b)
        <3>1. /\ si.subkernels = asked.subkernels /\ si.data = asked.data
              /\ si.required = asked.required /\ si.analysis = asked.analysis
            BY <1>6 DEF Unchanged, InfoFields
        <3>2. QED BY <2>1, <3>1 DEF RestCovers, Supplied, ResultsKept, Unwidened
    <2>3. DOMAIN Kernels[call.kernel].indirections = {}
        BY <1>6, <1>7 DEF KernelIs
    <2>4. QED BY <2>1, <2>2, <2>3, SameLaunch
<1>9. \/ ~si.need /\ Becomes(si, "values")
      \/ si.need /\ OutOfSubRanges(ready) /\ Becomes(ready, "aborted")
      \/ si.need /\ ~OutOfSubRanges(ready) /\ Indirected(Prepared(ready, call))
    BY <1>1 DEF si, Enters
<1>10. CASE ~si.need /\ Becomes(si, "values")
    <2>1. PhaseCovers("values", si, call)
        BY <1>7, <1>8, <1>10 DEF PhaseCovers
    <2>2. QED BY <1>2, <1>5, <1>10, <2>1, BecomesCovers
<1>11. ASSUME si.need
       PROVE  /\ Shape(ready) /\ Ready(ready) /\ ready.nd = call.nd /\ ready.hasPartition
              /\ Known(ready)
    <2>1. Shape(ready) /\ Ready(ready) /\ ready.nd = call.nd /\ ready.hasPartition
        BY <1>5, <1>11, ReadyIs
    <2> DEFINE r == AsRequested(si)
    <2>2. Unchanged(r, si, {"real"})
        BY <1>5, AsRequestedIs DEF Shape
    <2>3. DOMAIN r = InfoFields
        BY <1>5, <2>2 DEF Unchanged, Shape
    <2> HIDE DEF r
    <2>4. Unchanged(SingleDevice(r), r, {"real", "dim"}) /\ (r.dim < r.nd.work_dim => SingleDevice(r) = r)
        BY <2>3, SingleDeviceIs
    <2> DEFINE q == SingleDevice(r)
    <2> HIDE DEF q
    <2>5. Unchanged(q, r, {"real", "dim"}) /\ (r.dim < r.nd.work_dim => q = r)
        BY <2>4 DEF q
    <2>6. /\ q.args = si.args /\ q.analysis = si.analysis /\ q.shifting = si.shifting
          /\ r.dim = si.dim /\ r.nd = si.nd /\ r.args = si.args /\ r.analysis = si.analysis
          /\ r.partitionUnchanged = si.partitionUnchanged
        BY <2>2, <2>5 DEF Unchanged, InfoFields
    <2>7. Covering(q, call)
        <3>1. CASE si.shifting
            <4>1. Cut(si)
                BY <1>5, <3>1 DEF Asking, Analysing
            <4>2. q = r
                BY <2>5, <2>6, <4>1 DEF Cut
            <4>3. Unchanged(r, si, {"hasPartition", "need", "real", "analysis", "partitionUnchanged"})
                BY <2>2 DEF Unchanged
            <4>4. QED BY <1>7, <2>6, <4>2, <4>3, CoveringStays
        <3>2. CASE ~si.shifting
            BY <2>6, <3>2 DEF Covering
        <3>3. QED BY <3>1, <3>2
    <2>8. Known(q)
        BY <1>7, <2>6, <2>7 DEF KernelIs
    <2>9. QED BY <2>1, <2>8 DEF q, r
<1> HIDE DEF ready
<1>12. CASE si.need /\ OutOfSubRanges(ready) /\ Becomes(ready, "aborted")
    <2>1. PhaseCovers("aborted", ready, call)
        BY <1>11, <1>12 DEF PhaseCovers
    <2>2. QED BY <1>2, <1>11, <1>12, <2>1, BecomesCovers
<1>13. CASE si.need /\ ~OutOfSubRanges(ready) /\ Indirected(Prepared(ready, call))
    <2> DEFINE t == WithIndirections(Prepared(ready, call))
    <2>1. Shape(t) /\ Analysing(t) /\ t.need /\ t.nd = call.nd /\ t.hasPartition
        BY <1>11, <1>13, PreparedIsAnalysing
    <2>2. /\ Covering(t, call) /\ KernelIs(t, call.kernel) /\ t.args = ready.args
          /\ t.shifting => t.partitionUnchanged
        BY <1>11, <1>13, PreparedCovers
    <2> HIDE DEF t
    <2>3. PhaseCovers("values", t, call) /\ PhaseCovers("aborted", t, call)
        BY <1>11, <1>13, <2>1, <2>2 DEF PhaseCovers
    <2>4. Becomes(t, "values") \/ Becomes(t, "aborted")
        BY <1>13 DEF t, Indirected
    <2>5. QED BY <1>2, <2>1, <2>3, <2>4, BecomesCovers
<1>14. QED BY <1>9, <1>10, <1>12, <1>13

LEMMA CoverValuesStep ==
    ASSUME SchedulerInv, CoverInv, setIndirectionValues, EnableIndirections, AnalysisIsSound'
    PROVE  CoverInv'
<1>1. /\ pc = "values" /\ SI # NoInfo /\ SI.hasPartition /\ Shape(SI) /\ UNCHANGED <<call, calls>>
      /\ \/ ~SI.need /\ Becomes([SI EXCEPT !.partitionUnchanged = FALSE], "partition")
         \/ SI.need /\ BeyondParts(SI) /\ pc' = "aborted" /\ info' = info
         \/ SI.need /\ \E si : /\ Valued(si)
                              /\ \/ si.partitionUnchanged /\ Becomes(si, "regions")
                                 \/ ~si.partitionUnchanged /\ Outcome(si)
    BY ValuesCases
<1>2. /\ KernelIs(SI, call.kernel) /\ SI.args = call.args
      /\ IF SI.need THEN Covering(SI, call) /\ (SI.shifting => SI.partitionUnchanged)
         ELSE RestCovers(SI, call)
    BY <1>1 DEF CoverInv, PhaseCovers
<1>3. CASE ~SI.need /\ Becomes([SI EXCEPT !.partitionUnchanged = FALSE], "partition")
    <2> DEFINE t == [SI EXCEPT !.partitionUnchanged = FALSE]
    <2>1. Unchanged(t, SI, {"partitionUnchanged"}) /\ t.partitionUnchanged = FALSE
        BY <1>1 DEF Unchanged, Shape, InfoFields
    <2>2. Becomes(t, "partition")
        BY <1>3
    <2> HIDE DEF t
    <2>3. Shape(t) /\ t.hasPartition /\ t.args = SI.args /\ t.analysis = SI.analysis
          /\ t.subkernels = SI.subkernels /\ t.data = SI.data /\ t.required = SI.required
        BY <1>1, <2>1 DEF Unchanged, Shape, InfoFields
    <2>5. RestCovers(t, call)
        BY <1>2, <1>3, <2>3 DEF RestCovers, Supplied, ResultsKept, Unwidened
    <2>4. PhaseCovers("partition", t, call)
        BY <1>2, <1>3, <2>3, <2>5 DEF PhaseCovers, KernelIs
    <2>6. QED BY <1>1, <2>2, <2>3, <2>4, BecomesCovers
<1>4. CASE SI.need /\ \E si : /\ Valued(si)
                             /\ \/ si.partitionUnchanged /\ Becomes(si, "regions")
                                \/ ~si.partitionUnchanged /\ Outcome(si)
    <2>1. PICK si : Valued(si) /\ (\/ si.partitionUnchanged /\ Becomes(si, "regions")
                                   \/ ~si.partitionUnchanged /\ Outcome(si))
        BY <1>4
    <2>2. Shape(si) /\ Analysing(si) /\ si.need /\ si.nd = call.nd /\ si.hasPartition
        BY <1>1, <1>4, <2>1, ValuedStays
    <2>3. /\ Unchanged(si, SI, {"analysis", "partitionUnchanged"})
          /\ si.analysis.subs = SI.analysis.subs /\ si.analysis.kernel = SI.analysis.kernel
          /\ si.args = SI.args /\ si.shifting = SI.shifting
        BY <2>1 DEF Valued, Unchanged, InfoFields
    <2>4. KernelIs(si, call.kernel) /\ si.args = call.args
        BY <1>2, <2>3 DEF KernelIs
    <2>5. Covering(si, call)
        <3>1. CASE SI.shifting
            <4>1. SI.partitionUnchanged
                BY <1>2, <1>4, <3>1
            <4>2. Unchanged(si, SI, {"hasPartition", "need", "real", "analysis", "partitionUnchanged"})
                BY <2>3 DEF Unchanged
            <4>3. QED BY <1>2, <1>4, <2>3, <4>1, <4>2, CoveringStays
        <3>2. CASE ~SI.shifting
            BY <2>3, <3>2 DEF Covering
        <3>3. QED BY <3>1, <3>2
    <2>6. CASE si.partitionUnchanged /\ Becomes(si, "regions")
        <3>1. PhaseCovers("regions", si, call)
            BY <2>4, <2>5 DEF PhaseCovers
        <3>2. QED BY <1>1, <2>2, <2>6, <3>1, BecomesCovers
    <2>7. CASE ~si.partitionUnchanged /\ Outcome(si)
        <3>1. si.shifting => ShiftedIs(si)
            <4> SUFFICES ASSUME SI.shifting PROVE ShiftedIs(si)
                BY <2>3
            <4>1. ShiftedIs(SI)
                BY <1>2, <1>4 DEF Covering
            <4>2. si.shiftedId = SI.shiftedId /\ si.shifted = SI.shifted
                  /\ si.shiftingDevice = SI.shiftingDevice /\ si.required = SI.required
                BY <2>3 DEF Unchanged, InfoFields
            <4>3. QED BY <2>3, <4>1, <4>2 DEF ShiftedIs
        <3>2. PICK t, next : /\ Shape(t) /\ t.hasPartition /\ next # "idle"
                             /\ Becomes(t, next) /\ PhaseCovers(next, t, call)
            BY <1>1, <2>2, <2>4, <2>5, <2>7, <3>1, OutcomeCovers DEF Covering
        <3>3. QED BY <1>1, <3>2, BecomesCovers
    <2>8. QED BY <2>1, <2>6, <2>7
<1>5. CASE SI.need /\ BeyondParts(SI) /\ pc' = "aborted" /\ info' = info
    <2>1. SI' = SI /\ call' = call
        BY <1>1, <1>5 DEF SI
    <2>2. PhaseCovers(pc', SI, call)
        BY <1>2, <1>5 DEF PhaseCovers
    <2>3. QED BY <1>1, <1>5, <2>1, <2>2 DEF CoverInv
<1>6. QED BY <1>1, <1>3, <1>4, <1>5

LEMMA CoverPartitionStep ==
    ASSUME SchedulerInv, CoverInv, getPartition
    PROVE  CoverInv'
<1>1. /\ pc = "partition" /\ PhaseOf /\ UNCHANGED <<call, calls>>
      /\ info' = [info EXCEPT ![call.kernel].hasPartition = FALSE]
    BY DEF getPartition, SchedulerInv
<1>2. SI # NoInfo /\ SI.hasPartition /\ SI.nd = call.nd
    BY <1>1 DEF PhaseOf, ForCall
<1>3. Shape(SI) /\ call \in Calls /\ call.kernel \in DOMAIN info
    BY <1>1, <1>2, OfCall
<1>4. KernelIs(SI, call.kernel) /\ SI.args = call.args /\ RestCovers(SI, call)
    BY <1>1, <1>2 DEF CoverInv, PhaseCovers
<1> DEFINE t == [SI EXCEPT !.hasPartition = FALSE]
<1>5. info' = [info EXCEPT ![call.kernel] = t]
    BY <1>1 DEF SI
<1>6. Unchanged(t, SI, {"hasPartition"}) /\ t.hasPartition = FALSE
    BY <1>3 DEF Unchanged, Shape, InfoFields
<1> HIDE DEF t
<1>7. /\ t.nd = SI.nd /\ t.args = SI.args /\ t.analysis = SI.analysis
      /\ t.subkernels = SI.subkernels /\ t.data = SI.data /\ t.required = SI.required
    BY <1>6 DEF Unchanged, InfoFields
<1>12. RestCovers(t, call)
    BY <1>4, <1>7 DEF RestCovers, Supplied, ResultsKept, Unwidened
<1>8. RestCovers(t, call) /\ KernelIs(t, call.kernel) /\ KeptCovers(t, call.kernel)
    BY <1>2, <1>3, <1>4, <1>7, <1>12 DEF KernelIs, KeptCovers
<1>9. SI' = t /\ call' = call
    BY <1>1, <1>3, <1>5 DEF SI
<1>10. ASSUME NEW k \in DOMAIN Kernels, info'[k] # NoInfo
       PROVE  KernelIs(info'[k], k) /\ (~info'[k].hasPartition => KeptCovers(info'[k], k))
    <2>1. CASE k = call.kernel
        BY <1>3, <1>5, <1>8, <2>1
    <2>2. CASE k # call.kernel
        <3>1. info'[k] = info[k]
            BY <1>5, <2>2
        <3>2. QED BY <1>10, <3>1 DEF CoverInv
    <2>3. QED BY <2>1, <2>2
<1>11. QED BY <1>6, <1>8, <1>9, <1>10 DEF CoverInv

LEMMA CoverLaunchStep ==
    ASSUME SchedulerInv, CoverInv, enqueueNDRangeKernel
    PROVE  CoverInv'
<1>1. pc = "idle" /\ pc' = "regions" /\ call' \in Calls /\ info' = info
    BY DEF enqueueNDRangeKernel
<1>2. SI' = NoInfo \/ ~SI'.hasPartition
    <2>1. call'.kernel \in DOMAIN Kernels
        BY <1>1, CallsAssumption
    <2>2. QED BY <1>1, <2>1 DEF SchedulerInv, KeptOf, SI
<1>3. QED BY <1>1, <1>2 DEF CoverInv

LEMMA CoverInvHolds ==
    ASSUME EnableIndirections
    PROVE  Spec /\ []AnalysisIsSound => []CoverInv
<1>1. Init => CoverInv
    BY DEF Init, CoverInv
<1>2. SchedulerInv /\ CoverInv /\ [Next]_vars /\ AnalysisIsSound' => CoverInv'
    <2> SUFFICES ASSUME SchedulerInv, CoverInv, [Next]_vars, AnalysisIsSound' PROVE CoverInv'
        OBVIOUS
    <2>1. CASE UNCHANGED vars
        BY <2>1 DEF vars, CoverInv, SI
    <2>2. CASE Next
        BY <2>2, CoverAskingStep, CoverValuesStep, CoverPartitionStep, CoverLaunchStep DEF Next
    <2>3. QED BY <2>1, <2>2
<1>3. Spec => []SchedulerInv
    BY SchedulerInvHolds
<1>4. QED BY <1>1, <1>2, <1>3, PTL DEF Spec

(* A device receives all that its sub-kernel reads, and what it writes,    *)
(* when each analysis is right: the regions kept of an earlier launch, and *)
(* those of the devices shifted one after the other, are those of the      *)
(* sub-kernels handed out.                                                 *)
THEOREM RequiredIsEnough ==
    ASSUME EnableIndirections
    PROVE  Spec /\ []AnalysisIsSound => []RequiredCoversAccesses
<1>1. CoverInv => RequiredCoversAccesses
    BY DEF CoverInv, RequiredCoversAccesses, HandedOut, RestCovers, Supplied, DataCovers,
           SubKernelsOfCall, RunBy, ArgsOfCall, Accessed, RunOf
<1>2. QED BY <1>1, CoverInvHolds, PTL

(* Each result is kept by one device, the one whose work items compute it, *)
(* whenever no sub-kernel was widened: the status SUCCESS, or the fact     *)
(* that there is one device, is enough also for the launches that are      *)
(* handed out what was found for an earlier one.                           *)
THEOREM ResultsAreKept ==
    ASSUME EnableIndirections
    PROVE  Spec /\ []AnalysisIsSound =>
             [](Unwidened(SI) /\ OrBoundsFound(SI.analysis) => EveryResultIsKept)
<1>1. ASSUME CoverInv, Unwidened(SI), OrBoundsFound(SI.analysis) PROVE EveryResultIsKept
    <2> SUFFICES ASSUME HandedOut PROVE EveryResultIsKept
        BY DEF EveryResultIsKept
    <2>1. ResultsKept(SI, call)
        BY <1>1 DEF CoverInv, HandedOut, RestCovers
    <2>2. QED BY <2>1 DEF ResultsKept, EveryResultIsKept, SubKernelsOfCall, RunBy, ArgsOfCall, Accessed
<1>2. QED BY <1>1, CoverInvHolds, PTL

=============================================================================
