-------------------------------- MODULE Loops -------------------------------
(***************************************************************************)
(* Induction over the passes of a loop, for modules that have theorems     *)
(* about loops.  The library's induction theorems take the formula to be   *)
(* proved as a parameter; here it is a parameter of the module, which an   *)
(* INSTANCE gives, and the theorems start from induction over sets of      *)
(* numbers, which the modules that use them prove (NatSet).                *)
(*                                                                         *)
(* Pass(x, s, i) is the i-th pass of a loop, from state s, and Keeps what  *)
(* it maintains; x are the arguments of the function that has the loop.    *)
(***************************************************************************)
EXTENDS Naturals, TLAPS

CONSTANTS Pass(_, _, _), Keeps(_, _, _)

-----------------------------------------------------------------------------
(* Loops of n passes from a state s.                                       *)

Runs(f, x, s, n) == f = [i \in 0..n |-> IF i = 0 THEN s ELSE Pass(x, f[i - 1], i)]

After(x, s, n) ==
  LET f[i \in 0..n] == IF i = 0 THEN s ELSE Pass(x, f[i - 1], i)
  IN  f[n]

THEOREM LoopRuns ==
  (\A S : 0 \in S /\ (\A n \in Nat : n \in S => n + 1 \in S) => \A n \in Nat : n \in S)
  => \A x, s : \A n \in Nat : \E f : Runs(f, x, s, n)
<1> SUFFICES ASSUME \A S : 0 \in S /\ (\A n \in Nat : n \in S => n + 1 \in S) => \A n \in Nat : n \in S,
                    NEW x, NEW s
             PROVE  \A n \in Nat : \E f : Runs(f, x, s, n)
  OBVIOUS
<1> DEFINE S == {n \in Nat : \E f : Runs(f, x, s, n)}
<1>1. 0 \in S
  <2>1. Runs([i \in 0..0 |-> s], x, s, 0)
    BY DEF Runs
  <2> QED BY <2>1
<1>2. ASSUME NEW n \in Nat, n \in S PROVE n + 1 \in S
  <2>1. PICK f : Runs(f, x, s, n)
    BY <1>2
  <2> DEFINE g == [i \in 0..n + 1 |-> IF i = n + 1 THEN Pass(x, f[n], n + 1) ELSE f[i]]
  <2>2. ASSUME NEW i \in 0..n + 1 PROVE g[i] = IF i = 0 THEN s ELSE Pass(x, g[i - 1], i)
    <3>1. CASE i = n + 1
      <4>1. g[i - 1] = f[n] /\ i # 0
        BY <3>1
      <4> QED BY <3>1, <4>1
    <3>2. CASE i # n + 1 /\ i # 0
      <4>1. i \in 0..n /\ i - 1 \in 0..n /\ i - 1 # n + 1
        BY <3>2
      <4>2. g[i] = f[i] /\ g[i - 1] = f[i - 1]
        BY <4>1, <3>2
      <4>3. f[i] = Pass(x, f[i - 1], i)
        BY <2>1, <4>1, <3>2 DEF Runs
      <4> QED BY <4>2, <4>3, <3>2
    <3>3. CASE i = 0
      <4>1. 0 \in 0..n /\ 0 # n + 1
        OBVIOUS
      <4>2. f[0] = s
        BY <2>1, <4>1 DEF Runs
      <4> QED BY <3>3, <4>1, <4>2
    <3> QED BY <3>1, <3>2, <3>3
  <2>3. g = [i \in 0..n + 1 |-> g[i]]
    OBVIOUS
  <2> HIDE DEF g
  <2>4. g = [i \in 0..n + 1 |-> IF i = 0 THEN s ELSE Pass(x, g[i - 1], i)]
    BY <2>2, <2>3
  <2> QED BY <2>4 DEF Runs
<1> HIDE DEF S
<1>3. \A n \in Nat : n \in S
  BY <1>1, <1>2
<1> QED BY <1>3 DEF S

(* What the loop's passes keep holds when it ends.                         *)
THEOREM LoopKeeps ==
  (\A S : 0 \in S /\ (\A n \in Nat : n \in S => n + 1 \in S) => \A n \in Nat : n \in S)
  => \A x, s : \A n \in Nat :
    /\ Keeps(x, s, 0)
    /\ \A i \in 1..n : \A t : Keeps(x, t, i - 1) => Keeps(x, Pass(x, t, i), i)
    => Keeps(x, After(x, s, n), n)
<1> SUFFICES ASSUME \A S : 0 \in S /\ (\A n \in Nat : n \in S => n + 1 \in S) => \A n \in Nat : n \in S,
                    NEW x, NEW s, NEW n \in Nat, Keeps(x, s, 0),
                    \A i \in 1..n : \A t : Keeps(x, t, i - 1) => Keeps(x, Pass(x, t, i), i)
             PROVE  Keeps(x, After(x, s, n), n)
  OBVIOUS
<1> DEFINE f[i \in 0..n] == IF i = 0 THEN s ELSE Pass(x, f[i - 1], i)
<1>0. After(x, s, n) = f[n]
  BY DEF After
<1>. f = [i \in 0..n |-> IF i = 0 THEN s ELSE Pass(x, f[i - 1], i)]
  BY LoopRuns DEF Runs
<1> HIDE DEF f
<1> DEFINE S == {k \in Nat : k <= n => Keeps(x, f[k], k)}
<1>1. 0 \in S
  OBVIOUS
<1>2. ASSUME NEW k \in Nat, k \in S PROVE k + 1 \in S
  <2> SUFFICES ASSUME k + 1 <= n PROVE Keeps(x, f[k + 1], k + 1)
    OBVIOUS
  <2>1. /\ k + 1 \in 0..n /\ k + 1 # 0 /\ (k + 1) - 1 = k /\ k + 1 \in 1..n
        /\ Keeps(x, f[k], k)
    BY <1>2
  <2>2. f[k + 1] = Pass(x, f[k], k + 1)
    BY <2>1
  <2> QED BY <2>1, <2>2
<1> HIDE DEF S
<1>3. n \in S
  BY <1>1, <1>2
<1> QED BY <1>0, <1>3 DEF S
=============================================================================
