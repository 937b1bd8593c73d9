---------------------------- MODULE MCVerifiedCode ----------------------------
(***************************************************************************)
(* The certificates of the programs of MCStackEval: the configurations     *)
(* that are reached from the start.                                        *)
(***************************************************************************)
EXTENDS MCStackEval, VerifiedCode

\* What c leads to in code, as far as c is legal.
Demanded(prompt, code, c) ==
  Trapped(code, c) \cup
    (IF c.pc \in 0..Len(code) - 1 /\ Legal(prompt, code[c.pc + 1], c)
     THEN After(code[c.pc + 1], c) ELSE {})

\* The configurations that are found from new ones and the found ones.
RECURSIVE Closure(_, _, _, _)
Closure(prompt, code, found, new) ==
  IF new = {} THEN found
  ELSE UNION {Closure(prompt, code, all, next \ all) :
                all \in {found \cup new},
                next \in {UNION {Demanded(prompt, code, c) : c \in new}}}

Reached(code) == Closure(code \in DebugCodes, code, {}, {Start(code \in DebugCodes)})
=============================================================================
