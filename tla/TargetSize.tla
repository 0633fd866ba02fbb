----------------------------- MODULE TargetSize -----------------------------
(***************************************************************************)
(* CompareRegion with the points of the revolution remembered, to compare  *)
(* the running sum of compare_region.v with the extent of the targets.     *)
(***************************************************************************)
EXTENDS CompareRegion

VARIABLES
    seen,           \* history: the points judged in this revolution, from 1
    total,          \* history: the width of those inside, up to each of them
    steady          \* history: no new size since the revolution began

allVars == <<vars, seen, total, steady>>

NoneSeen == [k \in 1..(N - 1) |-> [pos |-> 0, in |-> FALSE]]
NoWidth == [k \in 0..(N - 1) |-> 0]

SizedInit == Init /\ seen = NoneSeen /\ total = NoWidth /\ steady = TRUE

(* A point is judged by the boundary read after it. *)
Judging == rd_cnt' = rd_cnt + 1 /\ rd_cnt' < N
WidthInside(pos, edge) == IF Inside(pos, edge) THEN range_des(pos) ELSE 0

Remember ==
    /\ seen' = IF ~cycle' THEN NoneSeen
               ELSE IF ~Judging THEN seen
               ELSE [seen EXCEPT ![rd_cnt'] =
                        [pos |-> target_pos_r0', in |-> Inside(target_pos_r0', rddata')]]
    /\ total' = IF ~cycle' THEN NoWidth
                ELSE IF ~Judging THEN total
                ELSE [total EXCEPT ![rd_cnt'] = total[rd_cnt] + WidthInside(target_pos_r0', rddata')]

SizedNext ==
    /\ Next
    /\ Remember
    /\ steady' = (~cycle' \/ (steady /\ min_target_size' = min_target_size))

SizedSpec == SizedInit /\ [][SizedNext]_allVars

-----------------------------------------------------------------------------
(* The points judged so far: the last of the sector is not. *)
Judged == 1..(IF rd_cnt = N THEN N - 1 ELSE rd_cnt)

(* Points i to j belong together: no two neighbours are 50 mm apart. *)
Connected(i, j) == \A k \in (i + 1)..j : ~Jump(seen[k].pos, seen[k - 1].pos)

(* The width of those among them that are inside. *)
Width(i, j) == total[j] - total[i - 1]

(* A target all of whose points are inside is large enough without its      *)
(* first point; a target is large enough with its last point counted twice. *)
Large(i, j) == (\A k \in i..j : seen[k].in) /\ Width(i + 1, j) >= min_target_size_f
Larger(i, j) == Width(i, j) + Width(j, j) >= min_target_size_f

(* The minimal size is respected to within the width of one point, although *)
(* sum_r0 loses the first point of a target, counts the last one twice and  *)
(* is restarted by a comparison that may itself be in transition: a target  *)
(* that is large enough without its first point is seen, and what is seen   *)
(* is large enough with its last point counted twice.                       *)
SizeRespected ==
    (cycle /\ steady /\ min_target_size > 0) =>
       /\ \A j \in Judged : \A i \in 1..j : Connected(i, j) /\ Large(i, j) => ~region_flag
       /\ ~region_flag => \E j \in Judged : \E i \in 1..j : Connected(i, j) /\ Larger(i, j)
=============================================================================
