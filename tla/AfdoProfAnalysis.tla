-------------------------- MODULE AfdoProfAnalysis --------------------------
(***************************************************************************)
(* The AFDO profile analysis of afdo_tools/bisection/afdo_prof_analysis.py *)
(* (main, bisect_profiles_wrapper, bisect_profiles, range_search and the   *)
(* two boundary checks), one step per call of the external decider.        *)
(*                                                                         *)
(* A profile is abstracted to the set of common functions that carry their *)
(* payload from the bad profile, and whether the good-only and the         *)
(* bad-only functions are present.  The decider is either a monotone       *)
(* oracle, given by a family of culprit sets (the profile is BAD iff it    *)
(* carries every element of some culprit set), or Flaky, which may answer  *)
(* any return code on any call.  The recursion of bisect_profiles is an    *)
(* explicit stack of frames; the tail-recursive border searches of         *)
(* range_search are loops over the record rs.                              *)
(***************************************************************************)
EXTENDS Integers, Sequences, SequencesExt, FiniteSets

CONSTANTS
  Funcs,              \* the functions with a profile in both good and bad
  BadOnlyFuncs,       \* element of a culprit set: "the bad-only functions are present"
  LacksGoodOnlyFuncs, \* element of a culprit set: "the good-only functions are absent"
  Flaky,              \* the decider that may return any code on any call
  Deciders,           \* the deciders an analysis may face
  NUM_RUNS_RANGE_SEARCH \* _NUM_RUNS_RANGE_SEARCH

Elems == Funcs \cup {BadOnlyFuncs, LacksGoodOnlyFuncs}

ASSUME /\ Funcs # {}
       /\ Deciders \subseteq (SUBSET SUBSET Elems) \cup {Flaky}
       /\ NUM_RUNS_RANGE_SEARCH \in Nat \ {0}

(* status_enum and the return codes an external script can produce *)
GOOD_STATUS == 0
BAD_STATUS == 1
SKIP_STATUS == 125
PROBLEM_STATUS == 127
statuses == {GOOD_STATUS, BAD_STATUS, SKIP_STATUS, PROBLEM_STATUS}
ReturnCodes == statuses \cup {42}

None == -1   \* Python None; like 0, it is falsy in `last_bad_val or hi`

VARIABLES
  decider,       \* the external decider of this run (fixed)
  phase,         \* where main is
  error,         \* the exception that ended the run, if any
  common_funcs,  \* the sorted-then-shuffled common functions
  stack,         \* bisect_profiles frames, innermost last
  rs,            \* the locals of the running range_search
  individuals,   \* results['individuals'] (as a set)
  ranges,        \* results['ranges'] (a set of sets of functions)
  gnb_result,    \* check_good_not_bad
  bng_result     \* check_bad_not_good

vars == <<decider, phase, error, common_funcs, stack, rs,
          individuals, ranges, gnb_result, bng_result>>

-----------------------------------------------------------------------------
(* Profiles and the decider                                                *)

Prof(badFuncs, goodOnly, badOnly) ==
  [bad |-> badFuncs, goodOnly |-> goodOnly, badOnly |-> badOnly]

\* good.copy() with bad[func] spliced in for every func of S
GoodWith(S) == Prof(S, TRUE, FALSE)
GoodProf == GoodWith({})
BadProf == Prof(Funcs, FALSE, TRUE)

\* What a profile carries that the good profile does not.
Active(p) == p.bad \cup (IF p.badOnly THEN {BadOnlyFuncs} ELSE {})
                   \cup (IF p.goodOnly THEN {} ELSE {LacksGoodOnlyFuncs})

IsBad(d, p) == \E c \in d : c \subseteq Active(p)

\* The return codes the external script may give for profile p.
Decide(p) ==
  IF decider = Flaky THEN ReturnCodes
  ELSE {IF IsBad(decider, p) THEN BAD_STATUS ELSE GOOD_STATUS}

\* run(prof, increment_counter) returns a code in statuses and raises
\* ValueError on any other; the call counter only feeds a log line.

-----------------------------------------------------------------------------
(* Python list helpers                                                     *)

Slice(s, a, b) == SubSeq(s, a + 1, b)             \* s[a:b]
Elements(s) == ToSet(s)
IndexOf(s, e) == SelectInSeq(s, LAMBDA x : x = e) - 1   \* s.index(e)
PyOr(x, d) == IF x \in {None, 0} THEN d ELSE x   \* `x or d`
average(x, y) == (x + y + 1) \div 2               \* int(round((x+y)/2.0)), Python 2

-----------------------------------------------------------------------------
(* bisect_profiles frames                                                  *)

Frame(lo, hi) == [lo |-> lo, hi |-> hi, pc |-> "enter",
                  lo_mid_verdict |-> None, mid_hi_verdict |-> None]
Top == stack[Len(stack)]
SetTop(f) == stack' = [stack EXCEPT ![Len(stack)] = f]
Mid(f) == (f.lo + f.hi) \div 2

\* Seeded bugs of the base case `if hi - lo <= 1`.
IsBaseTooLow(f) == f.hi - f.lo < 1
IsBaseTooHigh(f) == f.hi - f.lo <= 2
IsBase(f) == f.hi - f.lo <= 1
LoMidProf(f) == GoodWith(Elements(Slice(common_funcs, f.lo, Mid(f))))
MidHiProf(f) == GoodWith(Elements(Slice(common_funcs, Mid(f), f.hi)))

\* Returning from a frame; the outermost return ends the bisection.
Return ==
  /\ stack' = Front(stack)
  /\ phase' = IF Len(stack) = 1 THEN "good_not_bad" ELSE phase

NoSearch == [pc |-> "idle"]

-----------------------------------------------------------------------------
(* main and bisect_profiles_wrapper                                        *)

Init ==
  /\ decider \in Deciders
  /\ phase = "validate_good"
  /\ error = "none"
  /\ common_funcs = <<>>
  /\ stack = <<>>
  /\ rs = NoSearch
  /\ individuals = {}
  /\ ranges = {}
  /\ gnb_result = FALSE
  /\ bng_result = FALSE

ValidateGood ==
  /\ phase = "validate_good"
  /\ \E rc \in Decide(GoodProf) \cap statuses :
       IF rc # GOOD_STATUS
       THEN phase' = "failed" /\ error' = "good_not_good"
       ELSE phase' = "validate_bad" /\ error' = error
  /\ UNCHANGED <<decider, common_funcs, stack, rs, individuals,
                 ranges, gnb_result, bng_result>>

\* The second check, then sorting and shuffling the common functions and
\* starting bisect_profiles over all of them.
ValidateBad ==
  /\ phase = "validate_bad"
  /\ \E rc \in Decide(BadProf) \cap statuses :
       IF rc # BAD_STATUS
       THEN /\ phase' = "failed" /\ error' = "bad_not_bad"
            /\ UNCHANGED <<common_funcs, stack>>
       ELSE /\ error' = error
            /\ \E order \in SetToSeqs(Funcs) :
                 /\ common_funcs' = order
                 /\ stack' = << Frame(0, Len(order)) >>
            /\ phase' = "bisect"
  /\ UNCHANGED <<decider, rs, individuals, ranges, gnb_result,
                 bng_result>>

CheckGoodNotBad ==
  /\ phase = "good_not_bad"
  /\ \E rc \in Decide(Prof(Funcs, TRUE, TRUE)) \cap statuses :
       /\ gnb_result' = (rc = GOOD_STATUS)
  /\ phase' = "bad_not_good"
  /\ UNCHANGED <<decider, error, common_funcs, stack, rs, individuals, ranges,
                 bng_result>>

CheckBadNotGood ==
  /\ phase = "bad_not_good"
  /\ \E rc \in Decide(Prof({}, TRUE, TRUE)) \cap statuses :
       /\ bng_result' = (rc = BAD_STATUS)
  /\ phase' = "done"
  /\ UNCHANGED <<decider, error, common_funcs, stack, rs, individuals, ranges,
                 gnb_result>>

-----------------------------------------------------------------------------
(* bisect_profiles                                                          *)

InBisect == phase = "bisect" /\ rs.pc = "idle"

\* hi - lo <= 1: common_funcs[lo] is reported as problematic.
BisectBase ==
  /\ InBisect /\ Top.pc = "enter" /\ IsBase(Top)
  /\ individuals' = individuals \cup {common_funcs[Top.lo + 1]}
  /\ Return
  /\ UNCHANGED <<decider, error, common_funcs, rs, ranges,
                 gnb_result, bng_result>>

BisectLoMid ==
  /\ InBisect /\ Top.pc = "enter" /\ ~IsBase(Top)
  /\ \E rc \in Decide(LoMidProf(Top)) \cap statuses :
       /\ SetTop([Top EXCEPT !.lo_mid_verdict = rc, !.pc = "mid_hi"])
  /\ UNCHANGED <<decider, phase, error, common_funcs, rs, individuals, ranges,
                 gnb_result, bng_result>>

BisectMidHi ==
  /\ InBisect /\ Top.pc = "mid_hi"
  /\ \E rc \in Decide(MidHiProf(Top)) \cap statuses :
       /\ SetTop([Top EXCEPT !.mid_hi_verdict = rc, !.pc = "rec_lo"])
  /\ UNCHANGED <<decider, phase, error, common_funcs, rs, individuals, ranges,
                 gnb_result, bng_result>>

\* if lo_mid_verdict == BAD: recurse into [lo, mid)
BisectRecurseLo ==
  /\ InBisect /\ Top.pc = "rec_lo"
  /\ LET f == [Top EXCEPT !.pc = "rec_hi"] IN
       stack' = IF Top.lo_mid_verdict = BAD_STATUS
                THEN Append(Front(stack) \o <<f>>, Frame(Top.lo, Mid(Top)))
                ELSE Front(stack) \o <<f>>
  /\ UNCHANGED <<decider, phase, error, common_funcs, rs,
                 individuals, ranges, gnb_result, bng_result>>

\* if mid_hi_verdict == BAD: recurse into [mid, hi)
BisectRecurseHi ==
  /\ InBisect /\ Top.pc = "rec_hi"
  /\ LET f == [Top EXCEPT !.pc = "join"] IN
       stack' = IF Top.mid_hi_verdict = BAD_STATUS
                THEN Append(Front(stack) \o <<f>>, Frame(Mid(Top), Top.hi))
                ELSE Front(stack) \o <<f>>
  /\ UNCHANGED <<decider, phase, error, common_funcs, rs,
                 individuals, ranges, gnb_result, bng_result>>

\* The locals of range_search(decider, good, bad, common_funcs, lo, hi) on entry.
RangeSearchEntry(lo, hi) ==
  [pc |-> "trial", lo |-> lo, hi |-> hi, mid |-> (lo + hi) \div 2,
   trial |-> 0, lo_mid_funcs |-> <<>>, mid_hi_funcs |-> <<>>,
   min_range_funcs |-> <<>>, funcs |-> <<>>, prof |-> {},
   blo |-> 0, bhi |-> 0, last |-> None, upper_border |-> 0]

\* Seeded bug: range_search is called over the whole list, not [lo, hi).
BisectJoinWholeList ==
  /\ InBisect /\ Top.pc = "join"
  /\ IF Top.lo_mid_verdict = GOOD_STATUS /\ Top.mid_hi_verdict = GOOD_STATUS
     THEN /\ SetTop([Top EXCEPT !.pc = "ranged"])
          /\ rs' = RangeSearchEntry(0, Len(common_funcs))
          /\ UNCHANGED phase
     ELSE Return /\ UNCHANGED rs
  /\ UNCHANGED <<decider, error, common_funcs, individuals, ranges,
                 gnb_result, bng_result>>

\* Both halves GOOD: range_search(lo, hi) is called; otherwise return.
BisectJoin ==
  /\ InBisect /\ Top.pc = "join"
  /\ IF Top.lo_mid_verdict = GOOD_STATUS /\ Top.mid_hi_verdict = GOOD_STATUS
     THEN /\ SetTop([Top EXCEPT !.pc = "ranged"])
          /\ rs' = RangeSearchEntry(Top.lo, Top.hi)
          /\ UNCHANGED phase
     ELSE Return /\ UNCHANGED rs
  /\ UNCHANGED <<decider, error, common_funcs, individuals, ranges,
                 gnb_result, bng_result>>

-----------------------------------------------------------------------------
(* range_search                                                            *)

InRange(pc) == phase = "bisect" /\ rs.pc = pc

\* The probes of find_upper_border and find_lower_border.
UpperProbe == GoodWith(rs.prof \cup Elements(Slice(rs.funcs, rs.blo, average(rs.blo, rs.bhi))))
LowerProbe == GoodWith(rs.prof \ Elements(Slice(rs.funcs, rs.blo, average(rs.blo, rs.bhi))))
Probing == average(rs.blo, rs.bhi) \notin {rs.blo, rs.bhi}

\* What the border searches return once the interval has degenerated.
UpperBorder == PyOr(rs.last, rs.bhi)        \* `last_bad_val or hi`
LowerBorderOrHi == PyOr(rs.last, rs.bhi)    \* seeded bug: copied from the upper search
LowerBorder == PyOr(rs.last, rs.blo)        \* `last_bad_val or lo`
CurrRange == Slice(rs.funcs, LowerBorder, rs.upper_border)

\* range_search returns the sorted min_range_funcs to bisect_profiles,
\* which appends it to results['ranges'] if it is not empty and returns.
RangeReturn(minRange) ==
  /\ ranges' = IF minRange = <<>> THEN ranges ELSE ranges \cup {Elements(minRange)}
  /\ rs' = NoSearch
  /\ Return

\* Seeded bug: the trial is not counted.
RangeTrialNoCount ==
  /\ InRange("trial") /\ rs.trial < NUM_RUNS_RANGE_SEARCH
  /\ \E pools \in IF rs.min_range_funcs # <<>>
                  THEN SetToSeqs(Elements(rs.lo_mid_funcs)) \X SetToSeqs(Elements(rs.mid_hi_funcs))
                  ELSE {<< Slice(common_funcs, rs.lo, (rs.lo + rs.hi) \div 2),
                           Slice(common_funcs, (rs.lo + rs.hi) \div 2, rs.hi) >>} :
       LET funcs == pools[1] \o pools[2] IN
       rs' = [rs EXCEPT !.pc = "upper",
                        !.lo_mid_funcs = pools[1], !.mid_hi_funcs = pools[2],
                        !.funcs = funcs, !.hi = Len(funcs), !.mid = Len(pools[1]),
                        !.lo = 0, !.prof = Elements(pools[1]),
                        !.blo = Len(pools[1]), !.bhi = Len(funcs), !.last = None]
  /\ UNCHANGED <<decider, phase, error, common_funcs, stack,
                 individuals, ranges, gnb_result, bng_result>>

\* One round of `for _ in range(_NUM_RUNS_RANGE_SEARCH)`: choose the pools
\* and start find_upper_border(prof, funcs, mid, hi).
RangeTrial ==
  /\ InRange("trial") /\ rs.trial < NUM_RUNS_RANGE_SEARCH
  /\ \E pools \in IF rs.min_range_funcs # <<>>
                  THEN SetToSeqs(Elements(rs.lo_mid_funcs)) \X SetToSeqs(Elements(rs.mid_hi_funcs))
                  ELSE {<< Slice(common_funcs, rs.lo, (rs.lo + rs.hi) \div 2),
                           Slice(common_funcs, (rs.lo + rs.hi) \div 2, rs.hi) >>} :
       LET funcs == pools[1] \o pools[2] IN
       rs' = [rs EXCEPT !.pc = "upper", !.trial = @ + 1,
                        !.lo_mid_funcs = pools[1], !.mid_hi_funcs = pools[2],
                        !.funcs = funcs, !.hi = Len(funcs), !.mid = Len(pools[1]),
                        !.lo = 0, !.prof = Elements(pools[1]),
                        !.blo = Len(pools[1]), !.bhi = Len(funcs), !.last = None]
  /\ UNCHANGED <<decider, phase, error, common_funcs, stack,
                 individuals, ranges, gnb_result, bng_result>>

RangeExhausted ==
  /\ InRange("trial") /\ rs.trial = NUM_RUNS_RANGE_SEARCH
  /\ RangeReturn(rs.min_range_funcs)
  /\ UNCHANGED <<decider, error, common_funcs, individuals,
                 gnb_result, bng_result>>

\* find_upper_border: splice bad in for funcs[lo:mid], ask, reset every
\* func of funcs to good, recurse into the half the verdict selects.
FindUpperBorderProbe ==
  /\ InRange("upper") /\ Probing
  /\ \E rc \in Decide(UpperProbe) \cap statuses :
       LET m == average(rs.blo, rs.bhi) IN
       /\ rs' = [rs EXCEPT !.prof = @ \ Elements(rs.funcs),
                           !.blo = IF rc = BAD_STATUS THEN @ ELSE m,
                           !.bhi = IF rc = BAD_STATUS THEN m ELSE @,
                           !.last = IF rc = BAD_STATUS THEN m ELSE @]
  /\ UNCHANGED <<decider, phase, error, common_funcs, stack, individuals,
                 ranges, gnb_result, bng_result>>

\* The border is `last_bad_val or hi`; bad is spliced in for lo_mid_funcs
\* and funcs[mid:upper_border], and find_lower_border(prof, funcs, lo, mid)
\* starts.
FindUpperBorderDone ==
  /\ InRange("upper") /\ ~Probing
  /\ LET upper == UpperBorder IN
       rs' = [rs EXCEPT !.pc = "lower", !.upper_border = upper,
                        !.prof = @ \cup Elements(rs.lo_mid_funcs)
                                   \cup Elements(Slice(rs.funcs, rs.mid, upper)),
                        !.blo = rs.lo, !.bhi = rs.mid, !.last = None]
  /\ UNCHANGED <<decider, phase, error, common_funcs, stack,
                 individuals, ranges, gnb_result, bng_result>>

\* find_lower_border: splice good in for funcs[lo:mid], ask, reset every
\* func of funcs to bad, recurse into the half the verdict selects.
FindLowerBorderProbe ==
  /\ InRange("lower") /\ Probing
  /\ \E rc \in Decide(LowerProbe) \cap statuses :
       LET m == average(rs.blo, rs.bhi) IN
       /\ rs' = [rs EXCEPT !.prof = @ \cup Elements(rs.funcs),
                           !.blo = IF rc = BAD_STATUS THEN m ELSE @,
                           !.bhi = IF rc = BAD_STATUS THEN @ ELSE m,
                           !.last = IF rc = BAD_STATUS THEN rs.blo ELSE @]
  /\ UNCHANGED <<decider, phase, error, common_funcs, stack, individuals,
                 ranges, gnb_result, bng_result>>

\* The border is `last_bad_val or lo`; funcs[lower:upper] replaces the
\* best range if shorter, the pools are narrowed to it, and a range of two
\* ends the search.
FindLowerBorderDone ==
  /\ InRange("lower") /\ ~Probing
  /\ LET curr == CurrRange
         better == rs.min_range_funcs = <<>> \/ Len(curr) < Len(rs.min_range_funcs)
         loMid == Slice(rs.lo_mid_funcs, IndexOf(rs.lo_mid_funcs, curr[1]),
                        Len(rs.lo_mid_funcs))
         midHi == Slice(rs.mid_hi_funcs, 0, IndexOf(rs.mid_hi_funcs, curr[Len(curr)]) + 1)
     IN \/ /\ better /\ Len(curr) = 2
           /\ RangeReturn(curr)
        \/ /\ ~(better /\ Len(curr) = 2)
           /\ rs' = IF better
                    THEN [rs EXCEPT !.pc = "trial", !.min_range_funcs = curr,
                                    !.lo_mid_funcs = loMid, !.mid_hi_funcs = midHi]
                    ELSE [rs EXCEPT !.pc = "trial"]
           /\ UNCHANGED <<ranges, stack, phase>>
  /\ UNCHANGED <<decider, error, common_funcs, individuals,
                 gnb_result, bng_result>>

-----------------------------------------------------------------------------

\* Any call whose script exits with a code outside statuses raises.
Pending ==
  CASE phase = "validate_good" -> {GoodProf}
    [] phase = "validate_bad" -> {BadProf}
    [] phase = "good_not_bad" -> {Prof(Funcs, TRUE, TRUE)}
    [] phase = "bad_not_good" -> {Prof({}, TRUE, TRUE)}
    [] phase = "bisect" /\ rs.pc = "idle" /\ Top.pc = "enter"
                       /\ ~IsBase(Top) -> {LoMidProf(Top)}
    [] phase = "bisect" /\ rs.pc = "idle" /\ Top.pc = "mid_hi" -> {MidHiProf(Top)}
    [] InRange("upper") /\ Probing -> {UpperProbe}
    [] InRange("lower") /\ Probing -> {LowerProbe}
    [] OTHER -> {}

UnexpectedReturnCode ==
  /\ \E p \in Pending : \E rc \in Decide(p) : rc \notin statuses
  /\ phase' = "failed"
  /\ error' = "unexpected_return_code"
  /\ UNCHANGED <<decider, common_funcs, stack, rs, individuals,
                 ranges, gnb_result, bng_result>>

Terminated == phase \in {"done", "failed"}

Next ==
  \/ UnexpectedReturnCode
  \/ ValidateGood \/ ValidateBad
  \/ BisectBase \/ BisectLoMid \/ BisectMidHi
  \/ BisectRecurseLo \/ BisectRecurseHi \/ BisectJoin
  \/ RangeTrial \/ RangeExhausted
  \/ FindUpperBorderProbe \/ FindUpperBorderDone
  \/ FindLowerBorderProbe \/ FindLowerBorderDone
  \/ CheckGoodNotBad \/ CheckBadNotGood

\* main is one thread of control that calls the script synchronously and
\* waits for it; assuming the script returns, it keeps taking steps.
Spec == Init /\ [][Next]_vars /\ WF_vars(Next)

-----------------------------------------------------------------------------
(* Properties                                                              *)

TypeOK ==
  /\ decider \in Deciders
  /\ phase \in {"validate_good", "validate_bad", "bisect", "good_not_bad",
                "bad_not_good", "done", "failed"}
  /\ common_funcs \in Seq(Funcs)
  /\ individuals \subseteq Funcs
  /\ ranges \subseteq SUBSET Funcs
  /\ gnb_result \in BOOLEAN /\ bng_result \in BOOLEAN
  /\ \A i \in DOMAIN stack : 0 <= stack[i].lo /\ stack[i].lo < stack[i].hi
                            /\ stack[i].hi <= Len(common_funcs)

SingleBad(f) == IsBad(decider, GoodWith({f}))

(* With a monotone decider, the individuals bisect_profiles reports are    *)
(* exactly the common functions whose bad profile alone makes the good     *)
(* profile BAD (spec section 8).  It needs the verdicts of a whole chain   *)
(* of recursive calls, and their base case `hi - lo <= 1`, to agree.       *)
IndividualsExact ==
  (phase = "done" /\ decider # Flaky) =>
     individuals = {f \in Funcs : SingleBad(f)}

(* Every range bisect_profiles reports is one "such that including all of  *)
(* those from the bad profile makes the good profile BAD" (its docstring): *)
(* with a monotone decider, the good profile with that range spliced in is *)
(* BAD.                                                                    *)
RangesAreBad ==
  (phase = "done" /\ decider # Flaky) =>
     \A r \in ranges : IsBad(decider, GoodWith(r))

(* Whatever the decider answers, when find_lower_border has returned, the  *)
(* new range funcs[lower:upper] starts in lo_mid_funcs and ends in         *)
(* mid_hi_funcs, so the .index() calls that narrow the pools cannot raise. *)
NarrowingIndexDefined ==
  (InRange("lower") /\ ~Probing) =>
     /\ CurrRange # <<>>
     /\ CurrRange[1] \in Elements(rs.lo_mid_funcs)
     /\ CurrRange[Len(CurrRange)] \in Elements(rs.mid_hi_funcs)

(* A range that range_search hands back to bisect_profiles lies inside the *)
(* frame's interval common_funcs[lo:hi] and has functions on both sides of *)
(* its midpoint, across all the shuffles and narrowings of the trials.     *)
RangeStraddlesMid ==
  [][ rs.pc # "idle" /\ rs'.pc = "idle" =>
        \A r \in ranges' \ ranges :
          /\ r \subseteq Elements(Slice(common_funcs, Top.lo, Top.hi))
          /\ r \cap Elements(Slice(common_funcs, Top.lo, Mid(Top))) # {}
          /\ r \cap Elements(Slice(common_funcs, Mid(Top), Top.hi)) # {} ]_vars

(* The analysis always ends, with a report or an exception: every          *)
(* recursion and every border search shrinks its interval, and the range   *)
(* search stops after _NUM_RUNS_RANGE_SEARCH trials.                       *)
Termination == <>Terminated

=============================================================================
