-------------------------------- MODULE Driver --------------------------------
(***************************************************************************)
(* ./test [option...] [test ...]: the command line, the choice of tests by *)
(* mask, and the times of the loops, summed up by type and altogether.     *)
(* What a test measures is TestTable's; a loop takes LoopTime.             *)
(***************************************************************************)
EXTENDS TestTable, SequencesExt

CONSTANTS
    DefaultCount,   \* 10*1000*1000
    Kilo,           \* 1024
    UintSize,       \* 2^32
    UlonglongSize,  \* 2^64
    LoopTime,       \* the time of a loop of each group of methods
    CommandLines    \* bound: the command lines considered

Groups == {"old", "prm", "get", "new"}

Forms == {"-?", "--help", "--verbose", "--verbose=", "--vm", "--int32", "--int32=",
          "--big-test", "--big-test=", "--seed=", "--count=", "--unknown", "mask"}

(* An argument is a record: the form it has, the number that follows an    *)
(* equals sign (val), the letter behind it (suffix), or the mask, a prefix *)
(* of a test's name word by word (mask).                                   *)
Arguments == [form : Forms, val : Int, suffix : STRING, mask : Seq(STRING)]

ASSUME DriverBounds ==
    /\ Kilo \in Nat \ {0}
    /\ UintSize \in Nat \ {0} /\ UintSize % 2 = 0
    /\ UlonglongSize \in Nat \ {0} /\ UlonglongSize % 2 = 0
    /\ DefaultCount \in 0 .. UlonglongSize - 1
    /\ LoopTime \in [Groups -> Nat]
    /\ \A line \in CommandLines : line \in Seq(Arguments)

(* Numbers are ints, for which alone atoi() is defined, and the arguments  *)
(* are not so many that --big-test could be counted beyond an uint.        *)
ASSUME OptionBounds ==
    /\ 4 <= UintSize /\ UintSize <= UlonglongSize
    /\ \A line \in CommandLines :
         /\ Len(line) <= UintSize \div 2
         /\ \A i \in DOMAIN line :
              line[i].form \in {"--int32=", "--big-test="} =>
                 line[i].val \in -(UintSize \div 2) .. (UintSize \div 2) - 1

VARIABLES
    args,       \* argv behind the program's name
    opt,        \* the Options
    used,       \* m_used_options - 1
    pc,         \* "parse", "run", "exit"
    masks,      \* the masks not run yet
    test,       \* the place in the table for the mask that is run
    stt,        \* the MethodStatByType
    code,       \* the exit code
    ran         \* history: which mask and which place in the table a test ran for

driverVars == <<args, opt, used, pc, masks, test, stt, code, ran>>

-----------------------------------------------------------------------------
(* Options. *)

(* uint m_big_test, m_seed; bool m_int32api; ulonglong m_count. *)
OptionSet == [error : BOOLEAN, vm : BOOLEAN, int32api : BOOLEAN,
              big_test : 0 .. UintSize - 1, seed : 0 .. UintSize - 1,
              count : 0 .. UlonglongSize - 1]

Saturated(v) == LET h == UlonglongSize \div 2
                IN  IF v >= h THEN h - 1 ELSE IF v < -h THEN -h ELSE v

(* (uint) atoi(): strtol() and the low bits. *)
Atoi(v) == Saturated(v) % UintSize

(* strtoll() and the size suffix; *= wraps. *)
Factor(suffix) ==
    CASE suffix = "k" -> Kilo
      [] suffix = "m" -> Kilo * Kilo
      [] OTHER        -> 1

\* Seeded fault: a negative value is taken as it is.
FaultySetCount(o, a) == [o EXCEPT !.count = Saturated(a.val) * Factor(a.suffix)]

SetCount(o, a) ==
    IF Saturated(a.val) < 0 THEN [o EXCEPT !.error = TRUE]
    ELSE [o EXCEPT !.count = (Saturated(a.val) * Factor(a.suffix)) % UlonglongSize]

(* get_one_option(). *)
Apply(o, a) ==
    CASE a.form \in {"-?", "--help", "--unknown"} -> [o EXCEPT !.error = TRUE]
      [] a.form = "--vm"        -> [o EXCEPT !.vm = TRUE]
      [] a.form = "--int32"     -> [o EXCEPT !.int32api = TRUE]
      [] a.form = "--int32="    -> [o EXCEPT !.int32api = Atoi(a.val) # 0]
      [] a.form = "--big-test"  -> [o EXCEPT !.big_test = (@ + 1) % UintSize]
      [] a.form = "--big-test=" -> [o EXCEPT !.big_test = Atoi(a.val)]
      [] a.form = "--seed="     -> [o EXCEPT !.seed = Atoi(a.val)]
      [] a.form = "--count="    -> SetCount(o, a)
      [] OTHER                  -> o

(* An argument that is no option, or an unknown one, ends the options. *)
IsOption(a) == a.form \notin {"--unknown", "mask"}

-----------------------------------------------------------------------------
(* Tests and their times. *)

(* Test_random measures its root, whichever type that has, and is last. *)
Random == Len(AllFixed) + 1

Name(i) == IF i = Random THEN <<"random">> ELSE AllFixed[i].name

\* Seeded fault: the big test is run with all others by default.
FaultyMatches(i, mask) == opt.big_test < 2 /\ IsPrefix(mask, Name(i))

Matches(i, mask) ==
    /\ IF i = Random THEN opt.big_test > 0 ELSE opt.big_test < 2
    /\ IsPrefix(mask, Name(i))

RootTypes == {"bool", "longlong", "double", "decimal"}

FixedAsks ==
    [api \in BOOLEAN |-> [i \in DOMAIN AllFixed |->
       LET asked == Asks(AllFixed[i], api) IN [j \in DOMAIN asked |-> asked[j].t]]]

(* What test i may measure: the random test any root. *)
AsksOf(i) ==
    IF i # Random THEN {FixedAsks[opt.int32api][i]}
    ELSE {IF opt.int32api /\ root = "longlong" THEN <<"int32", "longlong">> ELSE <<root>> :
            root \in RootTypes}

Loops(asked, T) == Cardinality({j \in DOMAIN asked : asked[j] = T})

(* MethodStatByType of a test: four loops for each of its measurements. *)
Times(asked) == [T \in ValueTypes |-> [m \in Groups |-> Loops(asked, T) * LoopTime[m]]]

NoTime == [T \in ValueTypes |-> [m \in Groups |-> 0]]

(* MethodStat::operator+, member by member. *)
AddTimes(st, other) ==
    [old |-> st.old + other.old, prm |-> st.prm + other.prm,
     get |-> st.get + other.get, new |-> st.new + other.new]

\* Seeded fault: the int32 methods are left out.
FaultyAdded(stat, other) ==
    [bool     |-> AddTimes(stat.bool, other.bool),
     int32    |-> stat.int32,
     longlong |-> AddTimes(stat.longlong, other.longlong),
     double   |-> AddTimes(stat.double, other.double),
     decimal  |-> AddTimes(stat.decimal, other.decimal)]

(* MethodStatByType::operator+=, member by member. *)
Added(stat, other) ==
    [bool     |-> AddTimes(stat.bool, other.bool),
     int32    |-> AddTimes(stat.int32, other.int32),
     longlong |-> AddTimes(stat.longlong, other.longlong),
     double   |-> AddTimes(stat.double, other.double),
     decimal  |-> AddTimes(stat.decimal, other.decimal)]

(* MethodStatByType::total() *)
Total(stat) ==
    [m \in Groups |->
       stat["bool"][m] + stat["int32"][m] + stat["longlong"][m] + stat["double"][m]
         + stat["decimal"][m]]

-----------------------------------------------------------------------------
Init ==
    /\ args \in CommandLines
    /\ opt = [error |-> FALSE, vm |-> FALSE, int32api |-> FALSE, big_test |-> 0, seed |-> 0,
              count |-> DefaultCount]
    /\ used = 0
    /\ pc = "parse"
    /\ masks = <<>> /\ test = 1 /\ stt = NoTime /\ code = 0 /\ ran = <<>>

(* The loop of Options::Options(). *)
ParseOption ==
    /\ pc = "parse"
    /\ used < Len(args)
    /\ IsOption(args[used + 1])
    /\ opt' = Apply(opt, args[used + 1])
    /\ used' = used + 1
    /\ UNCHANGED <<args, pc, masks, test, stt, code, ran>>

Parsed == used < Len(args) => ~IsOption(args[used + 1])

LastOptions == IF used = Len(args) THEN opt ELSE Apply(opt, args[used + 1])

(* usage(); return 1. *)
Usage ==
    /\ pc = "parse"
    /\ Parsed
    /\ LastOptions.error
    /\ opt' = LastOptions
    /\ pc' = "exit"
    /\ code' = 1
    /\ UNCHANGED <<args, used, masks, test, stt, ran>>

(* The mask of an argument: nothing matches what begins with a dash. *)
NoTest == <<"-">>
MaskOf(a) == IF a.form = "mask" THEN a.mask ELSE NoTest

Masks ==
    IF used = Len(args) THEN <<<<>>>>
    ELSE [i \in 1 .. Len(args) - used |-> MaskOf(args[used + i])]

RunTests ==
    /\ pc = "parse"
    /\ Parsed
    /\ ~LastOptions.error
    /\ pc' = "run"
    /\ masks' = Masks
    /\ UNCHANGED <<args, opt, used, test, stt, code, ran>>

(* tests[i]->run(opt), if it matches. *)
RunTest ==
    /\ pc = "run" /\ masks # <<>> /\ test <= Random
    /\ Matches(test, Head(masks))
    /\ \E asked \in AsksOf(test) : stt' = Added(stt, Times(asked))
    /\ ran' = Append(ran, <<Len(Masks) - Len(masks) + 1, test>>)
    /\ test' = test + 1
    /\ UNCHANGED <<args, opt, used, pc, masks, code>>

SkipTest ==
    /\ pc = "run" /\ masks # <<>> /\ test <= Random
    /\ ~Matches(test, Head(masks))
    /\ test' = test + 1
    /\ UNCHANGED <<args, opt, used, pc, masks, stt, code, ran>>

\* Seeded fault: the mask that matches nothing is tried again.
FaultyNextMask ==
    /\ pc = "run" /\ masks # <<>> /\ test > Random
    /\ masks' = IF Head(masks) = NoTest THEN masks ELSE Tail(masks)
    /\ test' = 1
    /\ UNCHANGED <<args, opt, used, pc, stt, code, ran>>

(* run(argv[i], opt) returns. *)
NextMask ==
    /\ pc = "run" /\ masks # <<>> /\ test > Random
    /\ masks' = Tail(masks)
    /\ test' = 1
    /\ UNCHANGED <<args, opt, used, pc, stt, code, ran>>

(* The totals are printed; return 0. *)
Finish ==
    /\ pc = "run" /\ masks = <<>>
    /\ pc' = "exit"
    /\ UNCHANGED <<args, opt, used, masks, test, stt, code, ran>>

Next == ParseOption \/ Usage \/ RunTests \/ RunTest \/ SkipTest \/ NextMask \/ Finish

Spec == Init /\ [][Next]_driverVars

FairSpec == Spec /\ WF_driverVars(Next)

-----------------------------------------------------------------------------
(* Properties. *)

TypeOK ==
    /\ opt \in OptionSet
    /\ used \in 0 .. Len(args)
    /\ pc \in {"parse", "run", "exit"}
    /\ test \in 1 .. Random + 1
    /\ stt \in [ValueTypes -> [Groups -> Nat]]
    /\ code \in {0, 1}
    /\ ran \in Seq(Nat \X (1 .. Random))

(* The arguments before the first that does not begin with two dashes. *)
Options == {i \in DOMAIN args : \A j \in 1 .. i : args[j].form # "mask"}

LastOf(forms) == Max({0} \cup {i \in Options : args[i].form \in forms})

(* usage(): --big-test: 0 - disabled, 1 - enabled, 2 - only big tests. *)
BigTest ==
    LET set == LastOf({"--big-test="})
    IN  (IF set = 0 THEN 0 ELSE args[set].val)
          + Cardinality({i \in Options : i > set /\ args[i].form = "--big-test"})

(* usage(): --int32: 0 - disabled (default), 1 - enabled. *)
Int32 ==
    LET i == LastOf({"--int32", "--int32="})
    IN  i # 0 /\ (args[i].form = "--int32" \/ args[i].val # 0)

(* The arguments behind the options, or one mask that is empty. *)
Asked ==
    LET n == Cardinality(Options)
    IN  IF n = Len(args) THEN <<<<>>>> ELSE [k \in 1 .. Len(args) - n |-> MaskOf(args[n + k])]

(* The test at place i is one of those the mask at place k asks for. *)
Chosen(k, i) ==
    /\ IF i = Random THEN BigTest # 0 ELSE BigTest \in {0, 1}
    /\ IsPrefix(Asked[k], Name(i))

Before(r, s) == r[1] < s[1] \/ (r[1] = s[1] /\ r[2] < s[2])

Bad == \E i \in Options :
         \/ args[i].form \in {"-?", "--help", "--unknown"}
         \/ args[i].form = "--count=" /\ args[i].val < 0

(* ./test exits with 0 having run, for each argument behind the options,   *)
(* the tests whose names it begins, in the order of the table; all of them *)
(* if there is none.  A bad option runs nothing.                           *)
RunsWhatWasAsked ==
    pc = "exit" =>
        IF Bad THEN code = 1 /\ ran = <<>>
        ELSE /\ code = 0
             /\ {ran[j] : j \in DOMAIN ran} =
                  {r \in (DOMAIN Asked) \X (1 .. Random) : Chosen(r[1], r[2])}
             /\ \A j, l \in DOMAIN ran : j < l => Before(ran[j], ran[l])

(* Each loop that ran is in the total once, and in that of one type: a     *)
(* measurement of a longlong is two, if the int32 methods are tested.      *)
Measurements(i) == IF i = Random THEN 1 ELSE Len(FixedAsks[Int32][i])

LoopsRun ==
    Cardinality(UNION {{j} \X (1 .. Measurements(ran[j][2])) : j \in DOMAIN ran})

EveryLoopIsTimed ==
    pc = "exit" =>
        \E n \in 0 .. Cardinality({j \in DOMAIN ran : ran[j][2] = Random}) :
          /\ Int32 \/ n = 0
          /\ \A m \in Groups : Total(stt)[m] = (LoopsRun + n) * LoopTime[m]
          /\ stt["int32"] = IF Int32 THEN stt["longlong"] ELSE NoTime["int32"]

(* ./test exits. *)
Exits == <>(pc = "exit")
=============================================================================
