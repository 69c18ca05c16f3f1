# Item value methods: a verification development

The program compares four ways a SQL expression tree can hand a value *and* a
NULL flag to its caller, and measures their speed. Its results mean something
only if the four ways compute the same thing, so that is what is specified here:
whatever expression is built, and whichever type is asked of it, each group of
value methods answers what SQL says, or we know exactly for which expressions it
does not.

All of the project is in this directory: `*.tla`, one `.cfg` per TLC run, and
`PROJECT.json`, which ties every definition to the lines it models.

## 1. Inventory

| part | code | state it keeps | operations |
|---|---|---|---|
| literals | `item.h` | the value; `null_value`, set by the constructor | construction, the value methods of four groups in five types |
| functions | `item_func.h`, `item_func.cc` | `args`, the merged field type (or `cmp_type`, `m_arg0_field_type`); `null_value`, *not* initialised | the same, each calling its arguments' methods |
| type resolution, comparator | `item_func.h` (`Hybrid_field_type`, `Arg_comparator`) | none | merging field types, comparing in the merged type |
| nullable values | `sql_type_*.h` | a number and a flag | `neg()`, `+=`, `\|=` |
| test loops | `item_test.cc` | a counter, a sum, one result per iteration | call a method `count` times, add up what is not NULL |
| test driver | `test.cc` | the items of a test, the times by type and in total | choose tests by mask, build trees, run the four loops of each type |
| virtual machine | `vm.cc`, `vm.h`, `gen()` | a program, seven registers | generate code, execute it on every iteration |
| variant items | `namespace variant` | as literals and functions, integers only | `to_xxx_null()` through a tagged union |
| random generator | `generate_tree`, `generate_node`, `node_factory` | the vector that owns the items, the calls in progress with their depth left | build a random tree |
| options | `opt.h` | counts, masks and switches | parse the command line |
| Google Benchmark driver | `gbench.cc` | none | call every method in every type |
| decimal library | `decimal.c` | digit buffers, with what earlier numbers left in them | sum, difference, product, quotient, remainder, comparison, rounding, shift, text, binary columns, sizes |
| dtoa, `variant.hpp`, timer, printing | | | vendored, or output |

Decimals are passed by pointer: `val_decimal(buf)` may return its caller's buffer, a literal's
own number, or what its argument returned, and one buffer serves several calls.

Everything interacts through method calls: driver -> item -> argument -> ...,
one thread, no callbacks, nothing persistent. The four groups differ in where
the NULL flag travels, and that is what is hard to get right:

* `val_xxx()` (*old*): in the member `null_value` of the callee. It is garbage
  before the first call and a leftover afterwards; an item may be shared by
  several parents; every caller must read it after, and only after, a call that
  wrote it.
* `val_xxx_null(bool *)` (*prm*): through a pointer, mostly the caller's own,
  passed on; sometimes that of a local. No variable pointed at is initialised.
* `get_xxx(T *)` (*get*): returned, while the number goes through a pointer and
  stays unwritten when the answer is NULL.
* `to_xxx_null()` (*new*): a struct by value. The number under a raised flag is
  an ordinary one.

A test compares two sums of one fixed expression; the mistakes are in
combinations of classes, argument orders, literal classes and leftovers that
nobody wrote down. `PROJECT.json` lists these hazards at their lines.

What makes each part correct: items answer the SQL value (`GetAnswerCorrect`, `OldAnswers`,
`PrmAnswers`, `NewAnswers`, `VariantAnswers`, and the conventions between callers and callees
they rest on); the type rules never lead to a conversion that loses a value (`DecimalSafe`, a
part of `CallsCorrect`; `NullTypeIsNull`); the loops add up `count` right answers, in any order
(`SumsAreRight`); the code the VM runs leaves the answer where the loop
reads it (`RegisterIsAnswer`); `val_decimal()` writes no literal and returns no pointer to a
dead or overwritten buffer (`LiteralsConstant`, `OldPointers`); a random tree ends, trips no
assertion and owns each item once
(`AssertionHolds`, `OwnedOnce`, `Terminates`); the driver runs what it was asked
(`RunsWhatWasAsked`) and times each loop once (`EveryLoopIsTimed`); decimal arithmetic over
bounded buffers is exact or reports its error (`SumIsHonest`, `ProductIsHonest`,
`DivisionIsExact`, `ShiftIsRight`, `RoundIsRight`), whatever was in the buffer before
(`LeftoversInvisible`); a printed text is the number (`PrintedIsRight`), a text is read as far as
its characters are taken for digits (`TextIsRead`); and a number survives its binary column
(`RestoredIsStored`), whose bytes sort as the numbers do (`SortedByBytes`).

## 2. Modules

```
ItemTypes            field types, value types, conversions, answers
  ItemTree           construction of trees; sem, the SQL value of each item
    ItemSpec         a group of value methods as one atomic answer
    ItemMachine      the calls in progress, whichever group they belong to
      ItemCalls        how the calls in progress hang together, what each may know
        ItemGetCalls     what those of get_xxx() know (with ItemGet)
        DecimalPointers  val_decimal() with the memory behind its pointers <- implements ItemOld
      ItemGet          get_xxx()            <- implements ItemSpec
      ItemOld          val_xxx() + null_value
      ItemPrm          val_xxx_null(bool *)
      ItemNew          to_xxx_null()
      ItemVariant      namespace variant
      ItemGroups       one group or another over the same items, composed from
                       Old with its pointers, Prm, New and Variant
      Bench            the four loops of a test, composed from Old, Prm, Get, New and VM
        FixedTests       Bench over the tests of TestTable, and over any others
    VM               the code of an item and what its instructions do
    RandomTree       the random generator      <- implements the construction of ItemTree
  TestTable          the 22 fixed tests and what is measured in each
    Driver           main(), the options, the choice of tests, the times
DecimalWords         the words of a decimal; sums, differences, comparison, sizes
  DecimalMul         products
  DecimalDiv         quotients and remainders
    Decimal            numbers made by all of these <- gives ItemTypes its Plus, Neg, =
  DecimalBin         binary columns
DecimalDigits        rounding and shifting in place, digit by digit
  DecimalText        reading and printing
ItemTreeProofs  ItemMethodProofs  ItemGroupsProofs  BenchProofs
RandomTreeProofs  DriverProofs  DecimalProofs  DecimalDivProofs    theorems
MCPools, MCItemGet, MCItemGroups, MCFixedTests, MCRandomTree, MCDriver,
MCDecimal, MCDecimalText, MCDecimalBin                             the instances TLC checks
```

**ItemTypes.** A number of any type is an integer that counts units of `1/One`;
with `One = 2`, 1.5 is 3. So a double and a decimal are exact numbers that can
have a fraction. `Trunc`, `ToInt32` and `UlonglongToDecimal` are the conversions,
lossy where the code's are. `Junk` is the content of a variable nobody wrote; it
is not a number and arithmetic on it stays `Junk`. `NegZero` is the decimal zero with its
sign set, which `decimal_neg()` makes and `decimal_cmp()` tells from zero; `Plus` and `Neg`
follow it through sums and negations. `Hybrid_field_type` is the rule
that merges field types.

**ItemTree.** `items` is the sequence of items in construction order, so that
`args` are smaller indices; the literals of a run come first. `Construct` is the
constructor of any class over any existing items, shared ones included; it covers
the fixed tests of `test.cc` and whatever `node_factory()` can produce. `sem[n][T]`
is no program state: it is the reference, the SQL value of item `n` in a context
of type `T`, fixed at construction from the arguments' (three-valued OR,
NULL-propagating arithmetic, first non-NULL). It is not derived from any of the
four groups.

**ItemMachine.** C++ recursion is an explicit `stack` of frames `[n, t, i, acc]`:
item, type asked, the argument whose call is in progress, what is remembered from
the earlier ones (the locals). `mode` says whether the driver is free, the top
frame begins, or the answer `ret` is being handed over. A step of a model is the
code between two calls: from entry to the first `args[i]->...`, and from each
return to the next call or `return`. `Invoke` and `Leave` are the driver's call and
return: it asks for `EntryTypes`, as `./test` does (the native type; both
integer types of an integer; four types of NULL). The variant items, which only `gbench` calls,
are asked for every type, as it does (`VariantInvoke`).

**ItemCalls.** What a proof or a property can say of calls in progress: `Calls` and `Reaches`
relate a frame and the one above it, `KnowsFirst` and `KnowsCoalesce` what a call has learned
from the arguments before, `Wanted` the answer on its way; `InOrder` holds in every group.

**ItemGet, ItemOld, ItemPrm, ItemNew.** One action per class, whose disjuncts are
the pieces of its method; the five types of one method have the same control and
are one definition with the type as data. *Old* adds the variable `null_value`, a
flag per item, indeterminate (`\E b \in BOOLEAN`) at construction of a function.
*Prm* adds `flags`, the variables the pointers in use point at, the driver's first;
each begins with either value. Where the source of a class differs by type (decimal
addition, the boolean comparison) the definition says so.

**ItemGroups.** A driver that builds items and calls the methods of one group, chosen at the
start: every literal and then each item it has made, as often as it likes. The properties of the
modules hold where their methods are called. What a group does not look at stays out of its
states: `null_value` under the others than *Old*. Variant items are made of variant items only.
`get_xxx()` has a run to itself, for its refinement.

**Bench, VM.** One thread runs one loop at a time; the four loops are the arguments of
one constructor call (`test.cc:21`), whose evaluation order C++ leaves open, so the
model takes any order. They share `items` and leave `null_value` behind. `Gen` of `VM` is
`gen()` of the three classes that have one, `exec` the switch of `exec_instr()`: with `--vm`
the loop of *Old* executes the code of an item that has some, each iteration over the registers
of the one before, and evaluates an item that has none. `Mistaken` lists the items where a
group's answers are known to be wrong.

**ItemVariant.** The four alternatives of the tagged union; its assumption restricts
the tree to them.

**DecimalPointers.** `ItemOld` with the memory that its decimals live in: the constants of the
literals, the driver's buffer, the locals of each call. A call carries the address passed as
`to` and what its `val0` points at, an answer the address returned. An address is
`<<frame, variable>>`, frame 0 being the literals and 1 the driver; a returned-from frame's
variables are unmapped, so that a dangling pointer is an address outside `DOMAIN mem`. The
control is `ItemOld`'s own actions, conjoined with what they do to the memory, and the proof
shows that nothing was lost.

**RandomTree.** `generate_node()` as a stack of calls with their `depth_left`; a draw is any
class, and the arguments of a constructor call, whose order of evaluation C++ leaves open,
are generated in any order. `storage` is the vector of unique pointers. `BuildsTrees` says
that each step is a construction of `ItemTree` or none.

**TestTable, FixedTests.** The table is `test.cc`'s: the items each test makes, in order, and the
measurements it asks for. `FixedTests` runs `Bench`'s loops over it with `null_value` and flags
that hold anything. Beside the table stands a free test, which builds and measures whatever
`Bench` can: it stands for the expressions that nobody wrote down, and it meets the mistakes that
the fixed tests do not.

**Driver.** `main()`: each argument of the command line with its effect on the options and the
widths of the numbers, the first that is none, the masks, `run()` of each chosen test, and the
`MethodStat` of each type and of the total that a loop is added to. `ran` is a history: for which
mask, and from which place in the table, a test ran. What the properties say was asked for is read
from the command line as a whole (`Options`, `LastOf`, `BigTest`), not from what the loop of
`Options::Options()` has accumulated.

**DecimalWords, Decimal.** A decimal is the code's `decimal_t`: a sign, the digits before and
after the point, the words of the buffer; a word is addressed by its distance from the point.
`DoAdd` and `DoSub` keep every decision of `do_add()` and `do_sub()` (the extra word, what is
cut, who is subtracted from whom, the short cut to zero, `max_decimal()`) and replace the loops
over pointers by one function from positions to words with its carry. In `Decimal`, `acc` is a
number that a program makes by one operation after another, and what it should be is the exact
result by `Plus` and `Neg` of `ItemTypes`. `Decimal2longlong` relies on a multiplication that wraps, as the
machine's does.

**DecimalMul, DecimalDiv.** The operators of `decimal_mul()`, `decimal_div()` and `decimal_mod()`;
the actions `Mul`, `Div`, `Mod` of `Decimal` apply them to what earlier operations made, so that
zero words before and after a number and negative zeros occur. `DecimalDiv` is Knuth's algorithm
with the correction of a guessed word and the add-back, a recursive function over the words of
the quotient.

**DecimalDigits, DecimalText.** Rounding and shifting happen in place and move the point within the
buffer, so that here the whole buffer is modelled, digit by digit, what earlier numbers left in
it included. `LeftoversInvisible` says that the same call on the same number over other leftovers
gives the same number. `my_isdigit` is the macro as it is written (finding 4), with the largest
digit, 3 in the instance, in the place of 9. What is read has no other digits then; numbers with
others come from `longlong2decimal()` and from sums (`FromLonglong`, `Add`), into the same buffer.
`decimal2string` answers with the text, its error and the place of the final 0.

**DecimalBin.** `decimal2bin()` and `bin2decimal()` with the bytes of a partial word, the sign in
the first bit and the complement of a negative number; two rows of a column, which `memcmp()`
compares. The product that moves the digits of the last, broken word to its front wraps at
`WordRange`, 2^32 in the code, before `BadWord` looks at it; its overflow is undefined for a signed
word, and wrapping is what the build makes of it.

## 3. Runs

| run | question and what it shows | instance |
|---|---|---|
| `get_native` | Every answer of `get_xxx()` is the SQL value; every call in progress knows what it needs, and no lossy conversion to decimal is reached (`CallsCorrect`); a static NULL type is NULL; the recursion implements `ItemSpec` | one literal of each class, all functions, 1-2 arguments, two functions |
| `value_methods` | The other groups, called again and again over garbage and leftovers. `val_xxx()` is right unless decimals are compared, and a NULL answers FALSE to OR; no pointer dangles, what is pointed at is the number, a first operand survives the evaluation of the second, no literal is written. `val_xxx_null()` is right unless OR, IS NULL or an integer comparison is involved, and what OR can do wrong is bounded. `to_xxx_null()` is right unless OR meets NULL. Variant items that do not negate answer rightly in every type | one literal of each class but the double, all functions, 1-2 arguments, two functions |
| `tests` | Four loops of two iterations, in all orders, by evaluation and by generated code: each adds up two right answers, and a test ends. In none of the 22 tests that the program ships do the mistakes of section 4 show, on memory that holds anything | all fixed tests, with and without `--int32` and `--vm`; any test of a function of 1-3 arguments over NULL and an integer |
| `random_tree` | No assertion fails, every item is owned and used once, the tree is one of `ItemTree`'s, a generation ends | depth 3; add, coalesce; NULL and an integer |
| `driver` | The tests run are those that the masks and `--big-test` ask for, each loop is counted in one type and in the total, `./test` exits | command lines of up to three arguments |
| `decimal_arith` | Sums and negations are exact unless an error is reported, the error is as large as it says, the guaranteed precision is kept; a product is exact or has lost no more than it reports; a quotient is the exact one cut after its last word, a remainder the exact one; the predicted size is enough for sums and products; comparison and conversion to longlong of every result | radix 2, words of 2 digits, buffers of 3 words, every literal of four shapes, any number of operations; 0 or 3 digits of scale added to a quotient |
| `decimal_text` | A shift that fits is exact digit by digit, one that does not is rounded; a rounding is that of the exact number; leftovers are invisible; what is printed has the number's digits, as many as there is room for, and ends behind the buffer if and only if an overflow is reported; what is read is the text up to the first digit `my_isdigit()` does not take, and 9s alone are read back as printed | radix 4, words of 2 digits, 3 words; shifts -7..7, scales -4..5; texts, integers and sums that are short, exactly full and too long; every room from the smallest allowed to one that is large enough |
| `decimal_bin` | Two rows of a column, restored and stored again: the numbers come back, `memcmp()` orders them as `decimal_cmp()`, and none is behind the largest; only a `Crowded` number is refused or restored with digits behind the scale, and its other words are right | radix 10, words of 4 digits in 2 bytes of 8 bits, 2 words, seven columns; numbers of seven values of a word |
| `variant_uminus` `new_or_null` `sums_prm_or` `text_digits` | violated: findings 1-4 of section 4, in this order | the smallest instances that show them; `text_digits` that of `decimal_text` |

Where a property of a run is a conjunction, its parts are named definitions with their own
comments: `SumIsHonest` is `OkIsExact`, `ErrorsAreHonest` and `GuaranteedPrecision`, `OldPointers`
is `NoDangling`, `PointerIsAnswer` and `OperandsKept`, and so on.

**Bounds.** `MaxItems` limits the items of a run and `MaxArity` the arguments of one. Two
functions over every literal give every caller-callee pair of classes, in every argument
position, with every literal class under it; a frame only sees the answer of its callee and the
caller only sees its answer, so that a pair is where the conventions meet. A pointer that is
passed on twice, through two functions under a third, is not in these instances; the theorems
about `val_decimal()` have no such bound. OR, COALESCE and LAST_VALUE treat their first, middle
and last arguments differently, hence the three arguments in `tests`. A driver asks an item as
often as it likes before it makes the next, which finds what those calls left behind; `Asked` of
`ItemGroups` keeps it from going back to an item that later ones do not change. `Count = 2` is
the first count with a repeated iteration. `garbage` gives all `null_value` of the functions of
a fixed test one value; the free test and `value_methods` choose for each. `One = 2` gives one
fraction; `Int32Half`, 8 or 16, is small and `LonglongHalf = 64` is beyond every sum a run
builds, so no `longlong` overflows (its overflow is undefined behaviour in the code and is not
modelled). Doubles are left out of `value_methods`, where the branch they take is the integers';
`get_native` and the fixed tests have them, and the fixed tests the decimals that the free test
leaves out.

**Deadlock** is checked wherever the system has no end. It is not in `tests`, `random_tree` and
`driver`, which model programs that end.

**The decimal library's bounds.** It depends on the digits only through `DIG_BASE`, `DIG_PER_DEC1`
and the number of words, so that 10, 9 and 9 become a small radix, words of 2 digits and 3 words,
with which all numbers of a shape can be enumerated. With 3 words a sum of two words before the
point and one or two after it is truncated and one more carry overflows; a product of two of the
shapes needs more words than there are in every way (before the point, after it, both);
`LonglongHalf = 10` is no multiple of `DIG_BASE`, as 2^63 is not, so that the last multiplication
before the limit wraps for some words and not for others. Words of 2 binary digits need the first
correction of a guessed word of a quotient and never the second, which is therefore modelled and
not exercised. Rounding needs digits
that are below, at and above one half: radix 4 is the first even radix that has them. Shifts and
scales reach beyond the buffer on both sides. The shapes of `decimal_bin` have fractions that take
as many bytes with different numbers of digits, and the values of its words one that is refused and
one that wraps into range when such a fraction is restored. No bound limits the number of sums, shifts or
roundings: there are finitely many decimals.

**The driver's bounds.** Three arguments are an option, one that changes what it did, and one that
is none. `Kilo = 4` and `UintSize = 8` are small; `UlonglongSize = 64` makes 16 the first count
whose product with `Kilo * 1` wraps. A random tree of depth 3 has a call whose caller and callee are
both functions.

**Fairness.** `EveryTestEnds` is checked under weak fairness of the steps of a test that has
begun: one thread runs it, so it goes on. Nothing obliges the driver to build or to start one.
`Terminates` and `Exits` are checked under weak fairness of the next-state relation: both programs
are one thread that nothing waits for.

**Seeded faults.** The operators `Faulty...` are each the definition below them with one
plausible mistake; every property is broken by one. They are not part of any
specification.

## 4. What disagrees with the code's own words

1. `variant::Item_func_uminus` (`item_func.cc:1707`) answers its argument unchanged; the
   dispatch is said to be "a direct replacement for virtual function calls" (`item.h:951`).
2. `Bool_null::operator|=` (`sql_type_bool.h:19`) ORs the other's *value* into the flag;
   `item_func.cc:523` says it "ORs the NULL flag". `FALSE OR FALSE OR NULL` is FALSE.
3. `Item_cond_or::val_bool_null` (`item_func.cc:483`) ORs into a flag nobody initialised;
   README:101-102 promises equal sums.
4. `my_isdigit()` (`my_types.h:92`) tests `>= '9'`: "95" is read as 9 with E_DEC_OK, which is
   "everything's ok" (`decimal.h:104`), and every decimal made from a double goes that way. What
   stops it is a character below '9', so that an "e" is taken for a digit, too, and the code for
   exponents (`decimal.c:922-950`) is never reached. The models of the items take doubles to be read
   rightly; `LeadingNines` and `Double2decimal` of `ItemTypes` say what happens instead.

Each of these is a run that TLC finds violated. The following were met while modelling and are
excepted, by name or by a condition, from the properties; no run is spent on them:

* `decimal_mul()` (`decimal.c:2060`) takes half of the words that do not fit from each factor
  and can give up words before the point: 72 digits times 0.5 are 0, with E_DEC_TRUNCATED, which
  is "usable" (`decimal.h:104-105`).
* `decimal_result_size()` of a difference (`decimal.c:1735`) has no room for a carry, but
  999999999 - -999999999 has one; `decimal.c:1722-1724` promises that the size may be too large.
* The size of a quotient (`decimal.c:1745`) rounds the digits before and after the point up to
  words together, the division (2209, 2233) each by itself: it can be one word short.
* `decimal_shift()` (`decimal.c:633`) goes on with `beg`, `end` and `point` from before its own
  rounding, which may have carried into a new digit: 999999999.99... is shifted to 10.000;
  `decimal.c:582` says the "number was rounded to fit into buffer". `CarriesOut` excepts it.
* `HALF_EVEN` (`decimal.c:1602`) looks at one digit: 2.51 is rounded to 2; `decimal.c:1500` says
  "round to nearest even". The mode is modelled, and only its independence of leftovers is checked.
* `decimal2bin()` (`decimal.c:1254`) does not cut a fraction that fits the bytes and not the
  scale, and restores another number; `decimal.c:1157-1160` promises the order of
  `decimal_cmp()`. `Crowded` excepts it.
* `bin2decimal()` multiplies the last digits of such a number in 32 bits (`decimal.c:1437`) and
  tests the product (1438). 0.66 stored in (3,1) is 66 * 10^8, which wraps to 2305032704 and is
  refused; 0.43 wraps to 5032704, is accepted with E_DEC_OK, and has digits behind its one digit
  of scale. Stored again it is 0, with the bytes of 0.0, though `decimal_cmp()` says 1. The instance
  has both kinds (4300 is refused there and 6600 becomes 464). `WordsOK` in `Storable` excepts
  such a number from what is said of a number that is stored; `RestoredIsStored` says that only
  a `Crowded` one becomes one.
* `decimal2bin()` (`decimal.c:1257`) overwrites an E_DEC_OVERFLOW by E_DEC_TRUNCATED.
* `get_ulonglong_size()` (`opt.h:58`) multiplies without a check: a count of 2^54k is 0.
* `val_bool_null` of IS NULL (`item_func.cc:811`) answers TRUE and leaves the flag raised.
* `eq_ll_using_val_int_null` and its int32 twin (`item_func.h:389`, `:431`) keep the first
  operand in a `bool`, so that 2 = 2 is FALSE.
* `eq_decimal_using_val_decimal` (`item_func.h:378`) evaluates its first argument twice and
  the second never, and reads the second's flag. When the first argument is itself computed from
  compared decimals (`(d + s IS NULL) = d`, where `s` is `NULL + d`, compared with `d`), its two
  evaluations can differ: the second can be NULL, no flag that is read says so, and
  `decimal_cmp()` is given a null pointer. Found by the attempt to prove `OldPointers`; what it
  says of numbers excepts what is computed from compared decimals, that no pointer dangles holds
  of everything.
* `decimal_neg` of a zero makes a negative zero, and `decimal_cmp` (`item_func.h:385`) calls
  it less than zero: `-0.0 = 0.0` is FALSE in every group. The reference `sem` carries the
  sign of a decimal zero, so this is not an exception; `decimal_arith` shows that the library
  does just that.
* A sum reserves a word for a carry that may not come (`decimal.c:1765`): 3 words can hold
  8.5 + 4.5 in radix 2, the code answers 12 and E_DEC_TRUNCATED. `val_decimal` makes NULL of
  it, the other groups 12. Within `DECIMAL_MAX_PRECISION` it cannot happen
  (`GuaranteedPrecision`). On an overflow `max_decimal()` also clears the sign.
* `decimal2string()` with a fixed scale leaves characters unwritten when the number has no
  fraction, and on an overflow reads the fraction from the wrong word. The error is reported, the
  text is not claimed.
* `decimal2string()` in a buffer too small for the digits before the point (`decimal.c:381-392`)
  cuts the number of digits but not `intg_len`, so that filler, the last digits and the final 0 go
  to where all digits would have gone, behind the buffer; `decimal.c:376` means to "reserve one
  byte for \0". `PrintedIsRight` says that this happens exactly with E_DEC_OVERFLOW; of the digits
  of that text nothing is claimed. The buffers of the callers (`decimal.c:975`, `item_func.cc:30`)
  hold every decimal's digits before the point.
* A number between 0 and 1 is printed with a 0 before the point, which `my_isdigit()` does not take:
  it is E_DEC_BAD_NUM when it is read again.
* `decimal_round()` to more words than the buffer has writes behind it; callers keep to the scale
  the buffer holds, and so does `HasRoom`.
* The comment of `decimal_mod()` (`decimal.c:2449`) says 0 <= |R| < |M|, M being the dividend; what
  holds, and what `IsRemainder` states, is |R| < |N|, the divisor.

Each exception is as narrow as the bug: `Free(bad)` is the set of the items in whose expression
none of `bad` occurs, and everything else is claimed. `tests` shows that none of the mistakes of the
items can be seen with the program as shipped: its tests cannot find what these runs find.

## 5. Proofs

TLC shows the properties for a few literals and two functions. The theorems hold for any
literals, any set of classes, any number of items, any arity and any widths. Each of the
invariants below was checked by TLC on an instance before it was proved.

Assumptions: `WidthAssumption` (`One`, `LonglongHalf` positive; `Int32Half > 1`, so that TRUE
fits an int32), `JunkAssumption`, `NegZeroAssumption` (garbage and the negative zero are not
integers), `TreeAssumption` (the literals are those the constructors can make: NULL is 0, a
boolean is 0 or 1, an integer has no fraction), and for the variant items that they are of the
four alternatives. The driver asks for `EntryTypes`, as `./test` does: under `gbench` a double
asked for a decimal does lose its fraction.

* **ItemTreeProofs.** `TreeInv` says that every item is well formed, that its field types are
  those merged from its arguments' (`Merged`), that `sem` is the function `SemOf` of its
  arguments' (`SemOK`) and that a static NULL is NULL. `TreeInitInv` and `ConstructInv` show
  that the literals satisfy it and every constructor preserves it. Well-formedness alone is
  not inductive with `NullTypeIsNull`: that a merged type is NULL only if all arguments' are
  needs `Merged`, and what the item then answers needs `SemOK`.
* **ItemMethodProofs.** What the groups share, proved once. `MachineInv` is type correctness with
  `TreeInv` and `InOrder`: frames belong to existing items, each was called by the one below for one
  of its arguments, so that they are earlier and earlier items, all of the expression that was asked
  for. A call, a return, a construction and the driver's moves preserve it, whatever the group adds;
  lemmas about one frame (what it was asked, what its next argument is worth, when OR, COALESCE and
  the first operand of a sum are decided) serve the answers of all groups. Then `get_xxx()`:
  `TypeCorrect`, `NullTypes` (a static NULL type is NULL), and the answers. `GetAnswerCorrect` looks
  at an empty stack and is far from inductive. The strengthening is `CallsCorrect` (module
  `ItemGetCalls`): each frame remembers exactly what it needs of the arguments it has called
  (`FrameOK`), each was called by the one below for the argument that one is at (`Linked`), and the
  answer on its way is the SQL value of what was asked (`Awaited`). `DecimalSafe` is part of
  `FrameOK`, since `Awaited` for a literal holds only if it is not asked for a decimal it cannot
  give. One lemma per class shows that what it passes to a call or a return is right.
  `CallsAreCorrect`, `AnswersAreCorrect`, `DecimalsAreSafe` are the results. `GetImplements` is the
  refinement of `ItemSpec`: `SameTree` says that its trees are those of `ItemGet`; `RequestInv`,
  that the driver is free exactly when it has asked nothing, makes `Build` and `Ask` of the two
  agree; the last return of a call is `Answer` by `Awaited`, any other step of a method a stutter.

  Then the groups with flags: `OldTypes`, and `OldIsCorrect`: an answer with the flag its item left
  is the SQL value, unless decimals are compared. Since the flag is a member, correctness needs what
  no single call sees: `OldInv` keeps that a frame which has begun to add or compare has its own
  flag where the code has put it (`Cleared`), that the flag of a frame says no more than what it has
  seen (`FlagSaysNull`), and that the answer on its way is right *with the flag of its item*; that
  frames are smaller and smaller items (`InOrder`) shows that no callee writes a caller's flag.
  `NullAnswersAreFalse` holds without the exception: whoever answers NULL to an OR answers FALSE.
  Then the two groups whose flag comes with the answer, and the variant items. `flags` is as long as
  the calls with a local of their own (`Place`) need, which is `PrmOneFlagPerLocal` and says which
  flag a callee writes: without it a callee's write could be anybody's. `PrmIsCorrect` is the answer
  of expressions without OR, IS NULL and comparisons of integers; `PrmNumbersAreRight`, that OR can
  lose a number and never invents one, needs `SeenZeros`: what an OR has passed over was FALSE or
  NULL. `NewTypes` (each struct is a flag and a number), `NewIsCorrect` (`NewInv`; an OR without
  NULL has seen nothing but FALSE), `VariantIsCorrect` and `VariantTypesAreIntegers` (every type in
  a variant tree is an integer's).
* **ItemGroupsProofs.** `PtrImplements`: each step of the model with memory is one of `ItemOld`, so
  that what holds of that holds here. `LiteralsTheorem`: no evaluation writes a literal; `PtrInv`
  adds that no call was ever passed a literal's address as its buffer (`to \in Buffers`), since
  methods write through that alone. `PointersTheorem` is the pointers. None of its three parts is
  inductive, not even together: `MemoryInv` adds whose memory an address may be. A buffer passed
  down belongs to a call below or to the driver and is mapped (`Lending`); what a first operand's
  pointer points at is a literal, the own buffer of the call, or one of its locals, and nobody above
  was lent that (`Keeping`); while the first argument is evaluated nothing is kept (`FirstOnly`);
  the answer is in a literal or in what was lent for it (`AnswerPlaced`). `OldGroupAnswers`,
  `OldGroupPointers`, `PrmGroupAnswers`, `NewGroupAnswers` and `VariantGroupAnswers` carry the
  results over to the driver that chooses a group: a behaviour of one group is one of that group's
  module.
* **BenchProofs.** The four groups one after the other over the same items. `BenchInv` has four
  parts. `CallsInv`: the group whose loop is running satisfies its own invariant, and between two
  calls every group does (`IdleGroups`), whatever the last one left in the flags of the items, so
  that any loop can follow any other. `LoopInv`: who evaluates, evaluates the item under test.
  `CodeInv`: the code is that item's, and what a loop has executed left the item's value in the
  register it reads, whatever was in it before (`CodeRight`). `SumsInv`: the sum of a loop is the
  iterations it has done times the item's value. It holds for the groups that are not mistaken
  about the item (`Rightly`, from `Mistaken`), which cannot be dropped: section 4 has the runs
  where the sums differ. `RegisterIsRight` and `SumsOfRightGroups` are the results;
  `SumsOfSoundItemsAgree` is the README's claim that the sums are the same, for the items that
  no group is mistaken about. A test of `FixedTests` that makes what it likes is a behaviour of
  `Bench` (`FreeTestIsBench`), and its sums are right (`FreeTestsAreRight`).
* **RandomTreeProofs.** `RandomInv` is `TreeInv` with the depths (`StackInv`: the call at position k
  of the stack has `max_depth - k + 1` left, and none has 0) and the ownership (`StorageInv`: the
  vector is the sequence of the items in the order of their creation). `AssertionTheorem` holds for
  every depth, `RandomTypes` and `StorageTheorem` for any classes and any order of arguments.
  `OwnershipTheorem`: each item is also used once. `OwnedOnce` is not inductive, since a return
  could overwrite the only pointer to an item; `UseInv` adds that the argument a call waits for is
  not there yet, that a call with one level left has drawn nothing it could forget, and that each
  item is in exactly one place: an argument of an item or of a call, or the result. `TreesTheorem`
  is the refinement: the generator's items, with equal literals taken as one, are at every step those
  of `ItemTree` with one more or the same, and have the values they have there, so that what is
  proved of the value methods holds for the trees `./test` draws. `Ranked` is what it adds to
  `RandomInv`: counting the functions numbers them, so that each has its place among the shared
  items. It is about behaviours in which the tree never outgrows `ItemTree`'s own bound `MaxItems`
  (`WithinItems`); no theorem about the value methods depends on how large `MaxItems` is.

* **DriverProofs.** `DriverRuns` and `DriverTimes`, for every command line that fits
  `OptionBounds`: the numbers are ints, for which alone `atoi()` is defined, and there are at most
  2^31 arguments, so that counting `--big-test` up cannot wrap. `DriverInv` says what each phase
  has behind it. While options are read, they are what the arguments so far say (`IsRead`): the
  last `--big-test=` and the number of `--big-test` after it, modulo 2^32 (`AsUint`), are what
  `++` and `=` have left. While tests run, the masks left are the end of those asked for
  (`MasksLeft`); what ran is every test before this place that its mask matches, in order
  (`IsDone`); and the total has the loops of what ran (`Timed`). At the exit the place is behind
  the last mask, and the options are all that stands before the first mask (`AllRead`), so that
  nothing else could have been asked for. That each loop is in one type needs the table itself:
  `FixedAsksRight` goes through its 22 tests and shows that each measures items of the five types
  only, and those of `longlong` also as `int32` if and only if `--int32` says so. `Asks` is a
  function by recursion over the items shown; `SetInduction`, induction for a *set* of natural
  numbers, from the library's well-foundedness of `<`, shows that there is such a function
  (`Concats`) and what it is.

* **DecimalProofs.** The decimal library for every radix, every number of digits in a word and of
  words in a buffer, and every shape of a literal; nothing is enumerated. `TypeOK` says that a decimal
  is well formed (each word a word, no more digits in the first and the last one than `intg` and
  `frac` admit, no more words than the buffer has); from it follow, for the decimal and any literal,
  `CmpIsRight`, `SumIsRight`, `LonglongIsRight`, `ProductIsRight` and `SizeIsRight`, each with the
  error it reports. `MulIsHonest` adds that a product is well formed again.
  `Power` and `Positional` are functions by recursion, unfolded once (`Powers`, `PositionalIs`); the
  rest is induction over words by `SetInduction`: a number read in two parts (`PositionalSplit`), its
  range (`PositionalRange`), what a row of words is worth when its carries or borrows are taken out
  (`Carrying`). A sum of words is thus the sum of the numbers, with the carry that is left
  (`SumOfWords`), which is 0 or 1, and 0 where `SumFix` has reserved no word for it; a comparison from
  the first words that differ is one of the numbers (`CmpIsRight`), so that a difference borrows
  nothing from before its first word. What is cut at the end is less than a unit of the last word
  kept, in each operand (`LostIs`). A product is the rows of `decimal_mul()` added up (`Multiple`,
  `ProductMultiple`); that no carry leaves its first word follows from its size. The test for an
  overflow in `Decimal2longlong` is right since a product that wraps is either made from a word too
  small or comes out larger than it was, no word being more than `LonglongHalf`.
  `WordAssumption`, `ShapesAssumption` and `DigitAssumption` are what it rests on: a word has at
  least two digits, a literal fits its buffer, and the unit of `ItemTypes` is the last digit a
  decimal can have, so that a longlong fits; 9 and 9 and 10 do.

* **DecimalDivProofs.** Division, and with it the decimal library as a specification: `TypeCorrect`
  is `Spec => []TypeOK`, so that what `DecimalProofs` derives from `TypeOK` holds along every
  program (`SumsStayHonest`, `ComparisonsStayRight`, `TruncationsStayRight`, `ProductsStayHonest`,
  `SizesStayEnough`, `DivisionsStayExact`). `TypeOK` is inductive because it says what an operation
  needs of its operands and no more: zero words before and after a number, a negative zero, a
  quotient without words. `DivIsHonest` and `ModIsHonest` are the two operations of which that is
  hard to see. The divisor is multiplied until its first word is half of the base or more; the
  quotient of the first two words of the dividend by that word is then the right word or at most two
  more (`Estimate`), and the test with the divisor's second word leaves at most one more
  (`GuessFits`). Subtracting so many divisors borrows from the word that was carried exactly if it
  is one more, and adding the divisor back carries it out again, whatever was carried (`SubtractIs`,
  for either guess). After each turn the words of the quotient so far and the words of the rest are
  the quotient and the rest of the words of the dividend passed, and the rest is less than the
  divisor; a turn preserves that (`TurnDivides`, `LoopDivides`). What remains is the words around
  it: zero words before and after either operand, a quotient that begins one word later than its
  digits allow, a fraction cut to the buffer, a rest that is all of the dividend or has lost its
  last word. `LonglongTypes` is the other way into the type: the digits and the words of a magnitude
  agree, as a word has whole digits (`WordsOfDigits`).

Only model-checked: liveness (`EveryTestEnds`, `Terminates`, `Exits`), which rests on fairness; the
sums of the fixed tests (`FreeTestsAreRight` is about tests that make what they like, and excepts
`Mistaken`; some items of the table are among those, and that their sums come out right all the
same is a matter of each single expression, all of which the run evaluates); and of the decimal
library, what `DecimalText` and `DecimalBin` say. The library's theorems for induction and
recursion take an operator as a parameter, which the provers cannot instantiate; where a proof
needs them, `SetInduction` does the work.

## 6. What is not modelled, and why

* `dtoa.cc`, `variant.hpp`: vendored, and a library's work; a double is an exact number here, and
  the tagged union is its alternatives.
* `timer.h`, `Item::print()`, the result tables, `usage()`: clock and formatting. Times are numbers
  that are added up.
* The registration macros of `gbench.cc`. What it calls, every method in every type, is modelled
  for the variant items (`VariantInvoke`); for the virtual ones the theorems and runs are about
  what `./test` asks, since a double asked for a decimal loses its fraction.
* Of the decimal library: texts with letters, which `my_isdigit()` takes for digits and which make
  words out of range; the exponents of texts, whose code is not reached; the limits of `fixed` reading, `decimal2ulonglong()`, `decimal_intg()`,
  the tests under `MAIN`. `double2decimal` and `decimal2double` go through dtoa's text and are taken
  to be exact. What the items do with an overflowing sum: in the tree decimals are
  unbounded, `Decimal` says from where on that is wrong.
* Overflow of `longlong`: undefined behaviour, kept out by the instances.

## 7. Plan

The modules, in order of importance. All are written.

1. `ItemTypes`, `ItemTree`, `ItemMachine`: what the groups share.
2. `ItemSpec`, `ItemGet`: the promise and the group that keeps it.
3. `ItemOld`, `ItemPrm`, `ItemNew`: the groups with hidden state; `ItemGroups`, all of them over
   the same items.
4. `Bench`, composing the four over shared items.
5. `VM`, `ItemVariant`.
6. `ItemTreeProofs`, and the `get_xxx()` of `ItemMethodProofs` with `ItemCalls`, `ItemGetCalls`.
7. `Decimal`, and that it is what `ItemTypes` takes it for.
8. `DecimalPointers`: `val_decimal()` with pointers, literals and caller buffers.
9. `RandomTree`: `generate_node()` with the depth left and the storage.
10. `TestTable`, `FixedTests`, `Driver`: `main()` and the fixed tests, and that the bugs of
    section 4 are invisible to them.
11. `DecimalMul`, `DecimalDiv`, `DecimalDigits`, `DecimalText`, `DecimalBin`.
12. The flags of `ItemMethodProofs`; `ItemGroupsProofs`, `BenchProofs`, `RandomTreeProofs`,
    `DriverProofs`, `DecimalProofs`, `DecimalDivProofs`.
