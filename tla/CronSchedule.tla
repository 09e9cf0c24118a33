----------------------------- MODULE CronSchedule -----------------------------
(***************************************************************************)
(* Schedules: the editor dialog that builds them from presets or takes     *)
(* them as typed, the validation both processes use, and the description   *)
(* a listing shows.                                                        *)
(*                                                                         *)
(* A field is a list of parts, a part a range of bounds and a step, a      *)
(* bound a number or a name; white space and spelling are left out.        *)
(***************************************************************************)
EXTENDS Naturals, Sequences, SequencesExt

CONSTANTS
    TypedNumber,     \* numbers the user types
    MaxTyped         \* bound: inputs to one dialog

ASSUME TypedAssumption == TypedNumber \subseteq Nat

VARIABLES
    cdBuilder,   \* the preset and its inputs
    cdRaw,       \* the expression
    cdTyped      \* inputs so far

cdVars == <<cdBuilder, cdRaw, cdTyped>>

(***************************************************************************)
(* Expressions.                                                            *)
(***************************************************************************)
Specials == {"@reboot", "@yearly", "@monthly", "@weekly", "@daily", "@hourly"}
Special(name) == [special |-> name, fields |-> <<>>]
Fields(fields) == [special |-> "none", fields |-> fields]

\* Bounds: aliases is 0 for a number, else the field whose names have this one.
Number(n) == [value |-> n, aliases |-> 0]
Part(range, step) == [range |-> range, step |-> step]
Every == <<Part(<<>>, <<>>)>>
EveryNth(n) == <<Part(<<>>, <<n>>)>>
Exactly(n) == <<Part(<<Number(n)>>, <<>>)>>

FIELD_SPECS == << [min |-> 0, max |-> 59], [min |-> 0, max |-> 23], [min |-> 1, max |-> 31],
                  [min |-> 1, max |-> 12], [min |-> 0, max |-> 7] >>

\* resolveFieldNumber finds a number.
ResolvesField(bound, i) ==
    \/ bound.aliases = 0 /\ bound.value \in FIELD_SPECS[i].min..FIELD_SPECS[i].max
    \/ bound.aliases = i /\ i \in {4, 5}

IsValidFieldPart(part, i) ==
    /\ Len(part.step) <= 1 /\ \A s \in Range(part.step) : s \in 1..FIELD_SPECS[i].max
    /\ Len(part.range) <= 2 /\ \A b \in Range(part.range) : ResolvesField(b, i)
    /\ Len(part.range) = 2 => part.range[1].value <= part.range[2].value

ValidExpression(raw) ==
    IF raw.special # "none" THEN raw.special \in Specials
    ELSE /\ Len(raw.fields) = 5
         /\ \A i \in 1..5 : \A part \in Range(raw.fields[i]) : IsValidFieldPart(part, i)

(***************************************************************************)
(* Descriptions: what describeCron says, with the times it tells of; a     *)
(* description in no words is the expression itself.                       *)
(***************************************************************************)
IsNumeric(field) == Len(field) = 1 /\ field[1].step = <<>> /\ Len(field[1].range) = 1
                    /\ field[1].range[1].aliases = 0
IsStep(field) == Len(field) = 1 /\ field[1].range = <<>> /\ Len(field[1].step) = 1
NumberOf(field) == field[1].range[1].value
StepOf(field) == field[1].step[1]

DayParts(field) == field # Every /\ \A part \in Range(field) : part.step = <<>> /\ part.range # <<>>

Says(kind, fields) == [kind |-> kind, of |-> fields]

DescribeFields(raw) ==
    LET f == raw.fields
        everyDay == f[3] = Every /\ f[4] = Every /\ f[5] = Every
        atTime == IsNumeric(f[1]) /\ IsNumeric(f[2])
    IN CASE everyDay /\ f[1] = Every /\ f[2] = Every -> Says("minutes", 1)
         [] everyDay /\ IsStep(f[1]) /\ f[2] = Every -> Says("minutes", StepOf(f[1]))
         [] everyDay /\ IsNumeric(f[1]) /\ IsStep(f[2]) ->
                Says("hours", <<StepOf(f[2]), NumberOf(f[1])>>)
         [] everyDay /\ IsNumeric(f[1]) /\ f[2] = Every -> Says("hours", <<1, NumberOf(f[1])>>)
         [] everyDay /\ atTime -> Says("day", <<NumberOf(f[2]), NumberOf(f[1])>>)
         [] atTime /\ f[3] = Every /\ f[4] = Every /\ DayParts(f[5]) ->
                Says("week", <<NumberOf(f[2]), NumberOf(f[1]), f[5]>>)
         [] atTime /\ f[4] = Every /\ f[5] = Every /\ IsNumeric(f[3]) ->
                Says("month", <<NumberOf(f[2]), NumberOf(f[1]), NumberOf(f[3])>>)
         [] atTime /\ f[5] = Every /\ IsNumeric(f[3]) /\ IsNumeric(f[4]) ->
                Says("year", <<NumberOf(f[2]), NumberOf(f[1]), NumberOf(f[3]), NumberOf(f[4])>>)
         [] OTHER -> Says("raw", raw)

Describe(raw) ==
    IF raw.special # "none" THEN Says(raw.special, <<>>)
    ELSE IF ~ValidExpression(raw) THEN Says("raw", raw)
    ELSE DescribeFields(raw)

(***************************************************************************)
(* The dialog.                                                             *)
(***************************************************************************)
Presets == {"minutes", "hourly", "daily", "weekly", "monthly", "reboot", "custom"}

DEFAULT_BUILDER == [preset |-> "daily", interval |-> 5, minute |-> 0, hour |-> 3,
                    weekday |-> 1, dayOfMonth |-> 1]

Clamp(n, min, max) == IF n < min THEN min ELSE IF n > max THEN max ELSE n

BuildExpression(b) ==
    LET minute == Exactly(Clamp(b.minute, 0, 59))
        hour == Exactly(Clamp(b.hour, 0, 23))
    IN CASE b.preset = "minutes" ->
                Fields(<<EveryNth(Clamp(b.interval, 1, 59)), Every, Every, Every, Every>>)
         [] b.preset = "hourly" -> Fields(<<minute, Every, Every, Every, Every>>)
         [] b.preset = "daily" -> Fields(<<minute, hour, Every, Every, Every>>)
         [] b.preset = "weekly" ->
                Fields(<<minute, hour, Every, Every, Exactly(Clamp(b.weekday, 0, 6))>>)
         [] b.preset = "monthly" ->
                Fields(<<minute, hour, Exactly(Clamp(b.dayOfMonth, 1, 31)), Every, Every>>)
         [] b.preset = "reboot" -> Special("@reboot")

\* updateBuilder: every preset but custom writes the expression.
Shows(builder) ==
    /\ cdBuilder' = builder
    /\ cdRaw' = IF builder.preset = "custom" THEN cdRaw ELSE BuildExpression(builder)

Types == cdTyped < MaxTyped /\ cdTyped' = cdTyped + 1

CdPicks(preset) == Types /\ Shows([cdBuilder EXCEPT !.preset = preset])

InputsOf(preset) ==
    CASE preset = "minutes" -> {"interval"}
      [] preset = "hourly" -> {"minute"}
      [] preset = "daily" -> {"hour", "minute"}
      [] preset = "weekly" -> {"hour", "minute", "weekday"}
      [] preset = "monthly" -> {"hour", "minute", "dayOfMonth"}
      [] OTHER -> {}

CdEnters(input, n) ==
    Types /\ input \in InputsOf(cdBuilder.preset) /\ Shows([cdBuilder EXCEPT ![input] = n])

\* The user types into the expression: here one field at a time, or a word.
CdTypesRaw(raw) ==
    Types /\ cdRaw' = raw /\ cdBuilder' = [cdBuilder EXCEPT !.preset = "custom"]

TypedField ==
    LET number == {Part(<<Number(n)>>, <<>>) : n \in TypedNumber}
        name == {Part(<<[value |-> 5, aliases |-> i]>>, <<>>) : i \in {4, 5}}
        range == {Part(<<Number(1), Number(5)>>, <<>>), Part(<<Number(5), Number(7)>>, <<>>),
                  Part(<<Number(7), Number(5)>>, <<>>)}
        step == {Part(<<>>, <<n>>) : n \in TypedNumber}
    IN {Every} \cup {<<part>> : part \in number \cup name \cup range \cup step}
         \cup {<<Part(<<Number(1)>>, <<>>), part>> : part \in range \cup name}

CdInit ==
    /\ \/ cdBuilder = DEFAULT_BUILDER /\ cdRaw = BuildExpression(DEFAULT_BUILDER)
       \/ /\ cdBuilder = [DEFAULT_BUILDER EXCEPT !.preset = "custom"]
          /\ cdRaw \in {Special("@weekly"), Fields(<<Every, Every, Every, Every, Every>>)}
    /\ cdTyped = 0

CdNext ==
    \/ \E preset \in Presets : CdPicks(preset)
    \/ \E input \in InputsOf(cdBuilder.preset), n \in TypedNumber : CdEnters(input, n)
    \/ cdRaw.special = "none" /\ \E i \in 1..5, field \in TypedField :
           CdTypesRaw(Fields([cdRaw.fields EXCEPT ![i] = field]))
    \/ CdTypesRaw(Special("@sometimes"))

CdSpec == CdInit /\ [][CdNext]_cdVars

(***************************************************************************)
(* Properties.                                                             *)
(***************************************************************************)
CdTypeOK ==
    /\ DOMAIN cdBuilder = DOMAIN DEFAULT_BUILDER /\ cdBuilder.preset \in Presets
    /\ cdRaw.special \in Specials \cup {"none", "@sometimes"}
    /\ cdRaw.special = "none" => Len(cdRaw.fields) = 5

\* The values a field stands for, and those a description tells of.
All(i) == FIELD_SPECS[i].min..FIELD_SPECS[i].max
Values(field, i) ==
    UNION {LET from == IF part.range = <<>> THEN FIELD_SPECS[i].min ELSE part.range[1].value
               to == IF part.range = <<>> THEN FIELD_SPECS[i].max
                     ELSE part.range[Len(part.range)].value
               step == IF part.step = <<>> THEN 1 ELSE part.step[1]
           IN {v \in from..to : (v - from) % step = 0} : part \in Range(field)}

Told(said) ==
    LET o == said.of IN
    CASE said.kind = "minutes" -> <<{m \in All(1) : m % o = 0}, All(2), All(3), All(4), All(5)>>
      [] said.kind = "hours" -> <<{o[2]}, {h \in All(2) : h % o[1] = 0}, All(3), All(4), All(5)>>
      [] said.kind = "day" -> <<{o[2]}, {o[1]}, All(3), All(4), All(5)>>
      [] said.kind = "week" -> <<{o[2]}, {o[1]}, All(3), All(4), Values(o[3], 5)>>
      [] said.kind = "month" -> <<{o[2]}, {o[1]}, {o[3]}, All(4), All(5)>>
      [] said.kind = "year" -> <<{o[2]}, {o[1]}, {o[3]}, {o[4]}, All(5)>>

InWords(said) == said.kind \in {"minutes", "hours", "day", "week", "month", "year"}

\* What the dialog accepts runs at times that exist and is described by the times it runs
\* at; a preset writes the expression it shows, and is always accepted.
CdScheduleIsSaid ==
    /\ cdBuilder.preset # "custom" => ValidExpression(cdRaw) /\ cdRaw = BuildExpression(cdBuilder)
    /\ ValidExpression(cdRaw) =>
        \A i \in DOMAIN cdRaw.fields :
            LET runs == Values(cdRaw.fields[i], i)
                said == Describe(cdRaw)
            IN /\ runs # {} /\ runs \subseteq All(i)
               /\ InWords(said) => Told(said)[i] = runs
===============================================================================
