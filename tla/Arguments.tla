------------------------------ MODULE Arguments ------------------------------
(***************************************************************************)
(* The arguments of keywords (running/arguments.py): how the arguments a   *)
(* keyword accepts are declared, how the arguments it is given are divided *)
(* into positional and named ones, and what the keyword then gets. A       *)
(* keyword of Python and a user keyword have the same arguments here, so   *)
(* that what they do with them can be compared.                            *)
(***************************************************************************)
EXTENDS Integers, Sequences, FiniteSets, SequencesExt

CONSTANTS Tokens,      \* of the declarations: [kind, name]
          MaxTokens,   \* bound: tokens in a declaration
          Written,     \* arguments as they are written: [name, value] or a list of values
          MaxWritten,  \* bound: arguments of a call
          JavaMethods, JavaValues \* of Java methods, and the values these get
ASSUME ArgumentsAssumption == MaxTokens \in Nat /\ MaxWritten \in Nat

VARIABLES declared,  \* the tokens of the declaration
          given,     \* the arguments of the call as they are written
          python,    \* what a keyword of Python does with them
          user,      \* what a user keyword does with them
          dry,       \* what a dry run says of them
          javaMethod, java \* of a Java method, and what it gets
argVars == <<declared, given, python, user, dry, javaMethod, java>>

Unbounded == 99 \* sys.maxint
NoName == ""
Invalid == [invalid |-> TRUE]
Failed == [failed |-> TRUE]
NotRun == [failed |-> FALSE]
Missing == [missing |-> TRUE]
Default(name) == [default |-> name]

------------------------------------------------------------------------------
(***************************************************************************)
(* Declarations. A token is an argument ("plain"), one with a default, a   *)
(* list, or something that is no variable, which user keywords reject.     *)
(***************************************************************************)
Named(tokens, kinds) ==
    LET chosen == SelectSeq(tokens, LAMBDA t: t.kind \in kinds) IN [i \in DOMAIN chosen |-> chosen[i].name]
SpecOf(tokens) ==
    LET names == Named(tokens, {"plain", "default"})
        defaults == Named(tokens, {"default"})
        varargs == Named(tokens, {"list"}) # <<>>
    IN  [names |-> names, defaults |-> defaults, varargs |-> varargs,
         min |-> Len(names) - Len(defaults), max |-> IF varargs THEN Unbounded ELSE Len(names)]
OutOfOrder(tokens) == \E i, j \in DOMAIN tokens:
    i < j /\ (tokens[i].kind = "list" \/ (tokens[i].kind = "default" /\ tokens[j].kind = "plain"))
DynamicArgSpec(tokens) == IF OutOfOrder(tokens) THEN Invalid ELSE SpecOf(tokens)
UserArgSpec(tokens) ==
    IF OutOfOrder(tokens) \/ \E i \in DOMAIN tokens: tokens[i].kind = "invalid" THEN Invalid ELSE SpecOf(tokens)

------------------------------------------------------------------------------
(***************************************************************************)
(* Resolvers. Named arguments are looked for from the end, among the       *)
(* arguments after as many as are mandatory.                               *)
(***************************************************************************)
IsList(arg) == "items" \in DOMAIN arg
IsNamed(spec, arg) == ~IsList(arg) /\ arg.name \in Range(spec.names)
NamedFrom(spec, args) == \* the first of the arguments that are named
    LET positional == {i \in DOMAIN args: ~IsNamed(spec, args[i])}
        last == CHOOSE i \in positional \cup {0}: \A j \in positional: j <= i
    IN  (IF last > spec.min THEN last ELSE IF Len(args) < spec.min THEN Len(args) ELSE spec.min) + 1
ReplaceList(args) == FlattenSeq([i \in DOMAIN args |-> IF IsList(args[i]) THEN args[i].items ELSE <<args[i]>>])
ArgumentUsage(spec, args) ==
    LET from == NamedFrom(spec, args)
    IN  [positional |-> ReplaceList(SubSeq(args, 1, from - 1)), named |-> SubSeq(args, from, Len(args))]
Repeated(named) == \E i, j \in DOMAIN named: i # j /\ named[i].name = named[j].name
NamedNames(usage) == {usage.named[i].name: i \in DOMAIN usage.named}
ValueOf(usage, name) == usage.named[CHOOSE i \in DOMAIN usage.named: usage.named[i].name = name].value

WithinLimits(spec, count) == spec.min <= count /\ count <= spec.max
CheckArgLimits(spec, usage) == WithinLimits(spec, Len(usage.positional) + Len(usage.named))
CheckArgLimitsForDryRun(spec, args) ==
    LET scalars == Len(SelectSeq(args, LAMBDA a: ~IsList(a)))
    IN  WithinLimits(spec, IF scalars <= spec.min /\ scalars < Len(args) THEN spec.min ELSE Len(args))

------------------------------------------------------------------------------
(***************************************************************************)
(* Calls. A keyword of Python is a function, which gets each argument once.*)
(***************************************************************************)
Upto(n, m) == IF n < m THEN n ELSE m
After(s, n) == SubSeq(s, n + 1, Len(s))
CallFunction(spec, usage) ==
    LET places == 1..Upto(Len(usage.positional), Len(spec.names))
        named == NamedNames(usage)
        missing == {i \in DOMAIN spec.names \ places: i <= spec.min /\ spec.names[i] \notin named}
    IN  IF \/ \E i \in places: spec.names[i] \in named
           \/ Len(usage.positional) > Len(spec.names) /\ ~spec.varargs
           \/ missing # {}
        THEN Failed
        ELSE [values |-> [i \in DOMAIN spec.names |->
                  IF i \in places THEN usage.positional[i]
                  ELSE IF spec.names[i] \in named THEN [name |-> NoName, value |-> ValueOf(usage, spec.names[i])]
                  ELSE Default(spec.names[i])],
              varargs |-> After(usage.positional, Len(spec.names))]
PythonResolve(spec, args) ==
    LET usage == ArgumentUsage(spec, args)
    IN  IF Repeated(usage.named) \/ ~CheckArgLimits(spec, usage) THEN Failed ELSE CallFunction(spec, usage)

\* A user keyword fills a template of its arguments, first from the named and
\* then from the positional ones.
TemplateFor(spec) == [i \in DOMAIN spec.names |-> IF i <= spec.min THEN Missing ELSE Default(spec.names[i])]
\* Mutant: values go to the wrong places when lists are involved.
PositionalOnly(spec, usage) ==
    LET positional == SubSeq(usage.positional, 1, Upto(Len(spec.names), Len(usage.positional)))
    IN  [i \in DOMAIN spec.names |-> IF i \in DOMAIN positional THEN positional[i] ELSE TemplateFor(spec)[i]]
ResolveArgValues(spec, usage) ==
    [i \in DOMAIN spec.names |->
            IF i <= Len(usage.positional) THEN usage.positional[i]
            ELSE IF spec.names[i] \in NamedNames(usage)
                 THEN [name |-> NoName, value |-> ValueOf(usage, spec.names[i])]
            ELSE TemplateFor(spec)[i]]
CheckMissingArgs(values) == Missing \notin Range(values)
SetVariables(spec, values) ==
    [values |-> SubSeq(values, 1, Len(spec.names)), varargs |-> After(values, Len(spec.names))]
UserResolve(spec, args) ==
    LET usage == ArgumentUsage(spec, args)
        values == ResolveArgValues(spec, usage) \o After(usage.positional, Len(spec.names))
    IN  IF Repeated(usage.named) \/ ~CheckArgLimits(spec, usage) THEN Failed
        ELSE IF ~CheckMissingArgs(values) THEN Failed
        ELSE SetVariables(spec, values)

\* A keyword of a dynamic library is a function of positional arguments only.
DynamicResolve(spec, args) ==
    LET usage == ArgumentUsage(spec, args)
    IN  IF usage.named # <<>> THEN Failed ELSE PythonResolve(spec, args)

\* A dry run fills in what is missing.
ResolveForDryRun(spec, args) ==
    IF ~CheckArgLimitsForDryRun(spec, args) THEN Failed
    ELSE SetVariables(spec, args \o [i \in 1..(Len(spec.names) - Upto(Len(args), Len(spec.names))) |-> Missing])

------------------------------------------------------------------------------
(***************************************************************************)
(* Java. Signatures are sequences of types, of which the last can be an    *)
(* array. Types are coerced to when all signatures agree on them.          *)
(***************************************************************************)
IsArray(type) == type = "array"
JavaArgLimits(signatures) ==
    LET lengths == {Len(s): s \in signatures}
        only == CHOOSE s \in signatures: TRUE
    IN  IF Cardinality(signatures) = 1 /\ only # <<>> /\ IsArray(Last(only))
        THEN [min |-> Len(only) - 1, max |-> Unbounded]
        ELSE [min |-> CHOOSE n \in lengths: \A m \in lengths: n <= m,
              max |-> CHOOSE n \in lengths: \A m \in lengths: n >= m]
JavaCollected(limits, values) == \* the last ones as a list, if they are not one already
    LET collect == limits.max = Unbounded
                   /\ ~(Len(values) = limits.min + 1 /\ Last(values).type = "list")
    IN  IF collect THEN Append(SubSeq(values, 1, limits.min), [type |-> "list"]) ELSE values
Coercible == {"boolean", "integer", "float"}
CoercerAt(signatures, i) ==
    LET types == {s[i]: s \in {t \in signatures: i \in DOMAIN t}}
    IN  IF Cardinality(types) = 1 THEN types \cap Coercible ELSE {}
Coerce(signatures, values) ==
    [i \in DOMAIN values |->
        IF values[i].type # "text" \/ CoercerAt(signatures, i) = {} THEN values[i]
        ELSE LET type == CHOOSE t \in CoercerAt(signatures, i): TRUE
             IN  IF type \in values[i].as THEN [type |-> type] ELSE [type |-> "failed"]]
JavaResolve(signatures, values) ==
    LET limits == JavaArgLimits(signatures)
    IN  IF ~WithinLimits(limits, Len(values)) THEN Failed
        ELSE LET got == Coerce(signatures, JavaCollected(limits, values))
             IN  IF [type |-> "failed"] \in Range(got) THEN Failed ELSE [values |-> got]

------------------------------------------------------------------------------
SeqsUpto(S, n) == UNION {[1..m -> S]: m \in 0..n}
DistinctNames(tokens) == \A i, j \in DOMAIN tokens: i # j => tokens[i].name # tokens[j].name

ArgumentsInit ==
    /\ declared \in {t \in SeqsUpto(Tokens, MaxTokens): DistinctNames(t)}
    /\ javaMethod \in IF declared = <<>> THEN JavaMethods ELSE {{<<>>}}
    /\ given = <<>> /\ python = NotRun /\ user = NotRun /\ dry = NotRun /\ java = NotRun
\* A keyword of Python and a user keyword are called, and run dry.
CallKeyword(args) ==
    LET spec == DynamicArgSpec(declared)
    IN  /\ python = NotRun /\ java = NotRun /\ javaMethod = {<<>>} /\ spec # Invalid /\ given' = args
        /\ python' = PythonResolve(spec, args)
        /\ user' = IF UserArgSpec(declared) = Invalid THEN Failed ELSE UserResolve(UserArgSpec(declared), args)
        /\ dry' = ResolveForDryRun(spec, args)
        /\ UNCHANGED <<declared, javaMethod, java>>
CallJava(values) ==
    /\ python = NotRun /\ java = NotRun /\ declared = <<>> /\ given' = values
    /\ java' = JavaResolve(javaMethod, values)
    /\ UNCHANGED <<declared, javaMethod, python, user, dry>>
ArgumentsNext ==
    \/ \E args \in SeqsUpto(Written, MaxWritten): CallKeyword(args)
    \/ \E values \in SeqsUpto(JavaValues, MaxWritten): CallJava(values)
ArgumentsSpec == ArgumentsInit /\ [][ArgumentsNext]_argVars

------------------------------------------------------------------------------
Succeeded(outcome) == outcome # NotRun /\ outcome # Failed

\* A user keyword gets what a keyword of Python with the same arguments gets, so
\* that one can be written instead of the other: its template is filled from
\* both ends as Python binds arguments, whatever is given by position, by name,
\* by a list variable or not at all. What only the user keyword accepts gives
\* an argument a value twice.
PythonAndUserAgree ==
    LET usage == ArgumentUsage(SpecOf(declared), given)
    IN  python # NotRun /\ UserArgSpec(declared) # Invalid =>
            /\ Succeeded(python) => user = python
            /\ Succeeded(user) => \/ python = user
                                  \/ \E i \in DOMAIN usage.positional \cap DOMAIN SpecOf(declared).names:
                                        SpecOf(declared).names[i] \in NamedNames(usage)
            /\ Succeeded(DynamicResolve(SpecOf(declared), given)) => Succeeded(python)

\* The named argument syntax is used, as the user guide says, only with the
\* names of arguments with default values: any other argument is passed as it is.
OnlyDefaultsAreNamed ==
    Succeeded(user) =>
        \A i \in DOMAIN given:
            ~IsList(given[i]) /\ given[i].name # NoName /\ given[i].name \notin Range(SpecOf(declared).defaults)
            => given[i] \in Range(user.values) \cup Range(user.varargs)

\* A dry run fails no keyword that would get its arguments when it is run, if
\* no list variable is empty, and without list variables it passes no keyword
\* that gets too few or too many; it sets all arguments of a user keyword.
DryRunAgrees ==
    /\ dry = Failed =>
           (python = Failed /\ user = Failed) \/ \E i \in DOMAIN given: IsList(given[i]) /\ given[i].items = <<>>
    /\ Succeeded(dry) => Len(dry.values) = Len(SpecOf(declared).names)
    /\ Succeeded(dry) /\ (\A i \in DOMAIN given: ~IsList(given[i]) /\ given[i].name = NoName) =>
           Succeeded(python) /\ dry.varargs = python.varargs

\* A Java method gets as many arguments as it has if it has one signature, also
\* when the last ones are collected to an array, and a text is coerced to a type
\* only if that is what all javaMethod have in its place.
JavaArgumentsFit ==
    Succeeded(java) =>
        /\ \A s \in javaMethod: javaMethod = {s} => Len(java.values) = Len(s)
        /\ \A i \in DOMAIN java.values: java.values[i].type \in Coercible =>
               \A s \in javaMethod: i \in DOMAIN s => s[i] = java.values[i].type
        /\ \A i \in DOMAIN java.values: java.values[i].type = "text" =>
               \E s \in javaMethod: i \in DOMAIN s /\ (s[i] \notin Coercible \/ \E t \in javaMethod: i \in DOMAIN t /\ s[i] # t[i])
=============================================================================
