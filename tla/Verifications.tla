--------------------------- MODULE Verifications ----------------------------
(***************************************************************************)
(* The keywords of BuiltIn that convert values and verify that they are    *)
(* equal, true, or neither (libraries/BuiltIn.py, utils/asserts.py).       *)
(*                                                                         *)
(* A value has a kind; a text is written as it is, a number is counted in  *)
(* tenths of the sixth decimal, and an object has an integer value only.   *)
(* How Python reads texts and compares values is external.                 *)
(***************************************************************************)
EXTENDS Naturals, TLC

CONSTANT Unit    \* a whole number, in tenths of the sixth decimal

VARIABLES first,    \* the value that is verified
          second,   \* the value that it is compared with
          message,  \* whether an error message is given
          values,   \* how it is told whether it is to contain the values
          checked   \* what the keywords and their opposites have answered
verificationVars == <<first, second, message, values, checked>>

Str(t) == [kind |-> "text", text |-> t]
Integer(n) == [kind |-> "integer", number |-> n * Unit]
Float(n) == [kind |-> "float", number |-> n]
Boolean(b) == [kind |-> "boolean", number |-> IF b THEN Unit ELSE 0]
Values == {Str(t): t \in {"1", "1.0", "1.0000004", "1.0000006", "0", "True", "true", "False", "", "x"}}
          \cup {Integer(0), Integer(1), Float(Unit), Float(Unit + 4), Float(Unit + 6), Float(2 * Unit - 1)}
          \cup {Boolean(TRUE), [kind |-> "nothing"], [kind |-> "list"], [kind |-> "object", number |-> Unit]}
Numbers == {"integer", "float", "boolean"}

\* Python: the texts that int and float read, and those that eval can.
IntTexts == "1" :> Unit @@ "0" :> 0
FloatTexts == "1.0" :> Unit @@ "1.0000004" :> Unit + 4 @@ "1.0000006" :> Unit + 6 @@ IntTexts
EvalTexts == "True" :> Unit @@ "False" :> 0 @@ FloatTexts
SameObjects(a, b) == IF a.kind \in Numbers /\ b.kind \in Numbers THEN a.number = b.number ELSE a = b
TruthValue(v) == CASE v.kind = "text" -> v.text # ""
                   [] v.kind \in Numbers -> v.number # 0
                   [] OTHER -> v.kind = "object"
Unic(v) == CASE v.kind = "text" -> v.text
             [] v.kind = "integer" -> IF v.number = 0 THEN "0" ELSE "1"
             [] v = Float(Unit) -> "1.0"
             [] v = Float(Unit + 4) -> "1.0000004"
             [] v = Float(Unit + 6) -> "1.0000006"
             [] v = Boolean(TRUE) -> "True"
             [] OTHER -> v.kind

\* A conversion fails or has a value.
Failing == [kind |-> "error"]
ConvertToInteger(v) ==
    CASE v.kind = "text" -> IF v.text \in DOMAIN IntTexts THEN [kind |-> "integer", number |-> IntTexts[v.text]] ELSE Failing
      [] v.kind \in Numbers \cup {"object"} -> [kind |-> "integer", number |-> (v.number \div Unit) * Unit]
      [] OTHER -> Failing
\* What float does not take is converted to an integer first.
ConvertToNumber(v) ==
    CASE v.kind = "text" /\ v.text \in DOMAIN FloatTexts -> Float(FloatTexts[v.text])
      [] v.kind \in Numbers -> Float(v.number)
      [] OTHER -> IF ConvertToInteger(v) = Failing THEN Failing ELSE Float(ConvertToInteger(v).number)
ConvertToString(v) == Str(Unic(v))
ConvertToBoolean(v) ==
    CASE v.kind = "text" /\ v.text \in {"True", "true"} -> TRUE
      [] v.kind = "text" /\ v.text = "False" -> FALSE
      [] OTHER -> TruthValue(v)

RoundToSix(v) == IF v = Failing THEN v ELSE Float(((v.number + 5) \div 10) * 10)
ConversionsOf == {"objects", "integers", "numbers", "strings"}
Converted(as, v) == CASE as = "objects" -> v
                      [] as = "integers" -> ConvertToInteger(v)
                      [] as = "numbers" -> RoundToSix(ConvertToNumber(v))
                      [] as = "strings" -> ConvertToString(v)

\* What a message contains: the values that are compared, the text given.
IncludeValues(v) == v \notin {"No Values", "false", "${False}"}
UnequalityMessage(given, include) ==
    IF ~given THEN {"values"} ELSE IF include THEN {"text", "values"} ELSE {"text"}
\* Keywords for texts ask whether values is true, and a text never is.
StringMessage(given, v) == IF ~given THEN {"values"} ELSE IF v = "${True}" THEN {"text", "values"} ELSE {"text"}

Answer(condition, parts) == IF condition THEN [status |-> "PASS", message |-> {}] ELSE [status |-> "FAIL", message |-> parts]
CannotTell == [status |-> "ERROR", message |-> {"values"}]
\* Both keywords convert before they compare.
ShouldBeEqual(as, a, b, given, v) ==
    LET x == Converted(as, a) y == Converted(as, b)
    IN  IF Failing \in {x, y} THEN CannotTell
        ELSE Answer(SameObjects(x, y), UnequalityMessage(given, IncludeValues(v)))
ShouldNotBeEqual(as, a, b, given, v) ==
    LET x == Converted(as, a) y == Converted(as, b)
    IN  IF Failing \in {x, y} THEN CannotTell
        ELSE Answer(~SameObjects(x, y), UnequalityMessage(given, IncludeValues(v)))

\* A condition that is a text is an expression.
Evaluated(c) == c.kind = "text" => c.text \in DOMAIN EvalTexts
IsTrue(c) == IF c.kind = "text" THEN EvalTexts[c.text] # 0 ELSE TruthValue(c)
ShouldBeTrue(c, given) == IF ~Evaluated(c) THEN CannotTell ELSE Answer(IsTrue(c), IF given THEN {"text"} ELSE {"values"})
ShouldNotBeTrue(c, given) == IF ~Evaluated(c) THEN CannotTell ELSE Answer(~IsTrue(c), IF given THEN {"text"} ELSE {"values"})

ShouldContain(a, b, given, v) == Answer(b.text = "" \/ a = b, StringMessage(given, v))
ShouldNotContain(a, b, given, v) == Answer(~(b.text = "" \/ a = b), StringMessage(given, v))

NotChecked == [keyword |-> "none", should |-> CannotTell, shouldNot |-> CannotTell]
Checked(keyword, a, b) == [keyword |-> keyword, should |-> a, shouldNot |-> b]
VerificationInit ==
    /\ first \in Values /\ second \in Values /\ message \in BOOLEAN
    /\ values \in {"${True}", "${False}", "True", "No Values", "false"}
    /\ checked = NotChecked
CheckEqual(as) ==
    /\ checked = NotChecked
    /\ checked' = Checked(as, ShouldBeEqual(as, first, second, message, values),
                              ShouldNotBeEqual(as, first, second, message, values))
    /\ UNCHANGED <<first, second, message, values>>
CheckTrue ==
    /\ checked = NotChecked
    /\ checked' = Checked("true", ShouldBeTrue(first, message), ShouldNotBeTrue(first, message))
    /\ UNCHANGED <<first, second, message, values>>
CheckContains ==
    /\ checked = NotChecked /\ first.kind = "text" /\ second.kind = "text"
    /\ first.text \in {"x", "True"} /\ second.text \in {"", "x", "True"}
    /\ checked' = Checked("contains", ShouldContain(first, second, message, values),
                                      ShouldNotContain(first, second, message, values))
    /\ UNCHANGED <<first, second, message, values>>
VerificationNext == (\E as \in ConversionsOf: CheckEqual(as)) \/ CheckTrue \/ CheckContains
VerificationSpec == VerificationInit /\ [][VerificationNext]_verificationVars

-----------------------------------------------------------------------------
\* Whether two values are the same as something, when they can be compared:
\* numbers are whose distance from a multiple of a sixth decimal is the same.
Verified(as, a, b) == ShouldBeEqual(as, a, b, FALSE, "True").status
Nearest(v) == CHOOSE n \in {(v.number \div 10) * 10, (v.number \div 10) * 10 + 10}:
                  2 * (IF n > v.number THEN n - v.number ELSE v.number - n) <= 10

\* Of a keyword and its opposite exactly one passes, unless both tell that a
\* value cannot be converted; the values that a keyword takes to be equal are
\* equal to the same values; a value is equal to what it is converted to;
\* what is equal as it is, or as an integer that it was, is equal as a number;
\* numbers are equal exactly when the decimals nearest to them are; and what
\* Convert To Boolean makes of True and False is what the conditions mean
\* (BuiltIn.py:243-256, 66, 99, 1597).
VerificationsAgree ==
    /\ checked # NotChecked =>
          IF checked.should.status = "ERROR" THEN checked.shouldNot.status = "ERROR"
          ELSE {checked.should.status, checked.shouldNot.status} = {"PASS", "FAIL"}
    /\ \A as \in ConversionsOf:
          /\ Verified(as, first, second) = Verified(as, second, first)
          /\ Verified(as, first, second) = "PASS" =>
                \A v \in Values: Verified(as, first, v) = Verified(as, second, v)
          /\ Converted(as, first) # Failing => Verified(as, first, Converted(as, first)) = "PASS"
    /\ SameObjects(first, second) => \A as \in {"integers", "numbers"}: Verified(as, first, second) # "FAIL"
    /\ LET x == ConvertToNumber(first) y == ConvertToNumber(second)
       IN  Failing \notin {x, y} => (Verified("numbers", first, second) = "PASS" <=> Nearest(x) = Nearest(y))
    /\ first \in {Str("True"), Str("False")} =>
          (ConvertToBoolean(first) <=> ShouldBeTrue(first, FALSE).status = "PASS")

\* What the documentation of Should Contain says: how the message and values
\* work is explained in Should Be Equal (BuiltIn.py:318), where everything but
\* false and the texts False and No Values adds the values.
MessagesAreAsExplained ==
    (checked.keyword = "contains" /\ message) =>
        LET parts == checked.should.message \cup checked.shouldNot.message
        IN  parts = UnequalityMessage(message, IncludeValues(values))
=============================================================================
