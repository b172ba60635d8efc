---------------------------- MODULE BankStatement ----------------------------
(***************************************************************************)
(* The parser of MT940 statements (bank/parsers/mt940.parser.ts), against  *)
(* what its comments say of the format: a transaction is a line :61:, with *)
(* value date, optional entry date, mark and amount; the line :86: that    *)
(* follows describes it; :60: and :62: are the balances.                   *)
(*                                                                         *)
(* A statement grows here line by line, so that every statement of up to   *)
(* MaxLines lines is one state.  Of a value date the model keeps the year, *)
(* of an entry date month and day as one, of an amount its digits.         *)
(***************************************************************************)
EXTENDS Naturals, Sequences, FiniteSets

CONSTANTS
    Nothing,            \* null, undefined
    Years,              \* YY
    MonthDays,          \* MMDD
    Digits,             \* what an amount is written with
    Texts,              \* descriptions of a transaction
    MaxLines            \* bound on lines of a statement

ASSUME StatementAssumption ==
    /\ MaxLines \in Nat
    /\ Years \subseteq 0..99
    /\ Nothing \notin Texts \cup MonthDays

(* The indicator has one letter or two.                                    *)
Marks == {"C", "D", "CR", "DR"}
Letters(mark) == IF mark \in {"C", "D"} THEN 1 ELSE 2

Amounts940 == [1..2 -> Digits]

TransactionLine ==
    [tag : {":61:"}, value : Years, entry : MonthDays \cup {Nothing}, mark : Marks, amount : Amounts940]
DetailsLine == [tag : {":86:"}, text : Texts]
BalanceLine == [tag : {":60F:", ":62F:"}, amount : Amounts940]
Lines == TransactionLine \cup DetailsLine \cup BalanceLine

(* A transaction as it is parsed.                                          *)
Transaction940 ==
    [valueDate : Nat, entryDate : ({2020} \X MonthDays) \cup {Nothing},
     type : {"Debit", "Credit"}, amount : Amounts940 \cup [1..1 -> Digits], details : Texts \cup {Nothing}]

ASSUME StatementNone == Nothing \notin Transaction940 \cup ({2020} \X MonthDays)

VARIABLE lines          \* the lines of the statement so far

StatementTypeOK == lines \in Seq(Lines) /\ Len(lines) <= MaxLines

StatementInit == lines = <<>>

(* The bank writes the next line.                                          *)
WriteLine ==
    /\ Len(lines) < MaxLines
    /\ \E l \in Lines : lines' = Append(lines, l)

StatementNext == WriteLine

-----------------------------------------------------------------------------
(* parseTransactionLine.  A year gets 20 before its two digits.  The mark  *)
(* is always taken to have two letters, so with one letter the first digit *)
(* of the amount goes with it; the entry date, put behind '20', is read as *)
(* YYMMDD: the year is 2020.                                               *)
parseTransactionLine(l) ==
    [valueDate |-> 2000 + l.value,
     entryDate |-> IF l.entry = Nothing THEN Nothing ELSE <<2020, l.entry>>,
     type |-> IF l.mark \in {"D", "DR"} THEN "Debit" ELSE "Credit",
     amount |-> SubSeq(l.amount, 1 + 2 - Letters(l.mark), Len(l.amount)),
     details |-> Nothing]

NothingParsed ==
    [transactions |-> <<>>, current |-> Nothing, opening |-> Nothing, closing |-> Nothing]

(* The transaction that is being read joins the others.                    *)
Pushed(result) ==
    IF result.current = Nothing THEN result.transactions
    ELSE Append(result.transactions, result.current)

(* Mutant: a transaction is pushed when its description is read.           *)
PushOnDetails(result, l) ==
    CASE l.tag = ":60F:" -> [result EXCEPT !.opening = l.amount]
      [] l.tag = ":62F:" -> [result EXCEPT !.closing = l.amount]
      [] l.tag = ":61:" -> [result EXCEPT !.current = parseTransactionLine(l)]
      [] l.tag = ":86:" ->
            IF result.current = Nothing THEN result
            ELSE [result EXCEPT !.transactions =
                    Append(@, [result.current EXCEPT !.details = l.text]), !.current = Nothing]

ParseLine(result, l) ==
    CASE l.tag = ":60F:" -> [result EXCEPT !.opening = l.amount]
      [] l.tag = ":62F:" -> [result EXCEPT !.closing = l.amount]
      [] l.tag = ":61:" -> [result EXCEPT !.transactions = Pushed(result),
                                          !.current = parseTransactionLine(l)]
      [] l.tag = ":86:" ->
            IF result.current = Nothing THEN result
            ELSE [result EXCEPT !.current.details = l.text]

(* The result after each number of lines.                                  *)
Reading(statement) ==
    LET result[n \in 0..Len(statement)] ==
            IF n = 0 THEN NothingParsed ELSE ParseLine(result[n - 1], statement[n])
    IN  result

parseMT940(statement) ==
    LET result == Reading(statement)[Len(statement)]
    IN  [transactions |-> Pushed(result), opening |-> result.opening, closing |-> result.closing]

-----------------------------------------------------------------------------
Tagged(tag) == {i \in DOMAIN lines : lines[i].tag = tag}

(* The last of a set of lines, its field, or Nothing.                      *)
LastAmount(tag) ==
    IF Tagged(tag) = {} THEN Nothing
    ELSE lines[CHOOSE i \in Tagged(tag) : \A j \in Tagged(tag) : j <= i].amount

(* The lines :86: that describe the transaction of line i.                 *)
Describes(i) ==
    {j \in Tagged(":86:") : i < j /\ ~\E k \in Tagged(":61:") : i < k /\ k < j}

(* The line of the n-th transaction.                                       *)
At61(n) ==
    CHOOSE i \in Tagged(":61:") : Cardinality({j \in Tagged(":61:") : j <= i}) = n

(* Every :61: is one transaction, in order; it has the last description    *)
(* before the next :61: and none of a neighbour's, its side, the year of   *)
(* its value date, month and day of its entry date, which it has if and    *)
(* only if the line has one, and its amount if the mark has two letters,   *)
(* as in the example of the comment (DR500,00).  FormatIsRead says the     *)
(* rest.                                                                   *)
StatementIsRead ==
    LET parsed == parseMT940(lines)
    IN  /\ Len(parsed.transactions) = Cardinality(Tagged(":61:"))
        /\ parsed.opening = LastAmount(":60F:")
        /\ parsed.closing = LastAmount(":62F:")
        /\ \A n \in DOMAIN parsed.transactions :
            LET t == parsed.transactions[n]
                l == lines[At61(n)]
                texts == Describes(At61(n))
            IN  /\ t.valueDate = 2000 + l.value
                /\ (t.entryDate = Nothing) <=> (l.entry = Nothing)
                /\ l.entry # Nothing => t.entryDate[2] = l.entry
                /\ t.type = "Debit" <=> l.mark \in {"D", "DR"}
                /\ Letters(l.mark) = 2 => t.amount = l.amount
                /\ IF texts = {} THEN t.details = Nothing
                   ELSE \E j \in texts : /\ \A k \in texts : k <= j
                                         /\ t.details = lines[j].text

(* A line in the full format of the comment, YYMMDD [MMDD] C/D AMOUNT with *)
(* its entry date, is read as it is written: the amount is the one of the  *)
(* line, also behind a mark of one letter, and the entry date, which names *)
(* no year, is in the year of the value date or in one beside it.          *)
FormatIsRead ==
    LET parsed == parseMT940(lines)
    IN  \A n \in DOMAIN parsed.transactions :
            LET t == parsed.transactions[n]
                l == lines[At61(n)]
            IN  l.entry # Nothing =>
                    /\ t.amount = l.amount
                    /\ t.entryDate[1] \in (t.valueDate - 1)..(t.valueDate + 1)
=============================================================================
