---------------------------- MODULE ReturnParsing ----------------------------
(* How a return is read: submission-parser.ts (lines and fields of a CSV file, *)
(* dates, reporting periods, the header and the rows), ingestion-validators.ts *)
(* (the check digits and the gate) and spreadsheet-to-csv.ts (a workbook       *)
(* written as CSV).  A step reads one input; the properties relate what was    *)
(* read to what was written.  A text is a sequence of characters, a date a     *)
(* triple, and the value of a column one of a few kinds of value.              *)
EXTENDS Integers, Sequences, SequencesExt, FiniteSets

CONSTANT Inputs  \* what may be presented for reading

VARIABLES input, result  \* result is <<>> until the input is read
vars == <<input, result>>

Init == input \in Inputs /\ result = <<>>
Read(what, r) == input.what = what /\ result = <<>> /\ result' = <<r>> /\ UNCHANGED input

Newline == "\n"
Quote == "\""
Comma == ","
Blank == " "

-----------------------------------------------------------------------------
Trim(s) ==
    LET Ink == {i \in DOMAIN s : s[i] # Blank}
    IN IF Ink = {} THEN <<>>
       ELSE SubSeq(s, CHOOSE i \in Ink : \A j \in Ink : i <= j,
                      CHOOSE i \in Ink : \A j \in Ink : j <= i)

\* Mutant: a doubled quote closes the field.
QuoteCloses(st, ch, next) ==
    IF st.quoted
    THEN IF ch = Quote THEN [st EXCEPT !.quoted = FALSE] ELSE [st EXCEPT !.field = Append(@, ch)]
    ELSE IF ch = Quote THEN [st EXCEPT !.quoted = TRUE]
    ELSE IF ch = Comma THEN [st EXCEPT !.out = Append(@, Trim(st.field)), !.field = <<>>]
    ELSE [st EXCEPT !.field = Append(@, ch)]

\* One character of splitCsvLine: a doubled quote inside quotes is a quote.
SplitStep(st, ch, next) ==
    IF st.skip THEN [st EXCEPT !.skip = FALSE]
    ELSE IF st.quoted
    THEN IF ch # Quote THEN [st EXCEPT !.field = Append(@, ch)]
         ELSE IF next = Quote THEN [st EXCEPT !.field = Append(@, ch), !.skip = TRUE]
         ELSE [st EXCEPT !.quoted = FALSE]
    ELSE IF ch = Quote THEN [st EXCEPT !.quoted = TRUE]
    ELSE IF ch = Comma THEN [st EXCEPT !.out = Append(@, Trim(st.field)), !.field = <<>>]
    ELSE [st EXCEPT !.field = Append(@, ch)]

SplitCsvLine(line) ==
    LET Start == [out |-> <<>>, field |-> <<>>, quoted |-> FALSE, skip |-> FALSE]
        Next2(i) == IF i < Len(line) THEN line[i + 1] ELSE Blank
        st == FoldLeft(LAMBDA s, i : SplitStep(s, line[i], Next2(i)), Start,
                       [i \in 1 .. Len(line) |-> i])
    IN Append(st.out, Trim(st.field))

\* The lines of a text.
LinesOf(text) ==
    FoldLeft(LAMBDA ls, ch : IF ch = Newline THEN Append(ls, <<>>)
                             ELSE [ls EXCEPT ![Len(ls)] = Append(@, ch)], <<<<>>>>, text)
\* Mutant: the lines that stay are numbered afresh.
KeptRenumbered(text) ==
    LET lines == SelectSeq(LinesOf(text), LAMBDA l : Trim(l) # <<>> /\ Trim(l)[1] # "#")
    IN [i \in 1 .. Len(lines) |-> [no |-> i, text |-> Trim(lines[i])]]

\* The lines with something on them; a line that stays keeps its number.
Kept(text) ==
    LET lines == LinesOf(text)
    IN SelectSeq([i \in 1 .. Len(lines) |-> [no |-> i, text |-> Trim(lines[i])]],
                 LAMBDA l : l.text # <<>> /\ l.text[1] # "#")

\* parseCsvText: the first line kept is the header; a row of empty fields is none.
ParseCsvText(text) ==
    LET kept == Kept(text)
        body == SelectSeq([i \in 1 .. Len(kept) - 1 |->
                             [no |-> kept[i + 1].no, values |-> SplitCsvLine(kept[i + 1].text)]],
                          LAMBDA r : \E k \in DOMAIN r.values : r.values[k] # <<>>)
    IN IF kept = <<>> THEN [headers |-> <<>>, rows |-> <<>>, lineNumbers |-> <<>>]
       ELSE [headers |-> SplitCsvLine(kept[1].text),
             rows |-> [i \in DOMAIN body |-> body[i].values],
             lineNumbers |-> [i \in DOMAIN body |-> body[i].no]]

\* csvField and xlsxToCsvText: a sheet as CSV, its blank rows left out.
CsvField(s) ==
    IF \E i \in DOMAIN s : s[i] \in {Quote, Comma, Newline}
    THEN <<Quote>> \o FlattenSeq([i \in DOMAIN s |-> IF s[i] = Quote THEN <<Quote, Quote>> ELSE <<s[i]>>])
                   \o <<Quote>>
    ELSE s
Joined(parts, sep) ==
    IF parts = <<>> THEN <<>>
    ELSE FoldLeft(LAMBDA acc, p : acc \o <<sep>> \o p, Head(parts), Tail(parts))
Inked(sheet) == SelectSeq(sheet, LAMBDA row : \E k \in DOMAIN row : Trim(row[k]) # <<>>)
XlsxToCsvText(sheet) ==
    Joined([i \in DOMAIN Inked(sheet) |->
              Joined([k \in DOMAIN Inked(sheet)[i] |-> CsvField(Trim(Inked(sheet)[i][k]))], Comma)],
           Newline)

ReadText  == Read("text", ParseCsvText(input.text))
ReadSheet == Read("sheet", ParseCsvText(XlsxToCsvText(input.sheet)))

-----------------------------------------------------------------------------
Leap(y) == (y % 4 = 0 /\ y % 100 # 0) \/ y % 400 = 0
DaysIn(y, m) == IF m = 2 THEN (IF Leap(y) THEN 29 ELSE 28)
                ELSE IF m \in {4, 6, 9, 11} THEN 30 ELSE 31
IsValidYmd(y, m, d) == m \in 1 .. 12 /\ d \in 1 .. DaysIn(y, m)
Dates(years) == {d \in years \X (1 .. 12) \X (1 .. 31) : IsValidYmd(d[1], d[2], d[3])}

\* Date.UTC as the code uses it, in days since 1970: the month counts from 0 and
\* may be 12, the day may be 0.
BeforeMonth == <<0, 31, 59, 90, 120, 151, 181, 212, 243, 273, 304, 334>>
Utc(y, m0, d) ==
    LET year == y + m0 \div 12
        past == year - 1
    IN 365 * (year - 1970) + (past \div 4 - past \div 100 + past \div 400 - 477)
       + BeforeMonth[(m0 % 12) + 1] + (IF m0 % 12 > 1 /\ Leap(year) THEN 1 ELSE 0) + d - 1
DayNumber(date) == Utc(date[1], date[2] - 1, date[3])

NoDate == <<>>
Ymd(y, m, d) == IF IsValidYmd(y, m, d) THEN <<y, m, d>> ELSE NoDate

\* Mutant: month first.
MonthFirst(a, b, y) == Ymd(y, a, b)

\* Two parts before a year: day first, unless only the second can be a day.
DayFirst(a, b, y) == IF b > 12 /\ a <= 12 THEN Ymd(y, a, b) ELSE Ymd(y, b, a)

\* parseFlexibleDate, by the form of what is written.
ParseFlexibleDate(w) ==
    CASE w.form = "year first" -> Ymd(w.n[1], w.n[2], w.n[3])
      [] w.form = "parts"      -> DayFirst(w.n[1], w.n[2], w.n[3])
      [] w.form = "short year" -> DayFirst(w.n[1], w.n[2], 2000 + w.n[3])
      [] w.form = "serial"     ->
            IF w.n[1] \notin 20000 .. 60000 THEN NoDate
            ELSE LET day == w.n[1] - 25569
                     y == CHOOSE y \in 1950 .. 2070 : Utc(y, 0, 1) <= day /\ day < Utc(y + 1, 0, 1)
                     m == CHOOSE m \in 1 .. 12 : Utc(y, m - 1, 1) <= day /\ day < Utc(y, m, 1)
                 IN <<y, m, day - Utc(y, m - 1, 1) + 1>>

\* The forms a date may be written in.
Written(date) == {
    [form |-> "year first", n |-> date],
    [form |-> "parts", n |-> <<date[3], date[2], date[1]>>],
    [form |-> "short year", n |-> <<date[3], date[2], date[1] - 2000>>],
    [form |-> "serial", n |-> <<DayNumber(date) + 25569>>]}

\* A period: quarter and month are 0 where the label has none.
Period(y, q, m) == [year |-> y, quarter |-> q, month |-> m]

\* Mutant: a quarter starts where it ends.
QuarterStartsLate(p) ==
    IF p.quarter # 0 THEN Utc(p.year, p.quarter * 3, 1)
    ELSE IF p.month # 0 THEN Utc(p.year, p.month - 1, 1) ELSE Utc(p.year, 0, 1)

PeriodStart(p) ==
    IF p.quarter # 0 THEN Utc(p.year, (p.quarter - 1) * 3, 1)
    ELSE IF p.month # 0 THEN Utc(p.year, p.month - 1, 1) ELSE Utc(p.year, 0, 1)
PeriodEnd(p) ==
    IF p.quarter # 0 THEN Utc(p.year, p.quarter * 3, 0)
    ELSE IF p.month # 0 THEN Utc(p.year, p.month, 0) ELSE Utc(p.year, 12, 0)

\* parsePeriod, of a label that is a period or a date; a date stands for its month.
ParsePeriod(w) ==
    IF w.form = "period" THEN w.n[1]
    ELSE LET d == ParseFlexibleDate(w) IN Period(d[1], 0, d[2])

DateInPeriod(date, p) == DayNumber(date) \in PeriodStart(p) .. PeriodEnd(p)
PeriodHasEnded(p, today) == PeriodEnd(p) < today

\* The upload assistant's list: the last six quarters, twelve months or three
\* years, latest first.
EndedPeriods(freq, date) ==
    LET month == 12 * date[1] + date[2] - 1
        quarter == month \div 3
    IN CASE freq = "QUARTERLY" -> [i \in 1 .. 6 |-> Period((quarter - i) \div 4, ((quarter - i) % 4) + 1, 0)]
         [] freq = "MONTHLY"   -> [i \in 1 .. 12 |-> Period((month - i) \div 12, 0, ((month - i) % 12) + 1)]
         [] freq = "ANNUAL"    -> [i \in 1 .. 3 |-> Period(date[1] - i, 0, 0)]

\* The uploader's: of the year that is chosen, the quarters or months whose next
\* one has begun.  A choice that is not on offer snaps to the last that is; with
\* none on offer it stays, and a year is never withheld.
Offered(freq, y, today) ==
    IF freq = "QUARTERLY" THEN {q \in 1 .. 4 : Utc(y, q * 3, 1) <= today}
                          ELSE {m \in 1 .. 12 : Utc(y, m, 1) <= today}
Chosen(freq, y, choice, today) ==
    LET on == Offered(freq, y, today)
        k == IF on = {} \/ choice \in on THEN choice ELSE CHOOSE n \in on : \A o \in on : o <= n
    IN CASE freq = "QUARTERLY" -> Period(y, k, 0)
         [] freq = "MONTHLY"   -> Period(y, 0, k)
         [] freq = "ANNUAL"    -> Period(y, 0, 0)

ReadPick == Read("pick", [listed |-> EndedPeriods(input.freq, input.date),
    sent |-> Chosen(input.freq, input.year, input.choice, DayNumber(input.date))])
ReadDate   == Read("date", ParseFlexibleDate(input.written))
ReadPeriod == Read("period", [p |-> ParsePeriod(input.label),
    in |-> DateInPeriod(input.date, ParsePeriod(input.label)),
    ended |-> PeriodHasEnded(ParsePeriod(input.label), DayNumber(input.date))])

-----------------------------------------------------------------------------
\* nubanCheckDigit: twelve digits, the bank's code and the serial.

\* Mutant: weights that share a factor with the modulus.
EvenWeights == <<3, 7, 3, 3, 7, 3, 3, 7, 3, 3, 5, 3>>

Weights == <<3, 7, 3, 3, 7, 3, 3, 7, 3, 3, 7, 3>>

WeightedSum(seed) ==
    Weights[1] * seed[1] + Weights[2] * seed[2] + Weights[3] * seed[3] + Weights[4] * seed[4]
  + Weights[5] * seed[5] + Weights[6] * seed[6] + Weights[7] * seed[7] + Weights[8] * seed[8]
  + Weights[9] * seed[9] + Weights[10] * seed[10] + Weights[11] * seed[11] + Weights[12] * seed[12]
NubanCheckDigit(seed) == (10 - (WeightedSum(seed) % 10)) % 10

\* isValidNuban: bank is <<>> when its code is not known.
IsValidNuban(bank, account) ==
    Len(account) = 10 /\
        (Len(bank) = 3 => NubanCheckDigit(bank \o SubSeq(account, 1, 9)) = account[10])

ReadNumber == Read("number", IsValidNuban(input.bank, input.account))

-----------------------------------------------------------------------------
\* The columns of a return: what each must hold, and from when it is compulsory
\* (0: at once).  Accepts is what validateRow takes for a value that is there.
Column(name, kind, required, from) ==
    [name |-> name, kind |-> kind, required |-> required, from |-> from]
Accepts(kind) ==
    CASE kind = "money"   -> {"number"}
      [] kind = "digits"  -> {"right length"}
      [] kind = "account" -> {"nuban", "wrong check", "other length", "letters"}
      [] kind = "class"   -> {"known"}
      [] kind = "tax id"  -> {"number"}
      [] kind = "text"    -> {"text"}
ReturnColumns == {
    Column("nin", "digits", TRUE, 0),        Column("accountNumber", "account", TRUE, 0),
    Column("customerType", "class", TRUE, 0), Column("totalInflow", "money", TRUE, 0),
    Column("tin", "tax id", FALSE, 0)}

\* graceElapsed: the configuration's date goes before the column's own.
GraceElapsed(c, now, config) ==
    c.from = 0 \/ now >= (IF config # 0 THEN config ELSE c.from)

\* validateRow: the columns in error.
RowErrors(row, columns, now, config) == {c \in columns :
    IF row[c.name] = "blank" THEN c.required /\ GraceElapsed(c, now, config)
    ELSE row[c.name] \notin Accepts(c.kind)}
RowWarnings(row, columns, type, now, config) == {c \in columns :
    \/ row[c.name] = "blank" /\ c.required /\ ~ GraceElapsed(c, now, config)
    \/ c.kind = "account" /\ type = "BANK" /\ row[c.name] = "other length"}

\* validateIngestionRow: the account number of a bank or a fintech.
GateFails(row, type) ==
    type \in {"BANK", "FINTECH"} /\ row["accountNumber"] \notin {"blank", "nuban"}

\* processRows: one row in error rejects the file, and nothing is stored; else the
\* rows are gone through again, with the columns' own dates.

\* Mutant: the gate is left to the second pass.
ErrsBeforeGate(row, i) == RowErrors(row, i.columns, i.now, i.config) # {}

Errs(row, i) == RowErrors(row, i.columns, i.now, i.config) # {} \/ GateFails(row, i.type)
ErrsAgain(row, i) == RowErrors(row, i.columns, i.now, 0) # {} \/ GateFails(row, i.type)
ProcessRows(i) ==
    IF \E k \in DOMAIN i.rows : Errs(i.rows[k], i)
    THEN [status |-> "REJECTED", stored |-> {}, warned |-> {}]
    ELSE [status |-> "READ", stored |-> {k \in DOMAIN i.rows : ~ ErrsAgain(i.rows[k], i)},
          warned |-> {k \in DOMAIN i.rows :
                        RowWarnings(i.rows[k], i.columns, i.type, i.now, i.config) # {}}]

ReadRows == Read("rows", ProcessRows(input))

Next == ReadText \/ ReadSheet \/ ReadDate \/ ReadPeriod \/ ReadPick \/ ReadNumber \/ ReadRows
Spec == Init /\ [][Next]_vars

-----------------------------------------------------------------------------
Has(what) == input.what = what /\ result # <<>>

\* What was written is what is read: a row read from a text stands on the line its
\* number says, every line with something on it is the header, a row or a comment;
\* and a sheet of a workbook, written as CSV, is read back cell by cell, when no
\* cell breaks a line and no row starts like a comment.  (splitCsvLine and
\* parseCsvText split lines first and quotes after, 191; csvField quotes a line
\* break, spreadsheet-to-csv.ts 61.)
Plain(sheet) == \A i \in DOMAIN sheet, k \in DOMAIN sheet[1] :
    /\ Newline \notin {sheet[i][k][n] : n \in DOMAIN sheet[i][k]}
    /\ k = 1 /\ sheet[i][k] # <<>> => sheet[i][k][1] # "#"
WrittenIsRead ==
    /\ Has("text") => LET r == result[1] lines == LinesOf(input.text) IN
          /\ \A i \in DOMAIN r.rows : r.rows[i] = SplitCsvLine(Trim(lines[r.lineNumbers[i]]))
          /\ \A n \in DOMAIN lines :
                Trim(lines[n]) # <<>> /\ Trim(lines[n])[1] # "#" /\ r.rows # <<>>
                    => \/ n \in {r.lineNumbers[i] : i \in DOMAIN r.rows}
                       \/ \A m \in DOMAIN r.lineNumbers : n < r.lineNumbers[m]
                       \/ \A k \in DOMAIN SplitCsvLine(Trim(lines[n])) : SplitCsvLine(Trim(lines[n]))[k] = <<>>
    /\ Has("sheet") /\ Plain(input.sheet) =>
          LET cells == Inked(input.sheet) IN
          cells # <<>> => /\ result[1].headers = [k \in DOMAIN cells[1] |-> Trim(cells[1][k])]
                          /\ result[1].rows = [i \in 1 .. Len(cells) - 1 |->
                                [k \in DOMAIN cells[1] |-> Trim(cells[i + 1][k])]]

\* A date is read as the day that was written, in every form; and it lies in a
\* period exactly when the label of the period names its year, quarter or month,
\* so that no row is filed for two quarters, and a period that has ended takes no
\* date of today or later (parseFlexibleDate 236, periodStartDate 775, periodEndDate
\* 759, dateInPeriod 799).
DatesFallInTheirPeriod ==
    /\ Has("date") => result[1] = input.date
    /\ Has("period") => LET p == result[1].p y == input.date[1] m == input.date[2] IN
          /\ result[1].in <=> p.year = y /\ p.quarter \in {0, (m + 2) \div 3} /\ p.month \in {0, m}
          /\ ~ (result[1].in /\ result[1].ended)

\* What the pages offer is what the server takes ("Offer only ended periods so the
\* picker matches the server-side rule", SubmissionUploader.tsx 55, UploadAssistant
\* 16, against periodHasEnded): every period listed has ended, up to the one before
\* today's and without a gap, across year ends too; and the uploader sends an ended
\* one, unless the year has none yet or returns are annual (it offers this year).
PickersMatchTheServer == Has("pick") =>
    LET today  == DayNumber(input.date)
        listed == result[1].listed
        month  == input.date[2]
        now    == Period(input.date[1], IF input.freq = "QUARTERLY" THEN (month + 2) \div 3 ELSE 0,
                                        IF input.freq = "MONTHLY" THEN month ELSE 0)
    IN /\ \A i \in DOMAIN listed :
             /\ PeriodHasEnded(listed[i], today)
             /\ PeriodEnd(listed[i]) + 1 = PeriodStart(IF i = 1 THEN now ELSE listed[i - 1])
       /\ \/ PeriodHasEnded(result[1].sent, today)
          \/ input.freq = "ANNUAL" \/ Offered(input.freq, input.year, today) = {}

\* One wrong digit in an account number of a known bank does not pass
\* (nubanCheckDigit 68: the weights have no factor in common with 10).
DamageIsCaught == Has("number") =>
    (result[1] <=> input.damaged = 0)

\* A file that is not rejected is stored whole ("Past here, every row is
\* known-valid", submissions.service.ts 640), unless the configuration's date gives
\* a column more time than its own: the second pass does not know that date (660).
StoredWholeUnlessGraced == Has("rows") /\ result[1].status # "REJECTED" =>
    \/ result[1].stored = DOMAIN input.rows
    \/ \E c \in input.columns : c.from # 0 /\ c.from <= input.now /\ input.now < input.config

\* "A warning, never an error: ... such a row must still file"
\* (submission-parser.ts 38): a bank's row with an account of another length.
OddAccountStillFiles == Has("rows") =>
    \A k \in DOMAIN input.rows :
        RowErrors(input.rows[k], input.columns, input.now, input.config) = {}
        /\ RowWarnings(input.rows[k], input.columns, input.type, input.now, input.config) # {}
        /\ Len(input.rows) = 1 => result[1].status # "REJECTED"
=============================================================================
