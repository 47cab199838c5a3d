------------------------------ MODULE Reporters ------------------------------
(***************************************************************************)
(* The six reporters.  What one writes is a sequence of tokens: a tag or a *)
(* mark is one token, so is a string or a number; white space, styles and  *)
(* the wording between fields are left out.                                *)
(*                                                                         *)
(* A string that holds a character of the notation around it breaks off    *)
(* there: the rest of it is the token Broken, which no reader accepts.     *)
(***************************************************************************)
EXTENDS Violations

CONSTANTS
    Category,   \* Category[r] is r->category()
    Special,    \* Special[text]: which of "quote" and "angle" the text holds
    Inputs,     \* what runs end with: sets, errors, warnings, bugs, duplications
    Formats     \* the report types that are tried

ASSUME ReportersAssumption ==
    \A v \in Places : {"line", "col", "endLine", "endCol", "message"} = DOMAIN v

VARIABLES
    results,
    format,
    out         \* what the reporter wrote; <<>> before

vars == <<results, format, out>>

(***************************************************************************)
(* What a reporter can ask of the results.                                 *)
(***************************************************************************)
Seen(vs) == IF results.duplications THEN vs ELSE Unique(vs)
AllViolations == Seen(Concatenated(results.sets))
AllErrors == Seen(results.errors)
AllWarnings == Seen(results.warnings)
AllCheckerBugs == Seen(results.bugs)

MutFilesWithViolations == Cardinality({i \in DOMAIN results.sets : results.sets[i] # <<>>})

NumberOfFiles == Len(results.sets)
FilesWithViolations == NumberOfFilesWithViolations(results.sets)
OfPriority(p) == NumberWithPriority(AllViolations, p)

(***************************************************************************)
(* Tokens.                                                                 *)
(***************************************************************************)
Token(t, s, n) == [t |-> t, s |-> s, n |-> n]
Mark(c) == Token(c, "", 0)
Str(s) == Token("str", s, 0)
Num(n) == Token("num", "", n)
Broken == Mark("broken")
Open(name) == Token("open", name, 0)
Close(name) == Token("close", name, 0)
Line == Mark("line")

Guarded(s, breaks) == IF Special[s] \cap breaks = {} THEN <<Str(s)>> ELSE <<Str(s), Broken>>
Each(vs, Write(_)) == FlattenSeq([i \in DOMAIN vs |-> Write(vs[i])])
OfRule(v, fields) == IF v.rule = NoRule THEN <<>> ELSE fields

(***************************************************************************)
(* JSONReporter.                                                           *)
(***************************************************************************)
WriteKey(key) == <<Str(key), Mark(":")>>
WriteComma(last) == IF last THEN <<>> ELSE <<Mark(",")>>
WriteString(key, s, last) == WriteKey(key) \o Guarded(s, {"quote"}) \o WriteComma(last)
WriteInt(key, n, last) == WriteKey(key) \o <<Num(n)>> \o WriteComma(last)

MutJSONViolation(v) ==
    <<Mark("{")>> \o WriteString("path", v.path, FALSE)
    \o WriteInt("startLine", v.at.line, FALSE) \o WriteInt("startColumn", v.at.col, FALSE)
    \o OfRule(v, WriteString("rule", v.rule, FALSE) \o WriteString("category", Category[v.rule], FALSE)
                 \o WriteInt("priority", Priority[v.rule], FALSE))
    \o WriteString("message", v.at.message, v.rule # NoRule) \o <<Mark("}")>>

JSONViolation(v) ==
    <<Mark("{")>> \o WriteString("path", v.path, FALSE)
    \o WriteInt("startLine", v.at.line, FALSE) \o WriteInt("startColumn", v.at.col, FALSE)
    \o (IF v.at.endLine # 0 /\ v.at.endCol # 0
        THEN WriteInt("endLine", v.at.endLine, FALSE) \o WriteInt("endColumn", v.at.endCol, FALSE)
        ELSE <<>>)
    \o OfRule(v, WriteString("rule", v.rule, FALSE) \o WriteString("category", Category[v.rule], FALSE)
                 \o WriteInt("priority", Priority[v.rule], FALSE))
    \o WriteString("message", v.at.message, TRUE) \o <<Mark("}")>>

JSONList(key, vs) ==
    WriteKey(key) \o <<Mark("[")>>
    \o FlattenSeq([i \in DOMAIN vs |-> WriteComma(i = 1) \o JSONViolation(vs[i])])
    \o <<Mark("]")>>

WritePriority(p) ==
    <<Mark("{")>> \o WriteInt("priority", p, FALSE) \o WriteInt("number", OfPriority(p), TRUE) \o <<Mark("}")>>

JSONSummary ==
    WriteKey("summary") \o <<Mark("{")>>
    \o WriteInt("numberOfFiles", NumberOfFiles, FALSE)
    \o WriteInt("numberOfFilesWithViolations", FilesWithViolations, FALSE)
    \o WriteKey("numberOfViolationsWithPriority") \o <<Mark("[")>>
    \o WritePriority(1) \o <<Mark(",")>> \o WritePriority(2) \o <<Mark(",")>> \o WritePriority(3)
    \o <<Mark("]"), Mark("}"), Mark(",")>>

JSONReport ==
    <<Mark("{")>>
    \o WriteString("version", "version", FALSE) \o WriteString("url", "url", FALSE)
    \o WriteInt("timestamp", 0, FALSE)
    \o JSONSummary
    \o JSONList("violation", AllViolations) \o <<Mark(",")>>
    \o JSONList("clangStaticAnalyzer", AllCheckerBugs)
    \o <<Mark("}")>>

(***************************************************************************)
(* XMLReporter.                                                            *)
(***************************************************************************)
Attribute(key, s) == <<Token("attr", key, 0)>> \o Guarded(s, {"quote", "angle"})
IntAttribute(key, n) == <<Token("attr", key, 0), Num(n)>>
End == Mark(">")

XMLViolation(v) ==
    <<Open("violation")>> \o Attribute("path", v.path)
    \o IntAttribute("startline", v.at.line) \o IntAttribute("startcolumn", v.at.col)
    \o (IF v.at.endLine # 0 /\ v.at.endCol # 0
        THEN IntAttribute("endline", v.at.endLine) \o IntAttribute("endcolumn", v.at.endCol)
        ELSE <<>>)
    \o OfRule(v, Attribute("rule", v.rule) \o Attribute("category", Category[v.rule])
                 \o IntAttribute("priority", Priority[v.rule]))
    \o Attribute("message", v.at.message)
    \o <<End, Close("violation")>>

SummaryProperty(name, n) ==
    <<Open("property"), Token("attr", "name", 0), Str(name), End, Num(n), Close("property")>>

XMLSummary ==
    <<Open("summary"), End>>
    \o SummaryProperty("number of files", NumberOfFiles)
    \o SummaryProperty("files with violations", FilesWithViolations)
    \o SummaryProperty("P1", OfPriority(1)) \o SummaryProperty("P2", OfPriority(2))
    \o SummaryProperty("P3", OfPriority(3))
    \o <<Close("summary")>>

XMLReport ==
    <<Open("oclint")>> \o Attribute("version", "version") \o Attribute("url", "url") \o <<End>>
    \o <<Open("datetime"), End, Str("now"), Close("datetime")>>
    \o XMLSummary
    \o <<Open("violations"), End>> \o Each(AllViolations, XMLViolation) \o <<Close("violations")>>
    \o <<Open("clangstaticanalyzer"), End>> \o Each(AllCheckerBugs, XMLViolation) \o <<Close("clangstaticanalyzer")>>
    \o <<Close("oclint")>>

(***************************************************************************)
(* PMDReporter.  The messages of checker bugs are escaped, no other text.  *)
(***************************************************************************)
PMDPlace(v) ==
    <<Open("file")>> \o Attribute("name", v.path) \o <<End, Open("violation")>>
    \o IntAttribute("begincolumn", v.at.col) \o IntAttribute("endcolumn", v.at.endCol)
    \o IntAttribute("beginline", v.at.line) \o IntAttribute("endline", v.at.endLine)

PMDViolation(v) ==
    PMDPlace(v)
    \o OfRule(v, IntAttribute("priority", 2 * Priority[v.rule] - 1)
                 \o Attribute("rule", v.rule) \o Attribute("ruleset", Category[v.rule]))
    \o <<End>> \o Guarded(v.at.message, {"angle"}) \o <<Close("violation"), Close("file")>>

XmlEscape(s) == <<Str(s)>>
PMDCheckerBug(v) ==
    PMDPlace(v) \o IntAttribute("priority", 2)
    \o Attribute("rule", "clang static analyzer") \o Attribute("ruleset", "clang static analyzer")
    \o <<End>> \o XmlEscape(v.at.message) \o <<Close("violation"), Close("file")>>

PMDReport ==
    <<Open("pmd")>> \o Attribute("version", "version") \o <<End>>
    \o Each(AllViolations, PMDViolation) \o Each(AllCheckerBugs, PMDCheckerBug)
    \o <<Close("pmd")>>

(***************************************************************************)
(* HTMLReporter.                                                           *)
(***************************************************************************)
Element(name, content) == <<Open(name), End>> \o content \o <<Close(name)>>
Cell(content) == Element("td", content)
Text(s) == Guarded(s, {"angle"})
Location(v) == Cell(Text(v.path)) \o Cell(<<Num(v.at.line), Mark(":"), Num(v.at.col)>>)

HTMLViolation(v) ==
    Element("tr", Location(v) \o Cell(Text(v.rule)) \o Cell(Text(Category[v.rule]))
                  \o Cell(<<Num(Priority[v.rule])>>) \o Cell(Text(v.at.message)))

HTMLDiagnostic(v, kind) ==
    Element("tr", Location(v) \o Cell(Text(kind)) \o Cell(<<>>) \o Cell(Text(kind)) \o Cell(Text(v.at.message)))
HTMLError(v) == HTMLDiagnostic(v, "error")
HTMLWarning(v) == HTMLDiagnostic(v, "warning")
HTMLCheckerBug(v) == HTMLDiagnostic(v, "clang static analyzer")

HTMLTable(columns, rows) ==
    LET headings == FlattenSeq([i \in 1..columns |-> Element("th", <<>>)])
    IN Element("table", Element("thead", Element("tr", headings)) \o Element("tbody", rows))

Count(n) == Cell(<<Num(n)>>)
HTMLSummary ==
    HTMLTable(8, Element("tr", Count(NumberOfFiles) \o Count(FilesWithViolations)
        \o Count(OfPriority(1)) \o Count(OfPriority(2)) \o Count(OfPriority(3))
        \o Count(Len(AllErrors)) \o Count(Len(AllWarnings)) \o Count(Len(AllCheckerBugs))))

HTMLReport ==
    Element("html", Element("body", HTMLSummary
        \o HTMLTable(6, Each(AllViolations, HTMLViolation) \o Each(AllErrors, HTMLError)
                        \o Each(AllWarnings, HTMLWarning) \o Each(AllCheckerBugs, HTMLCheckerBug))))

(***************************************************************************)
(* TextReporter and XcodeReporter write lines; every violation has a rule. *)
(***************************************************************************)
TextDiagnostic(v) == <<Line, Str(v.path), Num(v.at.line), Num(v.at.col), Str(v.at.message)>>
TextViolation(v) ==
    <<Line, Str(v.path), Num(v.at.line), Num(v.at.col), Str(v.rule), Str(Category[v.rule]),
      Num(Priority[v.rule]), Str(v.at.message)>>

TextDiagnostics(header, vs) ==
    IF vs = <<>> THEN <<>> ELSE <<Line, Str(header)>> \o Each(vs, TextDiagnostic)

TextSummary == <<Line, Str("Summary"), Num(NumberOfFiles), Num(FilesWithViolations),
                 Num(OfPriority(1)), Num(OfPriority(2)), Num(OfPriority(3))>>

MutTextReport ==
    TextDiagnostics("Compiler Errors", AllErrors)
    \o (IF AllErrors = <<>> THEN TextDiagnostics("Compiler Warnings", AllWarnings) ELSE <<>>)
    \o TextDiagnostics("Clang Static Analyzer Results", AllCheckerBugs)
    \o TextSummary \o Each(AllViolations, TextViolation)

TextReport ==
    TextDiagnostics("Compiler Errors", AllErrors)
    \o TextDiagnostics("Compiler Warnings", AllWarnings)
    \o TextDiagnostics("Clang Static Analyzer Results", AllCheckerBugs)
    \o TextSummary \o Each(AllViolations, TextViolation)

XcodeReport == Each(AllViolations, TextViolation)

(***************************************************************************)
(* One report is written.                                                  *)
(***************************************************************************)
Init ==
    /\ results \in Inputs
    /\ format \in Formats
    /\ out = <<>>

Report ==
    /\ out = <<>>
    /\ out' = CASE format = "json" -> JSONReport
                [] format = "xml" -> XMLReport
                [] format = "pmd" -> PMDReport
                [] format = "html" -> HTMLReport
                [] format = "text" -> <<Mark("text")>> \o TextReport
                [] format = "xcode" -> <<Mark("text")>> \o XcodeReport
    /\ UNCHANGED <<results, format>>

Written == out # <<>>
Rest == Written /\ UNCHANGED vars

Next == Report \/ Rest

Spec == Init /\ [][Next]_vars

(***************************************************************************)
(* Readers of the notations, as their standards say.  A reader gives the   *)
(* tree it read and the tokens left; what it cannot read is Unreadable.    *)
(***************************************************************************)
Tree(k, s, n, kids) == [k |-> k, s |-> s, n |-> n, kids |-> kids]
Read(v, rest) == [ok |-> TRUE, v |-> v, rest |-> rest]
Unreadable == [ok |-> FALSE, v |-> Tree("none", "", 0, <<>>), rest |-> <<>>]
Atoms == {"str", "num"}
Starts(ts, kinds) == ts # <<>> /\ Head(ts).t \in kinds
Atom(t) == Tree(t.t, t.s, t.n, <<>>)

RECURSIVE ReadJSON(_), ReadItems(_, _, _)
ReadJSON(ts) ==
    IF Starts(ts, Atoms) THEN Read(Atom(Head(ts)), Tail(ts))
    ELSE IF Starts(ts, {"{", "["}) THEN
        LET close == IF Head(ts).t = "{" THEN "}" ELSE "]"
        IN IF Starts(Tail(ts), {close}) THEN Read(Tree(Head(ts).t, "", 0, <<>>), Tail(Tail(ts)))
           ELSE ReadItems(Tail(ts), close, Tree(Head(ts).t, "", 0, <<>>))
    ELSE Unreadable
ReadItems(ts, close, sofar) ==
    LET keyed == close = "}"
        hasKey == Len(ts) > 2 /\ ts[1].t = "str" /\ ts[2].t = ":"
        value == ReadJSON(IF keyed THEN Tail(Tail(ts)) ELSE ts)
        item == IF keyed THEN Tree("member", ts[1].s, 0, <<value.v>>) ELSE value.v
        grown == [sofar EXCEPT !.kids = Append(@, item)]
    IN IF (keyed /\ ~hasKey) \/ ~value.ok THEN Unreadable
       ELSE IF Starts(value.rest, {close}) THEN Read(grown, Tail(value.rest))
       ELSE IF Starts(value.rest, {","}) THEN ReadItems(Tail(value.rest), close, grown)
       ELSE Unreadable

RECURSIVE ReadElement(_), ReadAttributes(_, _), ReadContent(_, _)
ReadElement(ts) ==
    IF Starts(ts, {"open"}) THEN ReadAttributes(Tail(ts), Tree("element", Head(ts).s, 0, <<>>)) ELSE Unreadable
ReadAttributes(ts, sofar) ==
    IF Starts(ts, {">"}) THEN ReadContent(Tail(ts), sofar)
    ELSE IF Starts(ts, {"attr"}) /\ Starts(Tail(ts), Atoms) /\ Head(ts).s \notin {a.s : a \in ToSet(sofar.kids)}
    THEN ReadAttributes(Tail(Tail(ts)),
                        [sofar EXCEPT !.kids = Append(@, Tree("member", Head(ts).s, 0, <<Atom(ts[2])>>))])
    ELSE Unreadable
ReadContent(ts, sofar) ==
    LET child == ReadElement(ts)
    IN IF Starts(ts, {"close"}) THEN IF Head(ts).s = sofar.s THEN Read(sofar, Tail(ts)) ELSE Unreadable
       ELSE IF Starts(ts, Atoms \cup {":"})
            THEN ReadContent(Tail(ts), [sofar EXCEPT !.kids = Append(@, Atom(Head(ts)))])
       ELSE IF child.ok THEN ReadContent(child.rest, [sofar EXCEPT !.kids = Append(@, child.v)])
       ELSE Unreadable

(* The tokens of each line.                                                *)
Lines ==
    LET starts == {i \in DOMAIN out : out[i].t = "line"}
        line(i) == LET next == {j \in starts : j > i}
                   IN SubSeq(out, i + 1, IF next = {} THEN Len(out) ELSE Min(next) - 1)
    IN [k \in 1..Cardinality(starts) |-> line(CHOOSE i \in starts : Cardinality({j \in starts : j <= i}) = k)]

Document == IF format = "json" THEN ReadJSON(out) ELSE ReadElement(out)

Under(t, name) == LET found == {i \in DOMAIN t.kids : t.kids[i].s = name /\ t.kids[i].k \in {"member", "element"}}
                  IN t.kids[Min(found)]
Field(t, name, default) ==
    LET found == {i \in DOMAIN t.kids : t.kids[i].k = "member" /\ t.kids[i].s = name}
    IN IF found = {} THEN default ELSE t.kids[Min(found)].kids[1]
Mapped(ts, Op(_)) == [i \in DOMAIN ts |-> Op(ts[i])]

(***************************************************************************)
(* What a reader of the report learns, entry by entry.                     *)
(***************************************************************************)
Entry(path, line, col, endLine, endCol, rule, message) ==
    [path |-> path, line |-> line, col |-> col, endLine |-> endLine, endCol |-> endCol,
     rule |-> rule, message |-> message]
None == Tree("none", "", 0, <<>>)

FromFields(t, names) ==
    Entry(Field(t, "path", None).s, Field(t, names[1], None).n, Field(t, names[2], None).n,
          Field(t, names[3], None).n, Field(t, names[4], None).n,
          Field(t, "rule", None).s, Field(t, "message", None).s)
FromJSON(t) == FromFields(t, <<"startLine", "startColumn", "endLine", "endColumn">>)
FromXML(t) == FromFields(t, <<"startline", "startcolumn", "endline", "endcolumn">>)
FromPMD(file) ==
    LET t == Under(file, "violation")
    IN Entry(Field(file, "name", None).s, Field(t, "beginline", None).n, Field(t, "begincolumn", None).n,
             Field(t, "endline", None).n, Field(t, "endcolumn", None).n, Field(t, "rule", None).s, Last(t.kids).s)
FromRow(row) ==
    LET cell == row.kids
    IN Entry(cell[1].kids[1].s, cell[2].kids[1].n, cell[2].kids[3].n, 0, 0, cell[3].kids[1].s, cell[6].kids[1].s)
FromLine(line) == Entry(line[1].s, line[2].n, line[3].n, 0, 0, IF Len(line) = 7 THEN line[4].s ELSE "",
                        Last(line).s)

Elements(t) == SelectSeq(t.kids, LAMBDA kid : kid.k = "element")
Listed ==
    LET doc == Document.v
        rows == Under(Under(doc, "body").kids[2], "tbody").kids
    IN CASE format = "json" -> Mapped(Under(doc, "violation").kids[1].kids
                                            \o Under(doc, "clangStaticAnalyzer").kids[1].kids, FromJSON)
         [] format = "xml" -> Mapped(Under(doc, "violations").kids
                                           \o Under(doc, "clangstaticanalyzer").kids, FromXML)
         [] format = "pmd" -> Mapped(Elements(doc), FromPMD)
         [] format = "html" -> Mapped(rows, FromRow)
         [] OTHER -> Mapped(SelectSeq(Lines, LAMBDA line : Len(line) \in {4, 7}), FromLine)

(* What there is to tell: kind names the entries that have no rule.        *)
Told(vs, kind) ==
    [i \in DOMAIN vs |->
        LET v == vs[i]
            ends == CASE format = "pmd" -> <<v.at.endLine, v.at.endCol>>
                      [] format \in {"json", "xml"} /\ 0 \notin {v.at.endLine, v.at.endCol} ->
                            <<v.at.endLine, v.at.endCol>>
                      [] OTHER -> <<0, 0>>
        IN Entry(v.path, v.at.line, v.at.col, ends[1], ends[2],
                 IF v.rule = NoRule THEN kind ELSE v.rule, v.at.message)]
ToTell ==
    LET violations == Told(AllViolations, "")
        analyzer == "clang static analyzer"
    IN CASE format \in {"json", "xml"} -> violations \o Told(AllCheckerBugs, "")
         [] format = "pmd" -> violations \o Told(AllCheckerBugs, analyzer)
         [] format = "html" -> violations \o Told(AllErrors, "error") \o Told(AllWarnings, "warning")
                                   \o Told(AllCheckerBugs, analyzer)
         [] format = "text" -> Told(AllErrors \o AllWarnings \o AllCheckerBugs, "") \o violations
         [] format = "xcode" -> violations

(* The five numbers of a summary.                                          *)
SummaryRead ==
    LET doc == Document.v
        json == Under(doc, "summary").kids[1]
        number(i) == Under(json, "numberOfViolationsWithPriority").kids[1].kids[i]
        property(i) == Last(Under(doc, "summary").kids[i].kids).n
        row == Under(Under(doc, "body").kids[1], "tbody").kids[1].kids
        line == CHOOSE l \in ToSet(Lines) : l[1].s = "Summary"
    IN CASE format = "json" -> <<Field(json, "numberOfFiles", None).n,
                                 Field(json, "numberOfFilesWithViolations", None).n,
                                 Field(number(1), "number", None).n, Field(number(2), "number", None).n,
                                 Field(number(3), "number", None).n>>
         [] format = "xml" -> [i \in 1..5 |-> property(i)]
         [] format = "html" -> [i \in 1..5 |-> row[i].kids[1].n]
         [] format = "text" -> [i \in 1..5 |-> line[i + 1].n]

(***************************************************************************)
(* Properties, about the one report.                                       *)
(***************************************************************************)
(* A table row has a cell under every heading.                             *)
RowsFitHeadings ==
    Written /\ format = "html" =>
        \A i \in 1..2 :
            LET table == Under(Document.v, "body").kids[i]
            IN \A row \in ToSet(Under(table, "tbody").kids) :
                Len(row.kids) = Len(Under(table, "thead").kids[1].kids)

(* A report in JSON, XML or HTML is one document of that notation: every   *)
(* comma, bracket and tag is where it belongs, whatever fields and         *)
(* sections are left out, and a row of a table fits under its headings.     *)
ReportIsWellFormed ==
    /\ Written /\ format \in {"json", "xml", "pmd", "html"} => Document.ok /\ Document.rest = <<>>
    /\ RowsFitHeadings

(* Who reads the report back has every finding the format tells of, each   *)
(* once, in order, with its fields.                                        *)
ReportTellsEverything == Written => Listed = ToTell

(* The numbers above the list are those of the list below.  Files count by *)
(* the path of their first violation: the number is that of the paths      *)
(* listed where no unit has violations in two files.                       *)
SummaryMatchesList ==
    Written /\ format \in {"json", "xml", "html", "text"} =>
        LET listed == {i \in DOMAIN Listed : Listed[i].rule \in Rules}
            withPriority(p) == Cardinality({i \in listed : Priority[Listed[i].rule] = p})
            unmixed == \A i \in DOMAIN results.sets : \A v, w \in ToSet(results.sets[i]) : v.path = w.path
        IN /\ SummaryRead[1] = Len(results.sets)
           /\ \A p \in 1..3 : SummaryRead[2 + p] = withPriority(p)
           /\ unmixed => SummaryRead[2] = Cardinality({Listed[i].path : i \in listed})
=============================================================================
