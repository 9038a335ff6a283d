------------------------------ MODULE DbcFile ------------------------------
(***************************************************************************)
(* dbc/parser.go: Parse reads a database line by line.  A BO_ line starts a *)
(* message, the SG_ lines that follow are its signals, a VAL_ line names the *)
(* values of a signal of any message read so far.  The text of a line is    *)
(* abstracted to what it says and whether it says it properly.              *)
(* Definitions named Fault... are seeded bugs.                              *)
(***************************************************************************)
EXTENDS Naturals, Sequences

CONSTANT Considered(_)  \* bound: the files read

VARIABLES
    file,       \* the lines Parse has read
    state       \* its database, curMsg (by its ID, if any), and whether it has returned an error

\* The lines of a file.  proper: the parser can read what stands after the keyword (of
\* a VAL_ line, the message and the signal); pairs: a VAL_ line's values and labels, and
\* whether they are readable.  Byte order, sign, scaling and unit of a signal, the name
\* and sender of a message are carried along and left out.
BO(id, dlc, proper) == [keyword |-> "BO_", id |-> id, dlc |-> dlc, proper |-> proper]
SG(name, start, length, proper) ==
    [keyword |-> "SG_", name |-> name, start |-> start, length |-> length, proper |-> proper]
VAL(id, name, pairs, proper, readable) ==
    [keyword |-> "VAL_", id |-> id, name |-> name, pairs |-> pairs,
     proper |-> proper, readable |-> readable]
Empty == [keyword |-> "empty"]      \* or a comment
Other == [keyword |-> "other"]

Keywords == {"BO_", "SG_", "VAL_", "empty", "other"}

NoMessage == <<>>
\* An empty map; the map f with v put at key k; with all that g has.
Nothing == [k \in {} |-> k]
Put(f, k, v) == [x \in {k} \cup DOMAIN f |-> IF x = k THEN v ELSE f[x]]
PutAll(f, g) == [x \in DOMAIN g \cup DOMAIN f |-> IF x \in DOMAIN g THEN g[x] ELSE f[x]]

\* A signal lies within the bits of a CAN FD payload, but for its end.
Sound(line) == line.proper /\ line.length \in 1 .. 64 /\ line.start \in 0 .. 511

ParseInit == file = <<>> /\ state = [db |-> Nothing, cur |-> NoMessage, failed |-> FALSE]
Fail == [state EXCEPT !.failed = TRUE]

\* A message replaces one with its ID, signals and all.
ReadBO(line) ==
    IF ~line.proper THEN Fail
    ELSE [state EXCEPT !.db = Put(@, line.id, [dlc |-> line.dlc, signals |-> Nothing]),
                       !.cur = <<line.id>>]

\* An SG_ line outside a message is not looked at.
ReadSG(line) ==
    IF state.cur = NoMessage THEN state
    ELSE IF ~Sound(line) THEN Fail
    ELSE [state EXCEPT !.db[state.cur[1]].signals =
            Put(@, line.name, [start |-> line.start, length |-> line.length, labels |-> Nothing])]

\* Nor are the pairs of a VAL_ line for a message or a signal nobody knows.
FaultStillOpen == state
Left == [state EXCEPT !.cur = NoMessage]
ReadVAL(line) ==
    LET known == /\ line.id \in DOMAIN state.db
                 /\ line.name \in DOMAIN state.db[line.id].signals
    IN  IF ~line.proper \/ (known /\ ~line.readable) THEN Fail
        ELSE IF ~known THEN Left
        ELSE [Left EXCEPT !.db[line.id].signals[line.name].labels = PutAll(@, line.pairs)]

\* One turn of Parse's loop; an error ends it.
ReadLine(line) ==
    /\ ~state.failed /\ Considered(Append(file, line))
    /\ file' = Append(file, line)
    /\ state' = CASE line.keyword = "BO_" -> ReadBO(line)
                  [] line.keyword = "SG_" -> ReadSG(line)
                  [] line.keyword = "VAL_" -> ReadVAL(line)
                  [] line.keyword = "other" -> Left
                  [] OTHER -> state

\* The database, if the file ends here, or that there is an error and none.
NoDatabase == "NoDatabase"
Database == IF state.failed THEN NoDatabase ELSE state.db

-----------------------------------------------------------------------------
(* What a database file means, said of its lines and not of a way to read it *)

LinesOf(lines, keyword) == {i \in DOMAIN lines : lines[i].keyword = keyword}

\* The BO_ line that line i belongs to; 0 if there is none.
Heads(lines, i) ==
    {h \in LinesOf(lines, "BO_") :
        h < i /\ \A j \in h + 1 .. i - 1 : lines[j].keyword \in {"SG_", "empty"}}
HeadOf(lines, i) == IF Heads(lines, i) = {} THEN 0 ELSE CHOOSE h \in Heads(lines, i) : TRUE

Latest(S) == CHOOSE i \in S : \A j \in S : j <= i

\* The definition of message id as of line n, and of its signal by name; 0 if none.
BodyAsOf(lines, n, id) ==
    LET bos == {h \in LinesOf(lines, "BO_") : h <= n /\ lines[h].id = id}
    IN  IF bos = {} THEN 0 ELSE Latest(bos)
SignalLines(lines, n, id, name) ==
    {i \in LinesOf(lines, "SG_") :
        /\ i <= n /\ lines[i].name = name
        /\ BodyAsOf(lines, n, id) # 0 /\ HeadOf(lines, i) = BodyAsOf(lines, n, id)}

\* A line that has to be understood and cannot be.
Wrong(lines, i) ==
    LET line == lines[i]
    IN  \/ line.keyword = "BO_" /\ ~line.proper
        \/ /\ line.keyword = "SG_" /\ HeadOf(lines, i) # 0
           /\ ~line.proper \/ line.length \notin 1 .. 64 \/ line.start \notin 0 .. 511
        \/ /\ line.keyword = "VAL_"
           /\ ~line.proper \/ (~line.readable /\ SignalLines(lines, i, line.id, line.name) # {})

\* The label of a value is the one the last VAL_ line since the definition gives it.
Since(lines, id, name) ==
    {v \in LinesOf(lines, "VAL_") :
        /\ lines[v].id = id /\ lines[v].name = name
        /\ \E i \in SignalLines(lines, Len(lines), id, name) : i < v}
Labels(lines, id, name) ==
    LET since == Since(lines, id, name)
    IN  [raw \in UNION {DOMAIN lines[v].pairs : v \in since} |->
            lines[Latest({v \in since : raw \in DOMAIN lines[v].pairs})].pairs[raw]]

SignalMeant(lines, id, name) ==
    LET line == lines[Latest(SignalLines(lines, Len(lines), id, name))]
    IN  [start |-> line.start, length |-> line.length, labels |-> Labels(lines, id, name)]
SignalNames(lines, id) ==
    {name \in {lines[i].name : i \in LinesOf(lines, "SG_")} :
        SignalLines(lines, Len(lines), id, name) # {}}
MessageMeant(lines, id) ==
    [dlc |-> lines[BodyAsOf(lines, Len(lines), id)].dlc,
     signals |-> [name \in SignalNames(lines, id) |-> SignalMeant(lines, id, name)]]

Meaning(lines) ==
    IF \E i \in DOMAIN lines : Wrong(lines, i) THEN NoDatabase
    ELSE [id \in {lines[h].id : h \in LinesOf(lines, "BO_")} |-> MessageMeant(lines, id)]
=============================================================================
