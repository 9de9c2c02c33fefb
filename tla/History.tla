------------------------------- MODULE History -------------------------------
(***************************************************************************)
(* history.jsonl (history.rs): entries that several processes append, one  *)
(* line each, while another may remove the file.                           *)
(*                                                                         *)
(* The file is opened to append and is not buffered; writeln! writes the   *)
(* text and then the end of the line.  An entry is [by, url, status]; what *)
(* the file holds is a sequence of entries and ends of line.               *)
(***************************************************************************)
EXTENDS Integers, Sequences, FiniteSets

CONSTANTS
    Others,      \* other processes of the program
    Self,        \* this one
    EndOfLine,
    OthersEntry  \* what another process logs

Entries(w) == [by : {w}, url : Nat, status : {"completed", "failed"}]

ASSUME HistoryConstants ==
    /\ Self \notin Others
    /\ OthersEntry # EndOfLine /\ OthersEntry.by # Self
    /\ EndOfLine \notin Entries(Self)

Writers == Others \union {Self}

VARIABLES
    file,       \* what history.jsonl holds
    pen,        \* [Writers -> idle; text: between its text and the end of line;
                \*             lost: the same, in a file that was removed]
    disturbed   \* two saves overlapped, one was cut short, or the file was removed

histVars == <<file, pen, disturbed>>

HistoryIdle ==
    /\ file = <<>>
    /\ pen = [w \in Writers |-> "idle"]
    /\ disturbed = FALSE

\* load: the lines of one entry; one with two texts in it does not parse.
Lines ==
    {i \in DOMAIN file :
        /\ file[i] # EndOfLine
        /\ i = 1 \/ file[i - 1] = EndOfLine
        /\ i = Len(file) \/ file[i + 1] = EndOfLine}

Rank(S, i) == Cardinality({j \in S : j <= i})

\* What is at the places S, in their order.
Pick(S) == [k \in 1 .. Cardinality(S) |-> file[CHOOSE i \in S : Rank(S, i) = k]]

LoadOf(w) == Pick({i \in Lines : file[i].by = w})

\* save, up to the text of the entry.
WriteText(w, entry) ==
    /\ pen[w] = "idle"
    /\ file' = Append(file, entry)
    /\ pen' = [pen EXCEPT ![w] = "text"]
    /\ disturbed' = (disturbed \/ \E v \in Writers : pen[v] = "text")

WriteEnd(w) ==
    /\ pen[w] # "idle"
    /\ file' = IF pen[w] = "text" THEN Append(file, EndOfLine) ELSE file
    /\ pen' = [pen EXCEPT ![w] = "idle"]
    /\ UNCHANGED disturbed

\* The process dies in a save, or the write fails, with the text in the file and
\* no end of line.
Dies(w) ==
    /\ pen[w] = "text"
    /\ pen' = [pen EXCEPT ![w] = "idle"]
    /\ disturbed' = TRUE
    /\ UNCHANGED file

\* clear: the file is removed; a handle to it goes on writing to nothing.
Clear ==
    /\ file # <<>>
    /\ file' = <<>>
    /\ pen' = [w \in Writers |-> IF pen[w] = "text" THEN "lost" ELSE pen[w]]
    /\ disturbed' = TRUE

OthersStep ==
    \/ \E w \in Others :
        \/ WriteText(w, OthersEntry)
        \/ WriteEnd(w)
        \/ Dies(w)
    \/ Clear
=============================================================================
