--------------------------- MODULE FileTransfer ---------------------------
(***************************************************************************)
(* The sample applications over the socket layer: server.c accepts one    *)
(* connection at a time and answers each NVT line, a file name, with a     *)
(* response line "name,length,Ok" and the file, or "name,-1,message";     *)
(* client.c sends file names (one given with -f, or lines read from       *)
(* stdin), parses each response and stores the file in rcvd.              *)
(*                                                                         *)
(* Each connection is the byte stream mysock promises (AppByteStream): in *)
(* each direction the bytes written and not yet read, and whether the     *)
(* writer has closed.  myread(n) returns between 1 and n of the pending   *)
(* bytes (one dequeued node or part of it), blocks while none are pending  *)
(* and the stream is open, and returns 0 at the end.  mywrite() queues    *)
(* every byte and never fails on an open descriptor (mysock_api.c).        *)
(* Bytes are one-character strings, with "CR" and "LF" for \r and \n.      *)
(***************************************************************************)
EXTENDS Integers, Sequences, SequencesExt, FiniteSetsExt

CONSTANTS
    Clients,    \* client processes, each with its own connection
    FileArg,    \* FileArg[c]: the -f file name of client c, or NoFile
    Input,      \* Input[c]: the lines client c reads from stdin with fgets
    Files,      \* the server's readable files: name -> content
    NoFile,     \* filename == NULL (interactive client)
    NoClient,   \* the server holds no connection
    Uninit      \* the client's int length before its first sscanf

CR == "CR"
LF == "LF"
CRLF == <<CR, LF>>
\* isspace() on the bytes the model uses.
Space == {" ", CR, LF}
DigitChar == <<"0", "1", "2", "3", "4", "5", "6", "7", "8", "9">>
\* The two message texts of the -1 responses, one byte each (no comma).
NoAccessMsg == "ENOACCESS"
NoOpenMsg == "ENOOPEN"
\* sizeof(resp) in process_line and sizeof(line) in loop_until_end.
RespSize == 5000
ClientLineSize == 1000

MaxFileLen == Max({Len(Files[n]) : n \in DOMAIN Files})

ASSUME
    /\ \A c \in Clients : FileArg[c] # NoFile => FileArg[c] \in Seq(STRING)
    /\ \A c \in Clients : Input[c] \in Seq(Seq(STRING))

Min2(a, b) == IF a < b THEN a ELSE b

\* printf("%lu") of n >= 0: its decimal digits, most significant first.
RECURSIVE Decimal(_)

\* Fault-injected variant: the digits come out least significant first.
DecimalLowFirst(n) ==
    IF n < 10 THEN <<DigitChar[n + 1]>>
    ELSE <<DigitChar[(n % 10) + 1]>> \o Decimal(n \div 10)

Decimal(n) ==
    IF n < 10 THEN <<DigitChar[n + 1]>>
    ELSE Decimal(n \div 10) \o <<DigitChar[(n % 10) + 1]>>

\* The value of a digit character.
DigitVal(d) == CHOOSE i \in 0..9 : DigitChar[i + 1] = d

\* The count and value of the digits of s from index i on.
RECURSIVE LeadDigits(_, _, _, _)
LeadDigits(s, i, n, v) ==
    IF i <= Len(s) /\ s[i] \in ToSet(DigitChar)
       THEN LeadDigits(s, i + 1, n + 1, 10 * v + DigitVal(s[i]))
       ELSE <<n, v>>

\* sscanf("%d") from index i on, past white space: an optional sign, then
\* the longest run of digits.  Without a digit nothing is stored: the
\* result is old.
RECURSIVE ScanFrom(_, _, _)
ScanFrom(s, i, old) ==
    IF i <= Len(s) /\ s[i] \in Space THEN ScanFrom(s, i + 1, old)
    ELSE IF i <= Len(s) /\ s[i] \in {"-", "+"}
       THEN IF LeadDigits(s, i + 1, 0, 0)[1] = 0 THEN old
            ELSE (IF s[i] = "-" THEN -1 ELSE 1) * LeadDigits(s, i + 1, 0, 0)[2]
    ELSE IF LeadDigits(s, i, 0, 0)[1] = 0 THEN old
         ELSE LeadDigits(s, i, 0, 0)[2]

ScanInt(s, old) == ScanFrom(s, 1, old)

\* Index of the last comma of s (strrchr(s, ',')), 0 for none.
RECURSIVE LastCommaFrom(_, _)
LastCommaFrom(s, i) ==
    IF i = 0 \/ s[i] = "," THEN i ELSE LastCommaFrom(s, i - 1)

LastComma(s) == LastCommaFrom(s, Len(s))

\* The line up to its last comma, which strrchr() and '\0' cut off.
BeforeLastComma(s) == SubSeq(s, 1, LastComma(s) - 1)

\* A response with fewer than two commas is malformed (client.c:190-203).
Malformed(line) == LastComma(line) = 0 \/ LastComma(BeforeLastComma(line)) = 0

\* lenstr: the field between the last two commas of the response.
LenField(line) ==
    SubSeq(BeforeLastComma(line), LastComma(BeforeLastComma(line)) + 1,
           Len(BeforeLastComma(line)))

\* The length of s with its trailing white space removed (client.c:156).
RECURSIVE StripFrom(_, _)
StripFrom(s, i) == IF i > 0 /\ s[i] \in Space THEN StripFrom(s, i - 1) ELSE i

StripLen(s) == StripFrom(s, Len(s))

\* One step of get_nvt_line() with line read so far and byte b: TRUE when
\* b ends the line (the previous byte was \r and b is \n).
NvtLineEnd(line, b) == line # <<>> /\ Last(line) = CR /\ b = LF

\* The response lines of process_line().
ErrResponse(name, msg) == name \o <<",", "-", "1", ",", msg>> \o CRLF

OkResponse(name, n) == name \o <<",">> \o Decimal(n) \o <<",", "O", "k">> \o CRLF

VARIABLES
    c2s, c2sEnd,   \* per client: bytes client -> server not yet read; closed
    s2c, s2cEnd,   \* per client: bytes server -> client not yet read; closed
    pending,       \* connected clients not yet returned by myaccept()
    sPc,           \* server: where its single thread is
    sCli,          \* server: the client of the connection in do_connection
    sLine,         \* server: the line buffer of get_nvt_line
    sFile,         \* server: the open file in process_line
    sOff,          \* server: the file offset
    cPc,           \* client: where its thread is
    cIn,           \* client: index of the next stdin line
    cReq,          \* client: the file name of its last request
    cLine,         \* client: the line buffer of get_nvt_line
    cLength,       \* client: length, the bytes still expected
    rcvd           \* client: the contents of its file rcvd

streamVars == <<c2s, c2sEnd, s2c, s2cEnd, pending>>
serverVars == <<sPc, sCli, sLine, sFile, sOff>>
clientVars == <<cPc, cIn, cReq, cLine, cLength, rcvd>>
vars == <<streamVars, serverVars, clientVars>>

SPcs == {"accept", "readLine", "process", "sendFile", "close"}
CPcs == {"connect", "input", "readLine", "parse", "readFile", "close",
         "done", "exited"}

Init ==
    /\ c2s = [c \in Clients |-> <<>>]
    /\ c2sEnd = [c \in Clients |-> FALSE]
    /\ s2c = [c \in Clients |-> <<>>]
    /\ s2cEnd = [c \in Clients |-> FALSE]
    /\ pending = <<>>
    /\ sPc = "accept"
    /\ sCli = NoClient
    /\ sLine = <<>>
    /\ sFile = NoFile
    /\ sOff = 0
    /\ cPc = [c \in Clients |-> "connect"]
    /\ cIn = [c \in Clients |-> 1]
    /\ cReq = [c \in Clients |-> <<>>]
    /\ cLine = [c \in Clients |-> <<>>]
    /\ cLength = [c \in Clients |-> Uninit]
    /\ rcvd = [c \in Clients |-> <<>>]

-----------------------------------------------------------------------------
(* server.c: main's accept loop, do_connection, get_nvt_line, process_line *)

\* myaccept() returns the next connection; do_connection starts a line.
ServerAccept ==
    /\ sPc = "accept"
    /\ pending # <<>>
    /\ sCli' = Head(pending)
    /\ pending' = Tail(pending)
    /\ sPc' = "readLine"
    /\ sLine' = <<>>
    /\ UNCHANGED <<c2s, c2sEnd, s2c, s2cEnd, sFile, sOff, clientVars>>

\* get_nvt_line: myread() of one byte; \r\n ends the line without them.
ServerReadByte ==
    /\ sPc = "readLine"
    /\ c2s[sCli] # <<>>
    /\ LET b == Head(c2s[sCli])
       IN  IF NvtLineEnd(sLine, b)
              THEN sLine' = Front(sLine) /\ sPc' = "process"
              ELSE sLine' = Append(sLine, b) /\ UNCHANGED sPc
    /\ c2s' = [c2s EXCEPT ![sCli] = Tail(@)]
    /\ UNCHANGED <<c2sEnd, s2c, s2cEnd, pending, sCli, sFile, sOff, clientVars>>

\* get_nvt_line: myread() returns 0; the line is what was read so far.
ServerReadEof ==
    /\ sPc = "readLine"
    /\ c2s[sCli] = <<>>
    /\ c2sEnd[sCli]
    /\ sPc' = "process"
    /\ UNCHANGED <<streamVars, sCli, sLine, sFile, sOff, clientVars>>

\* Fault-injected variant: an empty line does not end the connection.
ServerLineEmptyContinue ==
    /\ sPc = "process"
    /\ sLine = <<>>
    /\ sPc' = "readLine"
    /\ UNCHANGED <<streamVars, sCli, sLine, sFile, sOff, clientVars>>

\* do_connection: an empty line ends the connection (goto done).
ServerLineEmpty ==
    /\ sPc = "process"
    /\ sLine = <<>>
    /\ sPc' = "close"
    /\ UNCHANGED <<streamVars, sCli, sLine, sFile, sOff, clientVars>>

\* process_line up to the response: access(), open(), lseek(), mywrite().
\* open() of a readable file can still fail (EMFILE, a permission race).
ProcessLine ==
    /\ sPc = "process"
    /\ sLine # <<>>
    /\ LET Respond(r) == s2c' = [s2c EXCEPT ![sCli] = @ \o r]
       IN  \/ /\ sLine \notin DOMAIN Files
              /\ Respond(ErrResponse(sLine, NoAccessMsg))
              /\ sPc' = "readLine"
              /\ UNCHANGED sFile
           \/ /\ sLine \in DOMAIN Files
              /\ Respond(ErrResponse(sLine, NoOpenMsg))
              /\ sPc' = "readLine"
              /\ UNCHANGED sFile
           \/ /\ sLine \in DOMAIN Files
              /\ Respond(OkResponse(sLine, Len(Files[sLine])))
              /\ sPc' = "sendFile"
              /\ sFile' = sLine
    /\ sLine' = <<>>
    /\ sOff' = 0
    /\ UNCHANGED <<c2s, c2sEnd, s2cEnd, pending, sCli, clientVars>>

\* process_line's loop: read() of up to sizeof(resp) bytes, then mywrite();
\* 0 ends the file, -1 (EIO, a directory) fails the request.
SendFile ==
    /\ sPc = "sendFile"
    /\ LET f == Files[sFile]
       IN  \/ /\ sOff < Len(f)
              /\ LET chunk == SubSeq(f, sOff + 1, Min2(sOff + RespSize, Len(f)))
                 IN  /\ s2c' = [s2c EXCEPT ![sCli] = @ \o chunk]
                     /\ sOff' = sOff + Len(chunk)
              /\ UNCHANGED <<sPc, sFile>>
           \/ /\ sOff = Len(f)
              /\ sPc' = "readLine"
              /\ sFile' = NoFile
              /\ UNCHANGED <<s2c, sOff>>
           \/ /\ sPc' = "close"
              /\ sFile' = NoFile
              /\ UNCHANGED <<s2c, sOff>>
    /\ UNCHANGED <<c2s, c2sEnd, s2cEnd, pending, sCli, sLine, clientVars>>

\* done: myclose(sd) ends the connection; back to myaccept().
ServerClose ==
    /\ sPc = "close"
    /\ s2cEnd' = [s2cEnd EXCEPT ![sCli] = TRUE]
    /\ sPc' = "accept"
    /\ sCli' = NoClient
    /\ UNCHANGED <<c2s, c2sEnd, s2c, pending, sLine, sFile, sOff, clientVars>>

ServerNext ==
    \/ ServerAccept \/ ServerReadByte \/ ServerReadEof \/ ServerLineEmpty
    \/ ProcessLine \/ SendFile \/ ServerClose

-----------------------------------------------------------------------------
(* client.c: main (myconnect, myclose), loop_until_end, get_nvt_line       *)

\* myconnect() returns once the handshake is done; the connection waits in
\* the listener's completed queue for myaccept().
ClientConnect(c) ==
    /\ cPc[c] = "connect"
    /\ pending' = Append(pending, c)
    /\ cPc' = [cPc EXCEPT ![c] = "input"]
    /\ UNCHANGED <<c2s, c2sEnd, s2c, s2cEnd, serverVars, cIn, cReq, cLine,
                   cLength, rcvd>>

\* The request: name, \r\n in one mywrite(), then get_nvt_line.
SendRequest(c, name) ==
    /\ c2s' = [c2s EXCEPT ![c] = @ \o name \o CRLF]
    /\ cReq' = [cReq EXCEPT ![c] = name]
    /\ cLine' = [cLine EXCEPT ![c] = <<>>]
    /\ cPc' = [cPc EXCEPT ![c] = "readLine"]

\* The top of loop_until_end's loop: the -f name, or the next stdin line
\* with trailing white space removed; fgets() at end of input breaks, and
\* a line that strips to one character or none is skipped (pline <= line).
ClientRequest(c) ==
    /\ cPc[c] = "input"
    /\ \/ /\ FileArg[c] # NoFile
          /\ SendRequest(c, FileArg[c])
          /\ UNCHANGED cIn
       \/ /\ FileArg[c] = NoFile
          /\ cIn[c] > Len(Input[c])
          /\ cPc' = [cPc EXCEPT ![c] = "close"]
          /\ UNCHANGED <<c2s, cIn, cReq, cLine>>
       \/ /\ FileArg[c] = NoFile
          /\ cIn[c] <= Len(Input[c])
          /\ LET line == Input[c][cIn[c]]
             IN  IF StripLen(line) <= 1
                    THEN UNCHANGED <<c2s, cPc, cReq, cLine>>
                    ELSE SendRequest(c, SubSeq(line, 1, StripLen(line)))
          /\ cIn' = [cIn EXCEPT ![c] = @ + 1]
    /\ UNCHANGED <<c2sEnd, s2c, s2cEnd, pending, serverVars, cLength, rcvd>>

\* get_nvt_line: myread() of one byte, or 0 at the end of the stream.
ClientReadLine(c) ==
    /\ cPc[c] = "readLine"
    /\ \/ /\ s2c[c] # <<>>
          /\ LET b == Head(s2c[c])
             IN  IF NvtLineEnd(cLine[c], b)
                    THEN /\ cLine' = [cLine EXCEPT ![c] = Front(@)]
                         /\ cPc' = [cPc EXCEPT ![c] = "parse"]
                    ELSE /\ cLine' = [cLine EXCEPT ![c] = Append(@, b)]
                         /\ UNCHANGED cPc
          /\ s2c' = [s2c EXCEPT ![c] = Tail(@)]
       \/ /\ s2c[c] = <<>>
          /\ s2cEnd[c]
          /\ cPc' = [cPc EXCEPT ![c] = "parse"]
          /\ UNCHANGED <<s2c, cLine>>
    /\ UNCHANGED <<c2s, c2sEnd, s2cEnd, pending, serverVars, cIn, cReq,
                   cLength, rcvd>>

\* The response: strrchr() for the last comma, then for the one before
\* it, sscanf() of the field between; -1 is an error (the interactive
\* client asks again, -f gives up); otherwise fopen("rcvd", "w"), which
\* truncates the file and can fail.
ClientParse(c) ==
    /\ cPc[c] = "parse"
    /\ LET length == ScanInt(LenField(cLine[c]), cLength[c])
       IN  \/ /\ Malformed(cLine[c])
              /\ cPc' = [cPc EXCEPT ![c] = "close"]
              /\ UNCHANGED <<cLength, rcvd>>
           \/ /\ ~Malformed(cLine[c])
              /\ cLength' = [cLength EXCEPT ![c] = length]
              /\ \/ /\ length = -1
                    /\ cPc' = [cPc EXCEPT ![c] =
                                  IF FileArg[c] = NoFile THEN "input" ELSE "close"]
                    /\ UNCHANGED rcvd
                 \/ /\ length # -1
                    /\ cPc' = [cPc EXCEPT ![c] = "readFile"]
                    /\ rcvd' = [rcvd EXCEPT ![c] = <<>>]
                 \/ /\ length # -1
                    /\ cPc' = [cPc EXCEPT ![c] = "close"]
                    /\ UNCHANGED rcvd
    /\ UNCHANGED <<streamVars, serverVars, cIn, cReq, cLine>>

\* Fault-injected variant: length is decreased by to_read before it is cut
\* down to what myread() returned.
ClientReadFileToRead(c) ==
    /\ cPc[c] = "readFile"
    /\ cLength[c] # 0
    /\ \E got \in 1..Min2(Min2(cLength[c], ClientLineSize), Len(s2c[c])) :
          /\ rcvd' = [rcvd EXCEPT ![c] = @ \o SubSeq(s2c[c], 1, got)]
          /\ s2c' = [s2c EXCEPT ![c] = SubSeq(@, got + 1, Len(@))]
          /\ cLength' = [cLength EXCEPT ![c] = @ - Min2(@, ClientLineSize)]
    /\ UNCHANGED <<c2s, c2sEnd, s2cEnd, pending, serverVars, cPc, cIn, cReq,
                   cLine>>

\* Fault-injected variant: length is decreased by sizeof(line).
ClientReadFileSizeof(c) ==
    /\ cPc[c] = "readFile"
    /\ cLength[c] # 0
    /\ \E got \in 1..Min2(Min2(cLength[c], ClientLineSize), Len(s2c[c])) :
          /\ rcvd' = [rcvd EXCEPT ![c] = @ \o SubSeq(s2c[c], 1, got)]
          /\ s2c' = [s2c EXCEPT ![c] = SubSeq(@, got + 1, Len(@))]
          /\ cLength' = [cLength EXCEPT ![c] = @ - ClientLineSize]
    /\ UNCHANGED <<c2s, c2sEnd, s2cEnd, pending, serverVars, cPc, cIn, cReq,
                   cLine>>

\* The while (length) loop: myread() of MIN(length, sizeof line) bytes,
\* the got bytes written to rcvd; 0 (the server closed) leaves the loop
\* with length > 0: fclose(), myclose() and exit(-1).
ClientReadFile(c) ==
    /\ cPc[c] = "readFile"
    /\ cLength[c] # 0
    /\ \/ \E got \in 1..Min2(Min2(cLength[c], ClientLineSize), Len(s2c[c])) :
             /\ rcvd' = [rcvd EXCEPT ![c] = @ \o SubSeq(s2c[c], 1, got)]
             /\ s2c' = [s2c EXCEPT ![c] = SubSeq(@, got + 1, Len(@))]
             /\ cLength' = [cLength EXCEPT ![c] = @ - got]
             /\ UNCHANGED <<c2sEnd, cPc>>
       \/ /\ s2c[c] = <<>>
          /\ s2cEnd[c]
          /\ c2sEnd' = [c2sEnd EXCEPT ![c] = TRUE]
          /\ cPc' = [cPc EXCEPT ![c] = "exited"]
          /\ UNCHANGED <<s2c, cLength, rcvd>>
    /\ UNCHANGED <<c2s, s2cEnd, pending, serverVars, cIn, cReq, cLine>>

\* length reached 0: fclose(); -f breaks, the interactive client loops.
ClientFileDone(c) ==
    /\ cPc[c] = "readFile"
    /\ cLength[c] = 0
    /\ cPc' = [cPc EXCEPT ![c] = IF FileArg[c] = NoFile THEN "input" ELSE "close"]
    /\ UNCHANGED <<streamVars, serverVars, cIn, cReq, cLine, cLength, rcvd>>

\* main: myclose(sd) after loop_until_end returns.
ClientClose(c) ==
    /\ cPc[c] = "close"
    /\ c2sEnd' = [c2sEnd EXCEPT ![c] = TRUE]
    /\ cPc' = [cPc EXCEPT ![c] = "done"]
    /\ UNCHANGED <<c2s, s2c, s2cEnd, pending, serverVars, cIn, cReq, cLine,
                   cLength, rcvd>>

ClientNext(c) ==
    \/ ClientConnect(c) \/ ClientRequest(c) \/ ClientReadLine(c)
    \/ ClientParse(c) \/ ClientReadFile(c) \/ ClientFileDone(c)
    \/ ClientClose(c)

\* Every client has ended and the server waits in myaccept() for good.
ServerIdle ==
    /\ \A c \in Clients : cPc[c] \in {"done", "exited"}
    /\ sPc = "accept"
    /\ pending = <<>>
    /\ UNCHANGED vars

Next == ServerNext \/ (\E c \in Clients : ClientNext(c)) \/ ServerIdle

\* Each program is one thread that runs whenever it is not blocked.
Fairness ==
    /\ WF_vars(ServerNext)
    /\ \A c \in Clients : WF_vars(ClientNext(c))

Spec == Init /\ [][Next]_vars /\ Fairness

-----------------------------------------------------------------------------
TypeOK ==
    /\ sPc \in SPcs
    /\ sCli \in Clients \cup {NoClient}
    /\ pending \in Seq(Clients)
    /\ cPc \in [Clients -> CPcs]
    /\ cLength \in [Clients -> {Uninit} \cup (-1..MaxFileLen)]
    /\ \A c \in Clients : Len(rcvd[c]) <= MaxFileLen

\* While the client copies a file into rcvd, what it has stored is the start
\* of the file it asked for, and length counts exactly the bytes still to
\* come: the server's "%lu" length, the client's strrchr/sscanf parse and
\* the short myread() accounting of loop_until_end agree.
FileReceivedIntact ==
    \A c \in Clients :
        cPc[c] = "readFile" =>
            /\ cReq[c] \in DOMAIN Files
            /\ IsPrefix(rcvd[c], Files[cReq[c]])
            /\ Len(rcvd[c]) + cLength[c] = Len(Files[cReq[c]])

\* When a client is about to send a request, nothing of an earlier exchange
\* is left over: the server has read all its request bytes and holds no
\* partial line of it, and the client has read every response and file
\* byte the server wrote.  A miscounted length leaves bytes that the next
\* get_nvt_line would take for the next response.
RequestsInSync ==
    \A c \in Clients :
        cPc[c] = "input" =>
            /\ s2c[c] = <<>>
            /\ c2s[c] = <<>>
            /\ sCli = c => sLine = <<>>

\* Every client ends, and the server has closed its connection: the single
\* threaded server, serving connections one after another, gets to each
\* client that connected and ends its connection.
ServedToTheEnd ==
    \A c \in Clients : <>(cPc[c] \in {"done", "exited"} /\ s2cEnd[c])

=============================================================================
