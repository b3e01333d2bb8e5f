---------------------------- MODULE MCKadenaApp -----------------------------
(***************************************************************************)
(* Instances of KadenaApp.  Cells: 0 to 3 are path components, counts and  *)
(* lengths, 5 is content the review can bound, 6 content that needs blind  *)
(* signing, 8 and 9 are the path prefix.  Anything else in a message is    *)
(* refused by the parser.                                                  *)
(***************************************************************************)
EXTENDS KadenaApp

Cells(s) == {s[i] : i \in DOMAIN s}

MCVerdict(json, path, exp) ==
  IF Cells(json) \subseteq {5, 10, 11, 12} THEN "clear"
  ELSE IF Cells(json) \subseteq {5, 6, 10, 11, 12} THEN "blind"
  ELSE "error"

\* The template names the key (by the path's last component), then the body.
MCBuild(body, path) ==
  IF Len(body) <= TEMPLATE_AT /\ Cells(body) \subseteq {5, 6}
    THEN <<10 + path[PATH_WORDS]>> \o body ELSE Nil

\* What the hosts of one behaviour send.  A field of 7 cells is longer than the
\* buffer: it is a path, or refused.
VARIABLE host  \* of Hosts

MCvars == <<vars, host>>

\* 0x22 and 0x24: two good paths, one that is good for 0x02 only, and contents,
\* of which two fit the buffer and one fits below the template.
ModernHost ==
  [ commands |-> {"SIGN", "SIGN_TRANSFER"},
    fields |-> {<<8, 9, 1, 0, 0, 0, 0>>, <<8, 9, 2, 0, 0, 0, 0>>, <<3, 8, 9, 2>>,
                <<5, 5, 5>>, <<6, 6, 6>>},
    pieces |-> {} ]

\* 0x03 and 0x04, whole and in slices of LEGACY_CHUNK_SIZE = 4: a length, the
\* payload, then the path with its count.  Some are cut short or too long.
LegacyHost ==
  [ commands |-> {"LEGACY_SIGN_JSON", "LEGACY_SIGN_HASH"},
    fields |-> {<<1, 5, 2, 8, 9>>, <<2, 5, 6, 3>>, <<8, 9, 1>>, <<5, 6, 2, 8>>, <<9>>, << >>},
    pieces |-> {} ]

\* 0x23 and 0x10: the first field is a modern path and no legacy one, the
\* second the reverse, the third a bad prefix for 0x10, the last a hash.
MixedHost ==
  [ commands |-> {"SIGN_HASH", "LEGACY_TRANSFER"},
    fields |-> {<<8, 9, 1, 0, 0, 0, 0>>, <<3, 8, 9, 2>>, <<2, 8, 8, 0, 0, 0, 0>>, <<5, 6>>},
    pieces |-> {<< >>, <<5, 5, 5>>, <<6, 5, 5>>} ]

Hosts == [modern |-> ModernHost, legacy |-> LegacyHost, mixed |-> MixedHost]

MCCommands == UNION {Hosts[h].commands : h \in DOMAIN Hosts}
MCData == UNION {Hosts[h].fields : h \in DOMAIN Hosts}
MCPieces == UNION {Hosts[h].pieces : h \in DOMAIN Hosts}

MCInit == Init /\ host \in DOMAIN Hosts

\* A step of KadenaApp's Next: the host sends some of the commands and data.
MCNext ==
  /\ Step(Hosts[host].commands, Hosts[host].fields, Hosts[host].pieces)
  /\ UNCHANGED host

MCSpec == MCInit /\ [][MCNext]_MCvars
=============================================================================
