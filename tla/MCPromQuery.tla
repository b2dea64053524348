---------------------------- MODULE MCPromQuery -----------------------------
EXTENDS PromQuery

(* 2023-11-14 in hours since the epoch, and the range of                 *)
(* datetime.fromtimestamp (years 1 to 9999) in hours.                    *)
CONSTANTS Name, Private, Public

MCNow == 472222
MCMinTs == -17259888
MCMaxTs == 70389527

(* Hour counts around the boundary of the window check, and one so large *)
(* that the start of the window falls before year 1.                     *)
SmallHours == {-1, 0, 1}
HugeHours == {20000000}
MCEpochArgs == {0, 1}

(* The default --prometheus, http://zen3:9091, names a host; the others *)
(* give an IP literal or break one rule of _validate_prometheus_url.    *)
DefaultUrl == [scheme |-> "http", credentials |-> FALSE, extras |-> FALSE,
               host |-> Name, portOk |-> TRUE]
MCUrls ==
    {DefaultUrl, [DefaultUrl EXCEPT !.host = Private], [DefaultUrl EXCEPT !.host = Public],
     [DefaultUrl EXCEPT !.scheme = "ftp"], [DefaultUrl EXCEPT !.credentials = TRUE],
     [DefaultUrl EXCEPT !.extras = TRUE], [DefaultUrl EXCEPT !.host = None],
     [DefaultUrl EXCEPT !.portOk = FALSE]}
MCAddrs == {Private, Public}
MCPrivateAddrs == {Private}
(* At start the name may fail to resolve, or resolve to either kind.     *)
MCDnsAnswers == SUBSET MCAddrs
(* Later the answer may flip between failing and private...            *)
StableAnswers == {{}, {Private}}
(* ...or be rebound to a public address.                                 *)
RebindToPublic == {{Public}}
=============================================================================
