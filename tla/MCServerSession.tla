--------------------------- MODULE MCServerSession ----------------------------
(* Scenarios for TLC: as in the repository, extended by two commands, by an     *)
(* unknown one, with two commands swapped, and too short.                       *)
EXTENDS ServerSession

MCConfigs ==
    { Canonical,
      Canonical \o <<"completionInfo", "updateOpen">>,
      Canonical \o <<"other", "navto">>,
      <<"geterr", "updateOpen", "references", "navto", "completionInfo">>,
      <<"updateOpen", "geterr">> }
=============================================================================
