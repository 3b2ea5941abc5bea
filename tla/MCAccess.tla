------------------------------ MODULE MCAccess ------------------------------
(* Small instances of Access for TLC.  Levels and trust are those that the *)
(* thresholds tell apart; the day has three hours.                         *)
EXTENDS Access

\* common/config.py
MCDefaults == [docs |-> [min_role_level |-> 1, min_device_trust |-> 50],
               finance |-> [min_role_level |-> 3, min_device_trust |-> 80,
                            require_attestation |-> TRUE]]

Always == [start |-> 0, end |-> 3]

\* pdp/policies.json as it is, ...
Shipped == [kind |-> "document", hours |-> Always,
            resources |-> [finance |-> [max_auth_age |-> 1, required_amr |-> {"pwd", "otp"}]]]
\* ... and with hours, a resource that only it knows and one that lacks its thresholds.
Edited == [kind |-> "document", hours |-> [start |-> 1, end |-> 2],
           resources |-> [docs |-> [business_hours_only |-> TRUE],
                          wiki |-> [min_role_level |-> 1, min_device_trust |-> 0],
                          draft |-> [min_role_level |-> 1]]]

MCFiles == {Shipped, Edited, Malformed, NoFile}

Login == [level |-> 3, trust |-> 80, attested |-> TRUE, auth_time |-> 0, amr |-> {"pwd", "otp"}]

MCClaims == {Login, [Login EXCEPT !.level = 2], [Login EXCEPT !.level = 0],
             [Login EXCEPT !.trust = 20],
             [Login EXCEPT !.attested = FALSE], [Login EXCEPT !.auth_time = NoTime],
             [Login EXCEPT !.amr = {"pwd"}], [Login EXCEPT !.auth_time = 1]}
=============================================================================
