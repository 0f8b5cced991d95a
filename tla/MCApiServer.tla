----------------------------- MODULE MCApiServer -----------------------------
(* Instances of ApiServer for TLC: which requests come together.            *)
EXTENDS ApiServer

\* Those that meet at the same rows or counters.  A feed that is created in
\* a mix is not deleted together with its meeting: the row that represents
\* its table would come back as another one.
MCMixes ==
    { {"register", "login"}, {"forgot", "profile"}, {"register", "resend"},
      {"upload", "unlink", "password"},
      {"create_agent", "delete_agent", "create_key", "revoke_key", "exchange"},
      {"checkout"}, {"create_meeting"}, {"agents"}, {"feeds"},
      {"start", "end", "update"},
      {"delete", "create_task", "update_task", "invite", "select"},
      {"delete", "summary", "start", "activate", "deactivate"},
      {"delete", "update_feed", "delete_feed", "trigger"},
      {"create_feed", "trigger", "delete_feed", "connect", "disconnect"} }
=============================================================================
