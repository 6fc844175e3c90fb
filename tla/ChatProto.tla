------------------------------ MODULE ChatProto ------------------------------
(***************************************************************************)
(* The datagrams the single server sends to its clients (proto.h, send.h). *)
(* A text that was said is not modelled: no branch of the server looks at  *)
(* it.  An address stands for the "ip:port" key of the client, which the   *)
(* server builds with construct_ip_port_key and which identifies the       *)
(* sockaddr_in the answer is sent to.                                      *)
(***************************************************************************)

\* The reasons given in a TXT_ERROR, one per call of send_error.
ErrorReason == {"not_logged_in", "no_channel", "not_member", "no_list",
                "internal", "bad_packet"}

\* send_message, send_channel_list, send_user_list, send_error
TextSay(to, c, n)    == [to |-> to, txt_type |-> "SAY", channel |-> c, username |-> n]
TextList(to, chans)  == [to |-> to, txt_type |-> "LIST", channels |-> chans]
TextWho(to, c, nms)  == [to |-> to, txt_type |-> "WHO", channel |-> c, usernames |-> nms]
TextError(to, why)   == [to |-> to, txt_type |-> "ERROR", error |-> why]
==============================================================================
