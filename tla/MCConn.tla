------------------------------- MODULE MCConn -------------------------------
(* Small instances of Conn: the flights a server may send. *)
EXTENDS Conn

Message(m, ok) == <<Part(m, "header", "good"), Part(m, "body", ok)>>

Right == Message("CERT", "good") \o Message("CV", "good") \o Message("FIN", "good")
Asking == Message("CR", "good") \o Right
Odd == Message("CERT", "good") \o Message("CV", "odd") \o Message("FIN", "good")
Unsigned == Message("CERT", "good") \o Message("FIN", "good")
Wrong == Message("CERT", "good") \o Message("CV", "wrong") \o Message("FIN", "good")
Late == Message("CERT", "good") \o Message("CV", "good") \o Message("EE", "good") \o Message("FIN", "good")
BadFinished == Message("CERT", "good") \o Message("CV", "good") \o Message("FIN", "wrong")
BadMessages == {Message("CERT", "malformed"), Message("CR", "malformed"), Message("CV", "malformed"),
                Message("SH", "good")}
Trailing == Right \o Message("EE", "good")

HonestFlights == {Right, Odd, Asking}
AllFlights == {Right, Odd, Unsigned, Wrong, Late, BadFinished, Trailing} \cup BadMessages
OneFlight == {Right}
=============================================================================
