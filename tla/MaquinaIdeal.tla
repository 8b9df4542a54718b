---------------------------- MODULE MaquinaIdeal ----------------------------
(***************************************************************************)
(* What the simulation promises a program: a machine of its own.  It has  *)
(* its registers, its program counter and its segments, which nobody else *)
(* changes; only segment 0 is common.  A logical address is a segment and *)
(* an offset, and an access beyond its segment ends the program.  The one *)
(* CPU, context switches and physical addresses do not show.              *)
(*                                                                        *)
(* A compaction, of which a program should see nothing either, shows in   *)
(* two ways: a segment may keep only its first bytes, and an F_READ that  *)
(* waited meanwhile may be written anywhere.                              *)
(***************************************************************************)
EXTENDS Integers, Sequences, SequencesExt

CONSTANTS Procesos, Instrucciones, Caracteres,
          Ancho,              \* register -> how many characters it holds
          TAM_MAX_SEGMENTO,
          INICIAL             \* what a register holds when a program starts

VARIABLES fase,         \* "corre", "espera" (a file or the memory), "termina" or "fin"
          contador, registros,
          segmentos,    \* program -> its segments [ID, bytes], in the order of creation
          compartido,   \* the bytes of segment 0
          pedido,       \* program -> the instruction it waits for
          desviados     \* the programs whose F_READ or F_WRITE goes to wrong addresses

vars == <<fase, contador, registros, segmentos, compartido, pedido, desviados>>

NADA == [op |-> "NADA"]

\* A value in a register: on the left, followed by zeros.
Rellenar(valor, ancho) == [i \in 1 .. ancho |-> IF i <= Len(valor) THEN valor[i] ELSE "0"]

EnCero == [r \in DOMAIN Ancho |-> Rellenar(INICIAL, Ancho[r])]

\* Where the segment is in the list of p: the oldest with that ID, 0 if there is none.
Indice(p, id) == SelectInSeq(segmentos[p], LAMBDA s : s.ID = id)

Segmento(p, id) ==
    IF id = 0 THEN compartido
    ELSE IF Indice(p, id) = 0 THEN <<>> ELSE segmentos[p][Indice(p, id)].bytes

Num(dir) == dir \div TAM_MAX_SEGMENTO
Despl(dir) == dir % TAM_MAX_SEGMENTO

\* The n bytes from dir are in one segment of p.
Alcanza(p, dir, n) ==
    /\ Num(dir) = 0 \/ Indice(p, Num(dir)) # 0
    /\ Despl(dir) + n <= Len(Segmento(p, Num(dir)))

Lee(p, dir, n) == SubSeq(Segmento(p, Num(dir)), Despl(dir) + 1, Despl(dir) + n)

\* The bytes b with valor from dir on.
Sobre(b, dir, valor) ==
    [i \in 1 .. Len(b) |-> IF i - Despl(dir) \in 1 .. Len(valor) THEN valor[i - Despl(dir)]
                           ELSE b[i]]

Escribe(p, dir, valor) ==
    IF Num(dir) = 0
    THEN compartido' = Sobre(compartido, dir, valor) /\ UNCHANGED segmentos
    ELSE /\ segmentos' = [segmentos EXCEPT ![p][Indice(p, Num(dir))].bytes = Sobre(@, dir, valor)]
         /\ UNCHANGED compartido

Init ==
    /\ fase = [p \in Procesos |-> "corre"] /\ contador = [p \in Procesos |-> 0]
    /\ registros = [p \in Procesos |-> EnCero]
    /\ segmentos = [p \in Procesos |-> <<>>]
    /\ compartido \in Seq({" "})
    /\ pedido = [p \in Procesos |-> NADA]
    /\ desviados = {}

Avanza(p) == fase[p] = "corre" /\ contador' = [contador EXCEPT ![p] = @ + 1]

Setear(p, r, valor) ==
    /\ Avanza(p)
    /\ registros' = [registros EXCEPT ![p][r] = Rellenar(valor, Ancho[r])]
    /\ UNCHANGED <<fase, segmentos, compartido, pedido, desviados>>

Leer(p, r, dir) ==
    /\ Avanza(p)
    /\ registros' = [registros EXCEPT ![p][r] = Lee(p, dir, Ancho[r])]
    /\ UNCHANGED <<fase, segmentos, compartido, pedido, desviados>>

Escribir(p, r, dir) ==
    /\ Avanza(p)
    /\ Escribe(p, dir, registros[p][r])
    /\ UNCHANGED <<fase, registros, pedido, desviados>>

\* An instruction that only lets others run.
Ceder(p) ==
    /\ Avanza(p)
    /\ UNCHANGED <<fase, registros, segmentos, compartido, pedido, desviados>>

\* A segment, or the transfer of a file from or to addresses of p.
Pedir(p, ins) ==
    /\ Avanza(p)
    /\ fase' = [fase EXCEPT ![p] = "espera"]
    /\ pedido' = [pedido EXCEPT ![p] = ins]
    /\ UNCHANGED <<registros, segmentos, compartido, desviados>>

\* The same segments, whatever is in them.
MismaForma ==
    /\ Len(compartido') = Len(compartido)
    /\ \A q \in Procesos :
          /\ Len(segmentos'[q]) = Len(segmentos[q])
          /\ \A i \in DOMAIN segmentos[q] :
                /\ segmentos'[q][i].ID = segmentos[q][i].ID
                /\ Len(segmentos'[q][i].bytes) = Len(segmentos[q][i].bytes)

\* A new segment holds whatever its bytes held; a file may hold anything.
Contestar(p) ==
    /\ fase[p] = "espera"
    /\ fase' = [fase EXCEPT ![p] = "corre"]
    /\ LET ins == pedido[p]
       IN  CASE ins.op = "CREATE_SEGMENT" ->
                    /\ \E b \in [1 .. ins.bytes -> Caracteres] :
                          segmentos' = [segmentos EXCEPT
                                          ![p] = Append(@, [ID |-> ins.segmento, bytes |-> b])]
                    /\ UNCHANGED compartido
             [] ins.op = "DELETE_SEGMENT" ->
                    /\ segmentos' = [segmentos EXCEPT ![p] = RemoveAt(@, Indice(p, ins.segmento))]
                    /\ UNCHANGED compartido
             [] ins.op = "F_READ" ->
                    \/ \E valor \in [1 .. ins.bytes -> Caracteres] :
                            Escribe(p, ins.direccion, valor)
                    \/ p \in desviados /\ MismaForma
             [] ins.op = "F_WRITE" -> UNCHANGED <<segmentos, compartido>>
    /\ pedido' = [pedido EXCEPT ![p] = NADA]
    /\ desviados' = desviados \ {p}
    /\ UNCHANGED <<contador, registros>>

\* The first n bytes, and blanks.
Recorte(b, n) == [i \in 1 .. Len(b) |-> IF i <= n THEN b[i] ELSE " "]

\* Room is made for the segment that p asks for: of every segment at least the first byte is
\* left, and the transfers that wait are overtaken or not.
Compactar(p) ==
    /\ fase[p] = "espera" /\ pedido[p].op = "CREATE_SEGMENT"
    /\ \A q \in Procesos :
          /\ Len(segmentos'[q]) = Len(segmentos[q])
          /\ \A i \in DOMAIN segmentos[q] :
                LET s == segmentos[q][i]
                IN  \E n \in 1 .. Len(s.bytes) + 1 :
                        segmentos'[q][i] = [s EXCEPT !.bytes = Recorte(@, n)]
    /\ desviados' \subseteq {q \in Procesos : pedido[q].op \in {"F_READ", "F_WRITE"}}
    /\ UNCHANGED <<fase, contador, registros, compartido, pedido>>

\* The machine can do what the instruction says.
Correcta(p, ins) ==
    CASE ins.op = "SET" -> ins.registro \in DOMAIN Ancho /\ Len(ins.valor) <= Ancho[ins.registro]
      [] ins.op \in {"MOV_IN", "MOV_OUT"} ->
            ins.registro \in DOMAIN Ancho /\ Alcanza(p, ins.direccion, Ancho[ins.registro])
      [] ins.op \in {"F_READ", "F_WRITE"} -> Alcanza(p, ins.direccion, ins.bytes)
      [] OTHER -> ins.op # "DESCONOCIDA"

\* EXIT, an instruction that is not correct, or no room for a segment.
Terminar(p, ins) ==
    /\ \/ fase[p] = "corre" /\ (ins.op = "EXIT" \/ ~Correcta(p, ins))
       \/ fase[p] = "espera" /\ ins = pedido[p] /\ ins.op = "CREATE_SEGMENT"
    /\ fase' = [fase EXCEPT ![p] = "termina"]
    /\ pedido' = [pedido EXCEPT ![p] = NADA]
    /\ contador' = [contador EXCEPT ![p] = 0] /\ registros' = [registros EXCEPT ![p] = EnCero]
    /\ UNCHANGED <<segmentos, compartido, desviados>>

Retirar(p) ==
    /\ fase[p] = "termina"
    /\ fase' = [fase EXCEPT ![p] = "fin"]
    /\ segmentos' = [segmentos EXCEPT ![p] = <<>>]
    /\ UNCHANGED <<contador, registros, compartido, pedido, desviados>>

Ejecutar(p, ins) ==
    /\ Correcta(p, ins)
    /\ CASE ins.op = "SET" -> Setear(p, ins.registro, ins.valor)
         [] ins.op = "MOV_IN" -> Leer(p, ins.registro, ins.direccion)
         [] ins.op = "MOV_OUT" -> Escribir(p, ins.registro, ins.direccion)
         [] ins.op \in {"F_READ", "F_WRITE", "CREATE_SEGMENT", "DELETE_SEGMENT"} -> Pedir(p, ins)
         [] OTHER -> Ceder(p)

Next == \E p \in Procesos :
            \/ Contestar(p) \/ Compactar(p) \/ Retirar(p)
            \/ \E ins \in Instrucciones : Ejecutar(p, ins) \/ Terminar(p, ins)

Spec == Init /\ [][Next]_vars
=============================================================================
