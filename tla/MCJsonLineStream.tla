--------------------------- MODULE MCJsonLineStream ---------------------------
EXTENDS JsonLineStream

\* Every output format; two input values, two record batches and a channel
\* of one chunk, so that a write waits for the reader and a batch meets a
\* full channel or a dropped receiver.
MCFormats == {"parquet", "csv", "json"}
MCMaxChunks == 2
MCMaxBatches == 2
MCChanCap == 1

====
