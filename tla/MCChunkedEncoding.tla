-------------------------- MODULE MCChunkedEncoding --------------------------
EXTENDS ChunkedEncoding

\* The lengths of test_small_body_to_chunked (40) and test_big_body_to_chunked
\* (32 * 4096), and every length below 40: one- and two-digit sizes, and the
\* empty body that takes make_chain's else branch.
TestBodyLens == (0..39) \cup {40, 32 * 4096}
=============================================================================
